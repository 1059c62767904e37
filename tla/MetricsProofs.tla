--------------------------- MODULE MetricsProofs ---------------------------
(***************************************************************************)
(* JobMetrics.  Whose report a number of the row is cannot be seen in the  *)
(* row, so the invariant follows it to the entry of the log that set it.   *)
(* The log orders the runs; the row is what entries that were read set, at *)
(* most one start of a run ahead of the saved offset; until a run has      *)
(* reported, its observations are of what it inherited, which makes its    *)
(* uptime stale; a clock that was observed is this run's or the last one   *)
(* before it, and a run that reports a clock has none before it.  A run    *)
(* without statistics is the first, so the ingest clock measures what that *)
(* run alone reported.  The samples of a generation of the log are up to   *)
(* the mark, except at positions that could not be stored.                 *)
(***************************************************************************)
EXTENDS JobMetrics, FiniteSetTheorems, WellFoundedInduction, TLAPS

LEMMA LeastNat ==
    ASSUME NEW S \in SUBSET Nat, S # {}
    PROVE  \E x \in S : \A y \in S : x <= y
<1>1. IsWellFoundedOn(OpToRel(<, Nat), Nat)
    BY NatLessThanWellFounded
<1>2. PICK x \in S : \A y \in S : ~(<<y, x>> \in OpToRel(<, Nat))
    BY <1>1, WFMin
<1>3. ASSUME NEW y \in S, y < x PROVE FALSE
    <2>1. <<y, x>> \in Nat \X Nat /\ <<y, x>>[1] < <<y, x>>[2]
        BY <1>3
    <2>2. <<y, x>> \in OpToRel(<, Nat)
        BY <2>1 DEF OpToRel
    <2> QED BY <1>2, <2>2
<1> QED BY <1>3

(***************************************************************************)
(* A report in the log is of the run that its cpu names.  LastClock: entry *)
(* j left a clock in the job ad that a run r found there.                  *)
(***************************************************************************)
UsageIn(log) == {i \in DOMAIN log : "cpu" \in DOMAIN log[i]}
ClocksIn(log) == {i \in DOMAIN log : "clock" \in DOMAIN log[i]}
StartsIn(log) == {i \in DOMAIN log : "nss" \in DOMAIN log[i]}
ReportRun(e) == e.cpu.by
ReportValue == [v : Int, by : Int]
IsSequence(s) == s \in Seq({s[i] : i \in DOMAIN s})

LastClock(log, r, j) ==
    /\ j \in ClocksIn(log) /\ log[j].clock.v > 0 /\ ReportRun(log[j]) < r
    /\ \A k \in ClocksIn(log) : k > j => ReportRun(log[k]) >= r

\* What one transaction of the schedd can be.
LogEntry(e, i) ==
    /\ "nss" \in DOMAIN e => e.nss \in Nat \ {0} /\ "cpu" \notin DOMAIN e
    /\ "cpu" \in DOMAIN e => e.cpu \in ReportValue /\ e.cpu.v >= 0 /\ ReportRun(e) >= 0
    /\ "cpu" \in DOMAIN e /\ "life" \notin DOMAIN e => e.cpu.v = 0 \/ ReportRun(e) = 0
    /\ "life" \in DOMAIN e =>
         "cpu" \in DOMAIN e /\ e.life \in ReportValue /\ e.life.v > 0 /\ e.life.by = ReportRun(e)
    /\ "clock" \in DOMAIN e =>
         "life" \in DOMAIN e /\ (e.clock = Absent \/ e.clock = [v |-> i, by |-> ReportRun(e)])

\* Runs are counted in the order of the log, and a run reports after it was
\* counted and before the next one is.
StartsInOrder(log) == \A i, k \in StartsIn(log) : i < k => log[i].nss < log[k].nss
RunsInOrder(log) == \A i, k \in UsageIn(log) : i < k => ReportRun(log[i]) <= ReportRun(log[k])
ReportsInRun(log) ==
    \A i \in StartsIn(log), k \in UsageIn(log) :
        /\ i < k => log[i].nss <= ReportRun(log[k]) + 1
        /\ k < i => ReportRun(log[k]) + 1 < log[i].nss
ReportsStarted(log) ==
    \A k \in UsageIn(log) : \E i \in StartsIn(log) : i < k /\ log[i].nss = ReportRun(log[k]) + 1

\* A run that reports its clock found none in the job ad.
ClockAlone(log) ==
    \A k \in ClocksIn(log) :
        log[k].clock.v > 0 => \A j \in DOMAIN log : ~LastClock(log, ReportRun(log[k]), j)

LogInv(log) ==
    /\ IsSequence(log)
    /\ \A i \in DOMAIN log : LogEntry(log[i], i)
    /\ StartsInOrder(log) /\ RunsInOrder(log) /\ ReportsInRun(log) /\ ReportsStarted(log)
    /\ ClockAlone(log)

ShadowInv(env, log) ==
    /\ env.runs \in Nat /\ env.life \in Nat /\ env.cpu \in Nat
    /\ env.clocked \in BOOLEAN /\ env.bare \in BOOLEAN /\ env.dated \in BOOLEAN
    /\ env.runs = 0 => ~env.dated
    /\ env.bare => env.runs = 1 /\ ~env.clocked /\ ~env.dated
    /\ \A i \in StartsIn(log) : log[i].nss <= env.runs
    /\ \A i \in UsageIn(log) : ReportRun(log[i]) < env.runs
    /\ env.st \in {"running", "exiting"} => \E i \in StartsIn(log) : log[i].nss = env.runs
    /\ ~env.dated => \A j \in DOMAIN log : ~LastClock(log, env.runs, j)
    /\ env.st = "running" /\ env.clocked => \A j \in DOMAIN log : ~LastClock(log, env.runs - 1, j)

\* What the row says of attribute a is what some entry set, unless a later one
\* that the tailer has read set it again.
RowAt(log, row, at, a) ==
    \/ row[a] = Absent /\ \A k \in 1..at : a \notin DOMAIN log[k]
    \/ \E i \in DOMAIN log :
         /\ a \in DOMAIN log[i] /\ row[a] = log[i][a] /\ ReportRun(log[i]) < row.nss
         /\ \A k \in i + 1..at : a \notin DOMAIN log[k]

RowRun(log, row, at, kept) ==
    /\ \A i \in StartsIn(log) : i <= at => log[i].nss <= row.nss
    /\ row.nss # 0 =>
         \E i \in StartsIn(log) : log[i].nss = row.nss /\ (i <= at \/ (i = at + 1 /\ kept = at))

UsageOf(run, life, clock, cpu) ==
    /\ life.by <= run /\ clock.by <= run /\ cpu.by <= run
    /\ life.by = run => cpu.by = run
    /\ clock.by = run => life.by = run
    /\ cpu.v >= 0 => cpu.by >= 0
    /\ life.v < 0 /\ cpu.by = run => cpu.v <= 0 \/ run = 0

RowInv(log, row, at, kept) ==
    /\ DOMAIN row = {"status", "nss", "life", "clock", "cpu"}
    /\ row.nss \in Nat
    /\ row.life \in ReportValue /\ row.clock \in ReportValue /\ row.cpu \in ReportValue
    /\ RowRun(log, row, at, kept)
    /\ RowAt(log, row, at, "life") /\ RowAt(log, row, at, "clock") /\ RowAt(log, row, at, "cpu")
    /\ UsageOf(row.nss - 1, row.life, row.clock, row.cpu)

\* A clock that was observed is in the log, of this run or left by the one before.
ClockSeen(log, run, time) ==
    time.v > 0 =>
        /\ time.v \in ClocksIn(log) /\ log[time.v].clock = time
        /\ time.by = run \/ LastClock(log, run, time.v)

PrevInv(log, p) ==
    /\ p # NoObservation
    /\ p.run \in Nat
    /\ p.life \in ReportValue /\ p.time \in ReportValue /\ p.cpu \in ReportValue
    /\ UsageOf(p.run, p.life, p.time, p.cpu)
    /\ ClockSeen(log, p.run, p.time)
    /\ p.clock = IF p.time.v > 0 THEN "starter" ELSE IF p.life.v >= 0 THEN "lifetime" ELSE "ingest"
    /\ p.clock = "lifetime" /\ p.life.by # p.run => p.stale

\* Until the run has reported, its observations are of what it inherited.
PrevOfRow(p, row) ==
    /\ p.run < row.nss
    /\ p.run = row.nss - 1 /\ row.life.by # p.run => p.life = row.life /\ p.time = row.clock
    /\ p.run = row.nss - 1 /\ row.cpu.by # p.run => p.cpu = row.cpu

ObservedInv(log, p, row) == p = NoObservation \/ (PrevInv(log, p) /\ PrevOfRow(p, row))

ShadowFields == {"st", "runs", "life", "cpu", "clocked", "bare", "dated"}
LapseFields == {"marks", "ends"}
TailerFields == {"at", "saved", "gen", "base", "pc", "sample", "update"}

SampleOK(s) == s.rate => s.from = {s.run}

TailerInv(log, sync) ==
    /\ sync.at \in Nat /\ sync.saved \in Nat /\ sync.saved <= sync.at /\ sync.at <= Len(log)
    /\ sync.gen \in Nat /\ sync.base \in Int
    /\ sync.pc \in {"read", "flush", "append"}
    /\ sync.pc # "read" =>
         /\ sync.sample.pos.seq = sync.gen /\ sync.sample.pos.offset \in Int
         /\ SampleOK(sync.sample)

\* The samples of this generation of the log are up to the mark, and up to the one
\* that is stored, but for those whose position could not be stored.
Marked(mark, marks, pos) == ~After(pos, mark) \/ pos \in marks
ArchivedInv(arch, mark, stored, marks, sync) ==
    /\ IsSequence(arch)
    /\ mark.seq \in Nat /\ mark.offset \in Int
    /\ stored.seq \in Nat /\ stored.offset \in Int
    /\ \A i \in DOMAIN arch :
         /\ SampleOK(arch[i]) /\ arch[i].pos.seq \in Nat /\ arch[i].pos.offset \in Int
         /\ arch[i].pos.seq <= sync.gen
         /\ arch[i].pos.seq = sync.gen =>
              Marked(mark, marks, arch[i].pos) /\ Marked(stored, marks, arch[i].pos)
         /\ sync.pc = "append" /\ arch[i].pos = sync.sample.pos => arch[i].pos \in marks
    /\ sync.pc = "append" => mark = sync.sample.pos /\ Marked(stored, marks, sync.sample.pos)
    /\ \A i, j \in DOMAIN arch : i # j /\ arch[i].pos = arch[j].pos => arch[i].pos \in marks

MetricsInv ==
    /\ DOMAIN menv = ShadowFields /\ DOMAIN msync = TailerFields /\ DOMAIN mlapse = LapseFields
    /\ LogInv(mlog) /\ ShadowInv(menv, mlog)
    /\ TailerInv(mlog, msync)
    /\ RowInv(mlog, mrow, msync.at, msync.saved)
    /\ ObservedInv(mlog, mprev, mrow)
    /\ msync.pc # "read" => msync.update # NoUpdate /\ ObservedInv(mlog, msync.update.prev, mrow)
    /\ ArchivedInv(march, mmark, mstored, mlapse.marks, msync)

LEMMA LatestIs ==
    ASSUME NEW n \in Nat, NEW S \in SUBSET (1..n), S # {}
    PROVE  LET m == CHOOSE i \in S : \A j \in S : j <= i IN m \in S /\ \A j \in S : j <= m
PROOF
<1> DEFINE U == {m \in Nat : \A x \in S : x <= m}
<1>1. PICK m \in U : \A y \in U : m <= y
  <2>1. n \in U
    OBVIOUS
  <2> QED BY <2>1, LeastNat
<1>2. m \in S
  <2> SUFFICES ASSUME m \notin S PROVE FALSE
    OBVIOUS
  <2>1. \A x \in S : x <= m - 1
    OBVIOUS
  <2>2. PICK x \in S : TRUE
    OBVIOUS
  <2>3. m - 1 \in Nat
    BY <2>1, <2>2
  <2> QED BY <1>1, <2>1, <2>3
<1>3. \A y \in S : y <= m
  BY <1>1
<1> QED BY <1>2, <1>3

LEMMA AppendSequence ==
    ASSUME NEW s, IsSequence(s), NEW e
    PROVE  /\ IsSequence(Append(s, e)) /\ Len(s) \in Nat /\ DOMAIN s = 1..Len(s)
           /\ DOMAIN Append(s, e) = 1..Len(s) + 1
           /\ Append(s, e)[Len(s) + 1] = e
           /\ \A i \in 1..Len(s) : Append(s, e)[i] = s[i]
PROOF
<1> DEFINE S == {s[i] : i \in DOMAIN s} \cup {e}
           t == Append(s, e)
<1>1. s \in Seq(S) /\ e \in S
  BY DEF IsSequence
<1> HIDE DEF S
<1>2. /\ Len(s) \in Nat /\ DOMAIN s = 1..Len(s) /\ t \in Seq(S)
      /\ Len(t) = Len(s) + 1 /\ DOMAIN t = 1..Len(t)
      /\ t[Len(s) + 1] = e /\ \A i \in 1..Len(s) : t[i] = s[i]
  BY <1>1
<1> HIDE DEF t
<1>3. t \in Seq({t[i] : i \in DOMAIN t})
  BY <1>2
<1> QED BY <1>2, <1>3 DEF IsSequence, t

LEMMA MergedIs ==
    ASSUME NEW row, NEW e, DOMAIN row = {"status", "nss", "life", "clock", "cpu"}
    PROVE  /\ DOMAIN Merged(row, e) = {"status", "nss", "life", "clock", "cpu"}
           /\ Merged(row, e).nss = IF "nss" \in DOMAIN e THEN e.nss ELSE row.nss
           /\ Merged(row, e).life = IF "life" \in DOMAIN e THEN e.life ELSE row.life
           /\ Merged(row, e).clock = IF "clock" \in DOMAIN e THEN e.clock ELSE row.clock
           /\ Merged(row, e).cpu = IF "cpu" \in DOMAIN e THEN e.cpu ELSE row.cpu
PROOF
BY DEF Merged

LEMMA ValueIs ==
    /\ \A x \in ReportValue : x.v \in Int /\ x.by \in Int
    /\ \A a, b \in Int : [v |-> a, by |-> b] \in ReportValue
    /\ Absent \in ReportValue /\ Absent.v = -1 /\ Absent.by = -1
PROOF
BY DEF ReportValue, Absent

LEMMA EntriesAfter ==
    ASSUME NEW log, IsSequence(log), NEW e
    PROVE  /\ StartsIn(Append(log, e)) =
                StartsIn(log) \cup (IF "nss" \in DOMAIN e THEN {Len(log) + 1} ELSE {})
           /\ UsageIn(Append(log, e)) =
                UsageIn(log) \cup (IF "cpu" \in DOMAIN e THEN {Len(log) + 1} ELSE {})
           /\ ClocksIn(Append(log, e)) =
                ClocksIn(log) \cup (IF "clock" \in DOMAIN e THEN {Len(log) + 1} ELSE {})
PROOF
<1>a. PICK t : t = Append(log, e)
  OBVIOUS
<1>1. /\ Len(log) \in Nat /\ DOMAIN log = 1..Len(log) /\ DOMAIN t = 1..Len(log) + 1
      /\ t[Len(log) + 1] = e /\ \A i \in 1..Len(log) : t[i] = log[i]
  BY <1>a, AppendSequence
<1>2. \A i : i \in DOMAIN t <=> i \in DOMAIN log \/ i = Len(log) + 1
  BY <1>1
<1>3. StartsIn(t) = StartsIn(log) \cup (IF "nss" \in DOMAIN e THEN {Len(log) + 1} ELSE {})
  BY <1>1, <1>2 DEF StartsIn
<1>4. UsageIn(t) = UsageIn(log) \cup (IF "cpu" \in DOMAIN e THEN {Len(log) + 1} ELSE {})
  BY <1>1, <1>2 DEF UsageIn
<1>5. ClocksIn(t) = ClocksIn(log) \cup (IF "clock" \in DOMAIN e THEN {Len(log) + 1} ELSE {})
  BY <1>1, <1>2 DEF ClocksIn
<1> QED BY <1>a, <1>3, <1>4, <1>5

\* The parts of the log are indices of it, and its entries are well formed.
LEMMA LogParts ==
    ASSUME NEW log, LogInv(log)
    PROVE  /\ Len(log) \in Nat /\ DOMAIN log = 1..Len(log)
           /\ StartsIn(log) \subseteq 1..Len(log) /\ UsageIn(log) \subseteq 1..Len(log)
           /\ ClocksIn(log) \subseteq UsageIn(log)
           /\ \A i \in StartsIn(log) : log[i].nss \in Nat
           /\ \A i \in UsageIn(log) : ReportRun(log[i]) \in Nat
           /\ \A i \in ClocksIn(log) : log[i].clock.v \in Int
PROOF
<1>1. IsSequence(log) /\ \A i \in DOMAIN log : LogEntry(log[i], i)
  BY DEF LogInv
<1>2. Len(log) \in Nat /\ DOMAIN log = 1..Len(log)
  BY <1>1, AppendSequence
<1>3. StartsIn(log) \subseteq 1..Len(log) /\ UsageIn(log) \subseteq 1..Len(log)
  BY <1>2 DEF StartsIn, UsageIn
<1>4. ClocksIn(log) \subseteq UsageIn(log)
  BY <1>1 DEF ClocksIn, UsageIn, LogEntry
<1>5. \A i \in StartsIn(log) : log[i].nss \in Nat
  BY <1>1 DEF StartsIn, LogEntry
<1>6. \A i \in UsageIn(log) : ReportRun(log[i]) \in Nat
  <2> SUFFICES ASSUME NEW i \in UsageIn(log)
               PROVE  ReportRun(log[i]) \in Nat
    OBVIOUS
  <2>1. PICK x : x = log[i].cpu
    OBVIOUS
  <2>2. x \in ReportValue /\ x.by >= 0
    BY <1>1, <2>1 DEF UsageIn, LogEntry, ReportRun
  <2>3. x.by \in Nat
    BY <2>2, ValueIs
  <2> QED BY <2>1, <2>3 DEF ReportRun
<1>7. \A i \in ClocksIn(log) : log[i].clock.v \in Int
  <2> SUFFICES ASSUME NEW i \in ClocksIn(log)
               PROVE  log[i].clock.v \in Int
    OBVIOUS
  <2>2. i \in 1..Len(log) /\ LogEntry(log[i], i) /\ "clock" \in DOMAIN log[i]
    BY <1>1, <1>2 DEF ClocksIn
  <2>1. i \in Int /\ (log[i].clock = Absent \/ log[i].clock = [v |-> i, by |-> ReportRun(log[i])])
    BY <2>2 DEF LogEntry
  <2> QED BY <2>1 DEF Absent
<1> QED BY <1>2, <1>3, <1>4, <1>5, <1>6, <1>7

\* LastClock as the log grows: an entry of run r or later changes nothing for r.
LEMMA LastClockAfter ==
    ASSUME NEW log, LogInv(log), NEW e, NEW r \in Int, NEW j,
           "clock" \in DOMAIN e => "cpu" \in DOMAIN e /\ ReportRun(e) \in Int
    PROVE  /\ LastClock(Append(log, e), r, j) =>
                \/ LastClock(log, r, j)
                \/ j = Len(log) + 1 /\ "clock" \in DOMAIN e /\ e.clock.v > 0 /\ ReportRun(e) < r
           /\ LastClock(log, r, j) /\ ("clock" \in DOMAIN e => ReportRun(e) >= r) =>
                LastClock(Append(log, e), r, j)
           /\ LastClock(Append(log, e), r, j) /\ "clock" \in DOMAIN e /\ ReportRun(e) < r =>
                j = Len(log) + 1
PROOF
<1>a. PICK t : t = Append(log, e)
  OBVIOUS
<1>b. PICK n : n = Len(log) + 1
  OBVIOUS
<1>1. /\ Len(log) \in Nat /\ DOMAIN log = 1..Len(log)
      /\ ClocksIn(log) \subseteq 1..Len(log)
      /\ \A i \in ClocksIn(log) : ReportRun(log[i]) \in Nat
      /\ \A i \in ClocksIn(log) : log[i].clock.v \in Int
  BY LogParts, Zenon
<1>2. t[n] = e /\ \A i \in ClocksIn(log) : t[i] = log[i]
  BY <1>a, <1>b, <1>1, AppendSequence DEF LogInv
<1>3. ClocksIn(t) = ClocksIn(log) \cup (IF "clock" \in DOMAIN e THEN {n} ELSE {})
  BY <1>a, <1>b, EntriesAfter DEF LogInv
<1>4. \A i \in ClocksIn(log) : i \in Nat /\ i < n
  BY <1>b, <1>1
<1>5. ASSUME LastClock(t, r, j)
      PROVE  \/ LastClock(log, r, j)
             \/ j = n /\ "clock" \in DOMAIN e /\ e.clock.v > 0 /\ ReportRun(e) < r
  <2>1. CASE j \in ClocksIn(log)
    BY <1>2, <1>3, <1>5, <2>1 DEF LastClock
  <2>2. CASE j = n /\ "clock" \in DOMAIN e
    BY <1>2, <1>5, <2>2 DEF LastClock
  <2> QED BY <1>3, <1>5, <2>1, <2>2 DEF LastClock
<1>6. ASSUME LastClock(log, r, j), "clock" \in DOMAIN e => ReportRun(e) >= r
      PROVE  LastClock(t, r, j)
  BY <1>2, <1>3, <1>6 DEF LastClock
<1>7. ASSUME LastClock(t, r, j), "clock" \in DOMAIN e, ReportRun(e) < r
      PROVE  j = n
  BY <1>2, <1>3, <1>4, <1>7 DEF LastClock
<1> QED BY <1>a, <1>b, <1>5, <1>6, <1>7

\* A transaction that neither counts a run nor reports.
LEMMA QuietEntry ==
    ASSUME NEW log, NEW env, NEW env2, NEW e, LogInv(log), ShadowInv(env, log),
           {"nss", "cpu", "life", "clock"} \cap DOMAIN e = {},
           env2.runs = env.runs, env2.life = env.life, env2.cpu = env.cpu,
           env2.clocked = env.clocked, env2.bare = env.bare, env2.dated = env.dated,
           env2.st = "running" => env.st = "running",
           env2.st = "exiting" => env.st \in {"running", "exiting"}
    PROVE  LogInv(Append(log, e)) /\ ShadowInv(env2, Append(log, e))
PROOF
<1>a. PICK t : t = Append(log, e)
  OBVIOUS
<1>1. /\ Len(log) \in Nat /\ DOMAIN log = 1..Len(log) /\ DOMAIN t = 1..Len(log) + 1
      /\ t[Len(log) + 1] = e /\ \A i \in 1..Len(log) : t[i] = log[i]
      /\ IsSequence(t)
  BY <1>a, AppendSequence DEF LogInv
<1>2. /\ StartsIn(t) = StartsIn(log) /\ UsageIn(t) = UsageIn(log) /\ ClocksIn(t) = ClocksIn(log)
  BY <1>a, EntriesAfter, ZenonT(30) DEF LogInv
<1>3. /\ \A i \in StartsIn(log) : t[i] = log[i]
      /\ \A i \in UsageIn(log) : t[i] = log[i]
      /\ \A i \in ClocksIn(log) : t[i] = log[i]
  BY <1>1 DEF StartsIn, UsageIn, ClocksIn
<1>4. \A r, j : LastClock(t, r, j) <=> LastClock(log, r, j)
  BY <1>2, <1>3 DEF LastClock
<1>5. ClockAlone(t)
  BY <1>2, <1>3, <1>4 DEF LogInv, ClockAlone, LastClock, ClocksIn
<1>8. StartsInOrder(t) /\ RunsInOrder(t) /\ ReportsInRun(t) /\ ReportsStarted(t)
  <2>1. StartsInOrder(t)
    BY <1>2, <1>3 DEF LogInv, StartsInOrder
  <2>2. RunsInOrder(t)
    BY <1>2, <1>3 DEF LogInv, RunsInOrder
  <2>3. ReportsInRun(t)
    BY <1>2, <1>3 DEF LogInv, ReportsInRun
  <2>4. ReportsStarted(t)
    <3> SUFFICES ASSUME NEW k \in UsageIn(log)
                 PROVE  \E i \in StartsIn(log) : i < k /\ t[i].nss = ReportRun(t[k]) + 1
      BY <1>2 DEF ReportsStarted
    <3>1. PICK i \in StartsIn(log) : i < k /\ log[i].nss = ReportRun(log[k]) + 1
      BY DEF LogInv, ReportsStarted
    <3> QED BY <1>3, <3>1
  <2> QED BY <2>1, <2>2, <2>3, <2>4
<1>6. \A i \in DOMAIN t : LogEntry(t[i], i)
  <2>1. LogEntry(e, Len(log) + 1)
    BY DEF LogEntry
  <2>2. \A i \in 1..Len(log) : LogEntry(log[i], i)
    BY <1>1 DEF LogInv
  <2> QED BY <1>1, <2>1, <2>2
<1>7. ShadowInv(env2, t)
  <2>1. \A j \in DOMAIN t : \A r : LastClock(t, r, j) => j \in DOMAIN log /\ LastClock(log, r, j)
    BY <1>4 DEF LastClock, ClocksIn
  <2> QED BY <1>2, <1>3, <2>1 DEF ShadowInv
<1> QED BY <1>a, <1>1, <1>5, <1>6, <1>7, <1>8 DEF LogInv

StartStep(env, env2, e) ==
    /\ DOMAIN e = {"nss"} /\ e.nss = env.runs + 1
    /\ env2.runs = env.runs + 1 /\ env2.life = 0 /\ env2.cpu = 0
    /\ env2.clocked \in BOOLEAN /\ env2.bare \in BOOLEAN /\ env2.dated = env.dated
    /\ env2.clocked => ~env.dated
    /\ env2.bare => env.runs = 0 /\ ~env2.clocked

\* A run is counted; it finds no clock in the job ad if it will report its own.
LEMMA StartEntry ==
    ASSUME NEW log, NEW env, NEW env2, NEW e, LogInv(log), ShadowInv(env, log),
           StartStep(env, env2, e)
    PROVE  LogInv(Append(log, e)) /\ ShadowInv(env2, Append(log, e))
PROOF
<1>a. PICK t : t = Append(log, e)
  OBVIOUS
<1>b. PICK n : n = Len(log) + 1
  OBVIOUS
<1>1. /\ Len(log) \in Nat /\ DOMAIN log = 1..Len(log) /\ DOMAIN t = 1..Len(log) + 1
      /\ t[n] = e /\ \A i \in 1..Len(log) : t[i] = log[i]
      /\ IsSequence(t)
  BY <1>a, <1>b, AppendSequence DEF LogInv
<1>2. StartsIn(t) = StartsIn(log) \cup {n} /\ UsageIn(t) = UsageIn(log) /\ ClocksIn(t) = ClocksIn(log)
  <2>1. "nss" \in DOMAIN e /\ "cpu" \notin DOMAIN e /\ "clock" \notin DOMAIN e
    BY DEF StartStep
  <2>2. IsSequence(log)
    BY DEF LogInv
  <2>3. /\ StartsIn(t) = StartsIn(log) \cup (IF "nss" \in DOMAIN e THEN {n} ELSE {})
        /\ UsageIn(t) = UsageIn(log) \cup (IF "cpu" \in DOMAIN e THEN {n} ELSE {})
        /\ ClocksIn(t) = ClocksIn(log) \cup (IF "clock" \in DOMAIN e THEN {n} ELSE {})
    BY <1>a, <1>b, <2>2, EntriesAfter
  <2> QED BY <2>1, <2>3
<1>3. /\ \A i \in StartsIn(log) : t[i] = log[i] /\ i \in Nat /\ i < n /\ log[i].nss \in Nat
      /\ \A i \in UsageIn(log) : t[i] = log[i] /\ i \in Nat /\ i < n /\ ReportRun(log[i]) \in Nat
      /\ \A i \in ClocksIn(log) : t[i] = log[i] /\ i \in UsageIn(log)
  <2>1. \A i \in 1..Len(log) : i \in Nat /\ i < n
    BY <1>b, <1>1
  <2> QED BY <1>1, <2>1, LogParts
<1>4. \A r, j : LastClock(t, r, j) <=> LastClock(log, r, j)
  BY <1>2, <1>3 DEF LastClock
<1>5. PICK r \in Nat : r = env.runs
  BY DEF ShadowInv
<1>14. /\ n \in Nat /\ t[n].nss = r + 1 /\ env2.runs = r + 1
       /\ \A i \in StartsIn(log) : t[i].nss \in Nat /\ t[i].nss <= r
       /\ \A i \in UsageIn(log) : ReportRun(t[i]) \in Nat /\ ReportRun(t[i]) < r
  <2>1. n \in Nat /\ t[n] = e
    BY <1>b, <1>1
  <2>2. e.nss = r + 1 /\ env2.runs = r + 1
    BY <1>5 DEF StartStep
  <2>3. \A i \in StartsIn(log) : log[i].nss <= r
    BY <1>5 DEF ShadowInv
  <2>4. \A i \in UsageIn(log) : ReportRun(log[i]) < r
    BY <1>5 DEF ShadowInv
  <2> QED BY <1>3, <2>1, <2>2, <2>3, <2>4
<1>6. \A i \in DOMAIN t : LogEntry(t[i], i)
  <2>1. LogEntry(e, n)
    BY <1>5 DEF LogEntry, StartStep
  <2>2. \A i \in 1..Len(log) : LogEntry(log[i], i)
    BY <1>1 DEF LogInv
  <2> QED BY <1>b, <1>1, <2>1, <2>2
<1>7. StartsInOrder(t)
  <2>1. StartsInOrder(log)
    BY DEF LogInv
  <2>2. \A i \in StartsIn(log) : t[i].nss < t[n].nss
    BY <1>14
  <2> SUFFICES ASSUME NEW i \in StartsIn(log) \cup {n}, NEW k \in StartsIn(log) \cup {n}, i < k
               PROVE  t[i].nss < t[k].nss
    BY <1>2 DEF StartsInOrder
  <2>3. CASE i \in StartsIn(log) /\ k \in StartsIn(log)
    BY <1>3, <2>1, <2>3 DEF StartsInOrder
  <2>4. CASE i \in StartsIn(log) /\ k = n
    BY <2>2, <2>4
  <2>5. CASE i = n
    BY <1>3, <1>14, <2>5
  <2> QED BY <2>3, <2>4, <2>5
<1>8. RunsInOrder(t)
  BY <1>2, <1>3 DEF LogInv, RunsInOrder
<1>9. ReportsInRun(t)
  <2> SUFFICES ASSUME NEW i \in StartsIn(log) \cup {n}, NEW k \in UsageIn(log)
               PROVE  /\ i < k => t[i].nss <= ReportRun(t[k]) + 1
                      /\ k < i => ReportRun(t[k]) + 1 < t[i].nss
    BY <1>2 DEF ReportsInRun
  <2>1. CASE i \in StartsIn(log)
    BY <1>3, <2>1 DEF LogInv, ReportsInRun
  <2>2. CASE i = n
    <3>1. k \in Nat /\ k < n
      BY <1>3
    <3> HIDE DEF StartStep
    <3> QED BY <1>14, <2>2, <3>1
  <2> QED BY <2>1, <2>2
<1>10. ReportsStarted(t)
  <2> SUFFICES ASSUME NEW k \in UsageIn(log)
               PROVE  \E i \in StartsIn(t) : i < k /\ t[i].nss = ReportRun(t[k]) + 1
    BY <1>2 DEF ReportsStarted
  <2>1. PICK i \in StartsIn(log) : i < k /\ log[i].nss = ReportRun(log[k]) + 1
    BY DEF LogInv, ReportsStarted
  <2> QED BY <1>2, <1>3, <2>1
<1>11. ClockAlone(t)
  BY <1>2, <1>3, <1>4 DEF LogInv, ClockAlone, LastClock, ClocksIn
<1>12. ShadowInv(env2, t)
  <2>1. \A i \in StartsIn(t) : t[i].nss <= env2.runs
    BY <1>2, <1>14
  <2>2. \A i \in UsageIn(t) : ReportRun(t[i]) < env2.runs
    BY <1>2, <1>14
  <2>3. \E i \in StartsIn(t) : t[i].nss = env2.runs
    BY <1>2, <1>14
  <2>4. ~env2.dated => \A j \in DOMAIN t : ~LastClock(t, r + 1, j) /\ ~LastClock(t, r, j)
    <3> SUFFICES ASSUME ~env.dated, NEW j, LastClock(log, r + 1, j) \/ LastClock(log, r, j)
                 PROVE  FALSE
      BY <1>4 DEF StartStep
    <3>1. LastClock(log, r, j)
      BY <1>3, <1>14 DEF LastClock
    <3>2. j \in DOMAIN log
      BY <3>1 DEF LastClock, ClocksIn
    <3> QED BY <1>5, <3>1, <3>2 DEF ShadowInv
  <2>5. env2.runs - 1 = r
    BY <1>14
  <2>6. /\ env2.runs \in Nat /\ env2.life \in Nat /\ env2.cpu \in Nat
        /\ env2.clocked \in BOOLEAN /\ env2.dated \in BOOLEAN
    BY <1>14 DEF ShadowInv, StartStep
  <2>7. env2.clocked => ~env2.dated
    BY DEF StartStep
  <2>8. /\ env2.bare \in BOOLEAN /\ (env2.runs = 0 => ~env2.dated)
        /\ env2.bare => env2.runs = 1 /\ ~env2.clocked /\ ~env2.dated
    BY DEF StartStep, ShadowInv
  <2> QED BY <1>14, <2>1, <2>2, <2>3, <2>4, <2>5, <2>6, <2>7, <2>8 DEF ShadowInv
<1> QED BY <1>a, <1>b, <1>1, <1>6, <1>7, <1>8, <1>9, <1>10, <1>11, <1>12 DEF LogInv

ReportStep(env, env2, log, e) ==
    /\ env.st = "running" /\ "nss" \notin DOMAIN e /\ "cpu" \in DOMAIN e
    /\ ReportRun(e) = env.runs - 1 /\ env.runs > 0
    /\ LogEntry(e, Len(log) + 1)
    /\ "clock" \in DOMAIN e /\ e.clock.v > 0 => env.clocked
    /\ ~env2.dated /\ env.dated => "clock" \in DOMAIN e /\ e.clock = Absent
    /\ ~env2.dated => ~("clock" \in DOMAIN e /\ e.clock.v > 0)
    /\ env2.dated \in BOOLEAN /\ env2.st = env.st /\ env2.runs = env.runs
    /\ env2.life \in Nat /\ env2.cpu \in Nat /\ env2.clocked = env.clocked
    /\ env2.bare = env.bare /\ (env2.dated => env.dated \/ env.clocked)

\* A running job's usage is written; without a clock, one that was left is removed.
LEMMA ReportEntry ==
    ASSUME NEW log, NEW env, NEW env2, NEW e, LogInv(log), ShadowInv(env, log),
           ReportStep(env, env2, log, e)
    PROVE  LogInv(Append(log, e)) /\ ShadowInv(env2, Append(log, e))
PROOF
<1>a. PICK t : t = Append(log, e)
  OBVIOUS
<1>b. PICK n : n = Len(log) + 1
  OBVIOUS
<1>1. /\ Len(log) \in Nat /\ DOMAIN log = 1..Len(log) /\ DOMAIN t = 1..Len(log) + 1
      /\ t[n] = e /\ \A i \in 1..Len(log) : t[i] = log[i]
      /\ IsSequence(t)
  BY <1>a, <1>b, AppendSequence DEF LogInv
<1>2. /\ StartsIn(t) = StartsIn(log) /\ UsageIn(t) = UsageIn(log) \cup {n}
      /\ ClocksIn(t) = ClocksIn(log) \cup (IF "clock" \in DOMAIN e THEN {n} ELSE {})
  BY <1>a, <1>b, EntriesAfter DEF LogInv, ReportStep
<1>3. /\ \A i \in StartsIn(log) : t[i] = log[i] /\ i \in Nat /\ i < n /\ log[i].nss \in Nat
      /\ \A i \in UsageIn(log) : t[i] = log[i] /\ i \in Nat /\ i < n /\ ReportRun(log[i]) \in Nat
      /\ \A i \in ClocksIn(log) : t[i] = log[i] /\ i \in UsageIn(log)
  <2>1. \A i \in 1..Len(log) : i \in Nat /\ i < n
    BY <1>b, <1>1
  <2> QED BY <1>1, <2>1, LogParts
<1>5. PICK r \in Nat : r = env.runs - 1
  BY DEF ShadowInv, ReportStep
<1>14. /\ n \in Nat /\ ReportRun(e) = r /\ ReportRun(t[n]) = r
       /\ env.runs = r + 1 /\ env2.runs = r + 1
       /\ \A i \in StartsIn(log) : t[i].nss \in Nat /\ t[i].nss <= r + 1
       /\ \A i \in UsageIn(log) : ReportRun(t[i]) \in Nat /\ ReportRun(t[i]) <= r
  <2>1. /\ env.runs \in Nat /\ \A i \in StartsIn(log) : log[i].nss <= env.runs
        /\ \A i \in UsageIn(log) : ReportRun(log[i]) < env.runs
    BY DEF ShadowInv
  <2>2. env.runs > 0 /\ ReportRun(e) = env.runs - 1 /\ env2.runs = env.runs
    BY DEF ReportStep
  <2>3. n \in Nat /\ ReportRun(t[n]) = ReportRun(e)
    BY <1>b, <1>1
  <2>4. env.runs = r + 1
    BY <1>5, <2>1
  <2>5. \A i \in StartsIn(log) : t[i].nss \in Nat /\ t[i].nss <= r + 1
    BY <1>3, <2>1, <2>4
  <2>6. \A i \in UsageIn(log) : ReportRun(t[i]) \in Nat /\ ReportRun(t[i]) <= r
    BY <1>3, <2>1, <2>4
  <2> QED BY <1>5, <2>2, <2>3, <2>4, <2>5, <2>6
<1>4. \A run \in Int : \A j :
        /\ LastClock(t, run, j) =>
             \/ LastClock(log, run, j)
             \/ j = n /\ "clock" \in DOMAIN e /\ e.clock.v > 0 /\ ReportRun(e) < run
        /\ LastClock(t, run, j) /\ "clock" \in DOMAIN e /\ ReportRun(e) < run => j = n
  BY <1>a, <1>b, <1>14, LastClockAfter DEF ReportStep, LogEntry
<1>6. \A i \in DOMAIN t : LogEntry(t[i], i)
  <2>2. \A i \in 1..Len(log) : LogEntry(log[i], i)
    BY <1>1 DEF LogInv
  <2>3. LogEntry(t[n], n)
    BY <1>b, <1>1 DEF ReportStep
  <2> QED BY <1>b, <1>1, <2>2, <2>3
<1>7. StartsInOrder(t)
  BY <1>2, <1>3 DEF LogInv, StartsInOrder
<1>8. RunsInOrder(t)
  <2> SUFFICES ASSUME NEW i \in UsageIn(log) \cup {n}, NEW k \in UsageIn(log) \cup {n}, i < k
               PROVE  ReportRun(t[i]) <= ReportRun(t[k])
    BY <1>2 DEF RunsInOrder
  <2>3. CASE i \in UsageIn(log) /\ k \in UsageIn(log)
    BY <1>3, <2>3 DEF LogInv, RunsInOrder
  <2>4. CASE i \in UsageIn(log) /\ k = n
    BY <1>14, <2>4
  <2>5. CASE i = n
    BY <1>3, <1>14, <2>5
  <2> QED BY <2>3, <2>4, <2>5
<1>9. ReportsInRun(t)
  <2> SUFFICES ASSUME NEW i \in StartsIn(log), NEW k \in UsageIn(log) \cup {n}
               PROVE  /\ i < k => t[i].nss <= ReportRun(t[k]) + 1
                      /\ k < i => ReportRun(t[k]) + 1 < t[i].nss
    BY <1>2 DEF ReportsInRun
  <2>1. CASE k \in UsageIn(log)
    BY <1>3, <2>1 DEF LogInv, ReportsInRun
  <2>2. CASE k = n
    <3>1. i \in Nat /\ i < n
      BY <1>3
    <3> QED BY <1>14, <2>2, <3>1
  <2> QED BY <2>1, <2>2
<1>10. ReportsStarted(t)
  <2> SUFFICES ASSUME NEW k \in UsageIn(log) \cup {n}
               PROVE  \E i \in StartsIn(log) : i < k /\ t[i].nss = ReportRun(t[k]) + 1
    BY <1>2 DEF ReportsStarted
  <2>1. CASE k \in UsageIn(log)
    <3>1. PICK i \in StartsIn(log) : i < k /\ log[i].nss = ReportRun(log[k]) + 1
      BY <2>1 DEF LogInv, ReportsStarted
    <3> QED BY <1>3, <2>1, <3>1
  <2>2. CASE k = n
    <3>1. PICK i \in StartsIn(log) : log[i].nss = env.runs
      BY DEF ShadowInv, ReportStep
    <3>2. i < n /\ t[i].nss = r + 1
      BY <1>3, <1>14, <3>1
    <3> QED BY <1>14, <2>2, <3>2
  <2> QED BY <2>1, <2>2
<1>13. env.clocked => \A j : ~LastClock(t, r, j)
  <2> SUFFICES ASSUME env.clocked, NEW j, LastClock(t, r, j)
               PROVE  FALSE
    OBVIOUS
  <2>1. LastClock(log, r, j)
    BY <1>4, <1>14
  <2>2. j \in DOMAIN log
    BY <2>1 DEF LastClock, ClocksIn
  <2> QED BY <1>5, <2>1, <2>2 DEF ShadowInv, ReportStep
<1>11. ClockAlone(t)
  <2> SUFFICES ASSUME NEW k \in ClocksIn(t), t[k].clock.v > 0, NEW j, LastClock(t, ReportRun(t[k]), j)
               PROVE  FALSE
    BY DEF ClockAlone
  <2>1. CASE k \in ClocksIn(log)
    <3>1. t[k] = log[k] /\ ReportRun(log[k]) \in Nat /\ ReportRun(log[k]) <= r
      BY <1>3, <1>14, <2>1
    <3>2. LastClock(log, ReportRun(log[k]), j)
      BY <1>4, <1>14, <3>1
    <3>3. j \in DOMAIN log
      BY <3>2 DEF LastClock, ClocksIn
    <3> QED BY <2>1, <3>1, <3>2, <3>3 DEF LogInv, ClockAlone
  <2>2. CASE k = n /\ "clock" \in DOMAIN e
    <3>1. env.clocked /\ ReportRun(t[k]) = r
      BY <1>1, <1>14, <2>2 DEF ReportStep
    <3> QED BY <1>13, <3>1
  <2> QED BY <1>2, <2>1, <2>2
<1>12. ShadowInv(env2, t)
  <2>5. env2.runs = env.runs
    BY DEF ReportStep
  <2>1. \A i \in StartsIn(t) : t[i].nss <= env2.runs
    BY <1>2, <1>14
  <2>2. \A i \in UsageIn(t) : ReportRun(t[i]) < env2.runs
    <3>1. \A i \in UsageIn(log) : ReportRun(t[i]) < env2.runs
      BY <1>3, <1>14, <2>5
    <3>2. ReportRun(t[n]) < env2.runs
      BY <1>14
    <3> QED BY <1>2, <3>1, <3>2
  <2>3. \E i \in StartsIn(t) : t[i].nss = env2.runs
    <3>1. PICK i \in StartsIn(log) : log[i].nss = env.runs
      BY DEF ShadowInv, ReportStep
    <3> QED BY <1>2, <1>3, <2>5, <3>1
  <2>4. ~env2.dated => \A j \in DOMAIN t : ~LastClock(t, env.runs, j)
    <3> SUFFICES ASSUME ~env2.dated, NEW j, LastClock(t, env.runs, j)
                 PROVE  FALSE
      OBVIOUS
    <3>1. LastClock(log, env.runs, j)
      BY <1>4, <1>14 DEF ReportStep
    <3>2. j \in DOMAIN log /\ j # n
      BY <1>b, <1>1, <3>1 DEF LastClock, ClocksIn
    <3>3. env.dated
      BY <3>1, <3>2 DEF ShadowInv
    <3>4. "clock" \in DOMAIN e /\ ReportRun(e) < env.runs
      BY <1>14, <3>3 DEF ReportStep
    <3> QED BY <1>4, <1>14, <3>2, <3>4
  <2>6. /\ env2.runs \in Nat /\ env2.life \in Nat /\ env2.cpu \in Nat
        /\ env2.clocked \in BOOLEAN /\ env2.dated \in BOOLEAN
    BY <1>14 DEF ShadowInv, ReportStep
  <2>8. /\ env2.bare \in BOOLEAN /\ (env2.runs = 0 => ~env2.dated)
        /\ env2.bare => env2.runs = 1 /\ ~env2.clocked /\ ~env2.dated
    BY <1>14 DEF ShadowInv, ReportStep
  <2>7. env2.clocked => \A j \in DOMAIN t : ~LastClock(t, env2.runs - 1, j)
    <3>1. env2.runs - 1 = r
      BY <1>14
    <3> QED BY <1>13, <3>1 DEF ReportStep
  <2> QED BY <2>1, <2>2, <2>3, <2>4, <2>5, <2>6, <2>7, <2>8 DEF ShadowInv
<1> QED BY <1>a, <1>b, <1>1, <1>6, <1>7, <1>8, <1>9, <1>10, <1>11, <1>12 DEF LogInv

\* The row and the predecessor are not disturbed by what the schedd appends.
LEMMA RowGrows ==
    ASSUME NEW log, LogInv(log), NEW e, NEW row, NEW at \in Nat, NEW kept, at <= Len(log),
           RowInv(log, row, at, kept)
    PROVE  RowInv(Append(log, e), row, at, kept)
PROOF
<1>a. PICK t : t = Append(log, e)
  OBVIOUS
<1>1. /\ Len(log) \in Nat /\ DOMAIN log = 1..Len(log) /\ DOMAIN t = 1..Len(log) + 1
      /\ \A i \in 1..Len(log) : t[i] = log[i]
  BY <1>a, AppendSequence DEF LogInv
<1>2. DOMAIN log \subseteq DOMAIN t /\ \A i \in 1..at : i \in DOMAIN log
  BY <1>1
<1>3. \A a : RowAt(log, row, at, a) => RowAt(t, row, at, a)
  <2> SUFFICES ASSUME NEW a, RowAt(log, row, at, a)
               PROVE  RowAt(t, row, at, a)
    OBVIOUS
  <2>1. CASE row[a] = Absent /\ \A k \in 1..at : a \notin DOMAIN log[k]
    BY <1>1, <1>2, <2>1 DEF RowAt
  <2>2. ASSUME NEW i \in DOMAIN log, a \in DOMAIN log[i], row[a] = log[i][a],
               ReportRun(log[i]) < row.nss, \A k \in i + 1..at : a \notin DOMAIN log[k]
        PROVE  RowAt(t, row, at, a)
    <3>1. i \in DOMAIN t /\ t[i] = log[i]
      BY <1>1, <1>2
    <3>2. \A k \in i + 1..at : t[k] = log[k]
      BY <1>1
    <3> QED BY <2>2, <3>1, <3>2 DEF RowAt
  <2> QED BY <2>1, <2>2 DEF RowAt
<1>4. RowRun(t, row, at, kept)
  <2>1. RowRun(log, row, at, kept)
    BY DEF RowInv
  <2>2. \A i \in StartsIn(log) : i \in StartsIn(t) /\ t[i] = log[i]
    BY <1>1, <1>2 DEF StartsIn
  <2>3. \A i \in StartsIn(t) : i <= at => i \in StartsIn(log)
    BY <1>1 DEF StartsIn
  <2>4. \A i \in StartsIn(t) : i <= at => t[i].nss <= row.nss
    BY <2>1, <2>2, <2>3 DEF RowRun
  <2>5. ASSUME row.nss # 0
        PROVE  \E i \in StartsIn(t) : t[i].nss = row.nss /\ (i <= at \/ (i = at + 1 /\ kept = at))
    <3>1. PICK i \in StartsIn(log) : log[i].nss = row.nss /\ (i <= at \/ (i = at + 1 /\ kept = at))
      BY <2>1, <2>5 DEF RowRun
    <3> QED BY <2>2, <3>1
  <2> QED BY <2>4, <2>5 DEF RowRun
<1> QED BY <1>a, <1>3, <1>4 DEF RowInv

LEMMA ObservedGrows ==
    ASSUME NEW log, LogInv(log), NEW e, NEW p, NEW row, row.nss \in Nat,
           "clock" \in DOMAIN e =>
             "cpu" \in DOMAIN e /\ ReportRun(e) \in Int /\ ReportRun(e) >= row.nss - 1,
           ObservedInv(log, p, row)
    PROVE  ObservedInv(Append(log, e), p, row)
PROOF
<1>a. PICK t : t = Append(log, e)
  OBVIOUS
<1> SUFFICES ASSUME PrevInv(log, p), PrevOfRow(p, row)
             PROVE  ClockSeen(t, p.run, p.time)
  BY <1>a DEF ObservedInv, PrevInv
<1>1. p.run \in Nat /\ p.run < row.nss
  BY DEF PrevInv, PrevOfRow
<1>2. \A i \in ClocksIn(log) : i \in ClocksIn(t) /\ t[i] = log[i]
  <2>1. /\ Len(log) \in Nat /\ DOMAIN log = 1..Len(log) /\ DOMAIN t = 1..Len(log) + 1
        /\ \A i \in 1..Len(log) : t[i] = log[i]
    BY <1>a, AppendSequence DEF LogInv
  <2> QED BY <2>1 DEF ClocksIn
<1>3. "clock" \in DOMAIN e => ReportRun(e) >= p.run
  BY <1>1
<1>4. \A j : LastClock(log, p.run, j) => LastClock(t, p.run, j)
  BY <1>a, <1>1, <1>3, LastClockAfter
<1>5. ClockSeen(log, p.run, p.time)
  BY DEF PrevInv
<1> QED BY <1>2, <1>4, <1>5 DEF ClockSeen

\* A row is of a run that was counted.
LEMMA RowOfRuns ==
    ASSUME NEW log, NEW env, NEW row, NEW at, NEW kept,
           ShadowInv(env, log), RowInv(log, row, at, kept)
    PROVE  row.nss \in Nat /\ env.runs \in Nat /\ row.nss <= env.runs
PROOF
BY DEF ShadowInv, RowInv, RowRun

\* The transactions of the schedd are of three kinds.
ScheddStep(env, env2, log, e) ==
    \/ /\ {"nss", "cpu", "life", "clock"} \cap DOMAIN e = {}
       /\ env2.runs = env.runs /\ env2.life = env.life /\ env2.cpu = env.cpu
       /\ env2.clocked = env.clocked /\ env2.bare = env.bare /\ env2.dated = env.dated
       /\ env2.st = "running" => env.st = "running"
       /\ env2.st = "exiting" => env.st \in {"running", "exiting"}
    \/ StartStep(env, env2, e)
    \/ ReportStep(env, env2, log, e)

LEMMA ScheddStepKeeps ==
    ASSUME NEW log, NEW env, NEW env2, NEW e, LogInv(log), ShadowInv(env, log),
           ScheddStep(env, env2, log, e)
    PROVE  /\ LogInv(Append(log, e)) /\ ShadowInv(env2, Append(log, e))
           /\ "clock" \in DOMAIN e =>
                "cpu" \in DOMAIN e /\ ReportRun(e) \in Int /\ ReportRun(e) >= env.runs - 1
PROOF
<1>1. env.runs \in Nat
  BY DEF ShadowInv
<1>2. CASE /\ {"nss", "cpu", "life", "clock"} \cap DOMAIN e = {}
           /\ env2.runs = env.runs /\ env2.life = env.life /\ env2.cpu = env.cpu
           /\ env2.clocked = env.clocked /\ env2.bare = env.bare /\ env2.dated = env.dated
           /\ env2.st = "running" => env.st = "running"
           /\ env2.st = "exiting" => env.st \in {"running", "exiting"}
  <2>1. "clock" \notin DOMAIN e
    BY <1>2
  <2> QED BY <1>2, <2>1, QuietEntry
<1>3. CASE StartStep(env, env2, e)
  <2>1. "clock" \notin DOMAIN e
    BY <1>3 DEF StartStep
  <2> QED BY <1>3, <2>1, StartEntry
<1>4. CASE ReportStep(env, env2, log, e)
  <2>1. "cpu" \in DOMAIN e /\ ReportRun(e) = env.runs - 1
    BY <1>4 DEF ReportStep
  <2> QED BY <1>1, <1>4, <2>1, ReportEntry
<1> QED BY <1>2, <1>3, <1>4 DEF ScheddStep

LEMMA ScheddCommits ==
    ASSUME SamplerFaults = {}, LogInv(mlog), ShadowInv(menv, mlog), DOMAIN menv = ShadowFields,
           ScheddCommit
    PROVE  /\ DOMAIN menv' = ShadowFields
           /\ \E e : mlog' = Append(mlog, e) /\ ScheddStep(menv, menv', mlog, e)
PROOF
<1> DEFINE Goal == /\ DOMAIN menv' = ShadowFields
                   /\ \E e : mlog' = Append(mlog, e) /\ ScheddStep(menv, menv', mlog, e)
           Quiet(e) == /\ menv' \in {menv, [menv EXCEPT !.st = "marked"], [menv EXCEPT !.st = "idle"]}
                       /\ DOMAIN e \subseteq {"status", "exit"} /\ Writes(e)
<1>1. /\ menv.runs \in Nat /\ menv.life \in Nat /\ menv.cpu \in Nat
      /\ menv.clocked \in BOOLEAN /\ menv.bare \in BOOLEAN /\ menv.dated \in BOOLEAN
      /\ menv.bare => menv.runs = 1 /\ ~menv.clocked /\ ~menv.dated
      /\ Len(mlog) \in Nat
  BY LogParts DEF ShadowInv
<1>2. ASSUME NEW e, Quiet(e) PROVE Goal
  <2>1. {"nss", "cpu", "life", "clock"} \cap DOMAIN e = {} /\ mlog' = Append(mlog, e)
    BY <1>2 DEF Writes
  <2>2. /\ DOMAIN menv' = ShadowFields
        /\ menv'.runs = menv.runs /\ menv'.life = menv.life /\ menv'.cpu = menv.cpu
        /\ menv'.clocked = menv.clocked /\ menv'.bare = menv.bare /\ menv'.dated = menv.dated
        /\ menv'.st = "running" => menv.st = "running"
        /\ menv'.st = "exiting" => menv.st \in {"running", "exiting"}
    BY <1>2 DEF ShadowFields
  <2> QED BY <2>1, <2>2 DEF ScheddStep
<1>3. ASSUME menv.st = "running", menv' = [menv EXCEPT !.st = "exiting"], NEW e,
             DOMAIN e = {"exit"}, Writes(e)
      PROVE  Goal
  <2>1. {"nss", "cpu", "life", "clock"} \cap DOMAIN e = {} /\ mlog' = Append(mlog, e)
    BY <1>3 DEF Writes
  <2>2. /\ DOMAIN menv' = ShadowFields
        /\ menv'.runs = menv.runs /\ menv'.life = menv.life /\ menv'.cpu = menv.cpu
        /\ menv'.clocked = menv.clocked /\ menv'.bare = menv.bare /\ menv'.dated = menv.dated
        /\ menv'.st = "exiting"
    BY <1>3 DEF ShadowFields
  <2> QED BY <1>3, <2>1, <2>2 DEF ScheddStep
<1>4. ASSUME NEW clocked \in BOOLEAN, NEW bare \in BOOLEAN, ~(clocked /\ bare),
             clocked /\ menv.dated => "old_clock" \in SamplerFaults,
             bare /\ menv.runs > 0 => "no_stats" \in SamplerFaults,
             menv' = [st |-> "running", runs |-> menv.runs + 1, life |-> 0, cpu |-> 0,
                      clocked |-> clocked, bare |-> bare, dated |-> menv.dated],
             NEW e, e = [nss |-> menv.runs + 1], Writes(e)
      PROVE  Goal
  <2>1. DOMAIN menv' = ShadowFields /\ mlog' = Append(mlog, e)
    BY <1>4 DEF Writes, ShadowFields
  <2>2. StartStep(menv, menv', e)
    BY <1>1, <1>4 DEF StartStep
  <2> QED BY <2>1, <2>2 DEF ScheddStep
<1>5. menv.st = "running" => menv.runs > 0
  <2>1. \A i \in StartsIn(mlog) : mlog[i].nss # 0
    BY DEF LogInv, LogEntry, StartsIn
  <2> QED BY <1>1, <2>1 DEF ShadowInv
<1>6. \A n : Value(n).v = n /\ Value(n).by = menv.runs - 1
  BY DEF Value
<1>7. \A n \in Nat : Value(n) \in ReportValue
  BY <1>1, ValueIs DEF Value
<1>8. ASSUME menv.st = "running", menv.life = 0, menv' = menv, NEW e, e = [cpu |-> Value(0)], Writes(e)
      PROVE  Goal
  <2>1. DOMAIN e = {"cpu"} /\ e.cpu = Value(0) /\ mlog' = Append(mlog, e)
    BY <1>8 DEF Writes
  <2>2. ReportRun(e) = menv.runs - 1
    BY <1>6, <2>1 DEF ReportRun
  <2>3. LogEntry(e, Len(mlog) + 1)
    BY <1>1, <1>5, <1>6, <1>7, <1>8, <2>1, <2>2 DEF LogEntry
  <2>4. ReportStep(menv, menv', mlog, e)
    BY <1>1, <1>5, <1>8, <2>1, <2>2, <2>3 DEF ReportStep
  <2> QED BY <1>8, <2>1, <2>4 DEF ScheddStep
<1>9. ASSUME menv.st = "running", NEW l \in Nat, NEW c \in Nat, l > 0,
             menv' = [menv EXCEPT !.life = l, !.cpu = c, !.dated = menv.clocked],
             NEW e, e = Reported(l, c), Writes(e)
      PROVE  Goal
  <2>1. /\ DOMAIN menv' = ShadowFields
        /\ menv'.runs = menv.runs /\ menv'.life = l /\ menv'.cpu = c /\ menv'.st = menv.st
        /\ menv'.clocked = menv.clocked /\ menv'.bare = menv.bare /\ menv'.dated = menv.clocked
    BY <1>9 DEF ShadowFields
  <2>2. mlog' = Append(mlog, e)
    BY <1>9 DEF Writes
  <2>3. /\ "nss" \notin DOMAIN e /\ "cpu" \in DOMAIN e /\ e.cpu = Value(c)
        /\ menv.bare => DOMAIN e = {"cpu"}
        /\ ~menv.bare => "life" \in DOMAIN e /\ e.life = Value(l)
        /\ menv.clocked => "clock" \in DOMAIN e /\ e.clock = Value(Len(mlog) + 1)
        /\ ~menv.clocked /\ menv.dated => "clock" \in DOMAIN e /\ e.clock = Absent
        /\ ~menv.clocked /\ ~menv.dated => "clock" \notin DOMAIN e
    <3>1. CASE menv.bare
      <4>1. e = [cpu |-> Value(c)]
        BY <1>1, <1>9, <3>1 DEF Reported
      <4> QED BY <1>1, <3>1, <4>1
    <3>2. CASE ~menv.bare
      <4>1. CASE menv.clocked
        <5>1. e = [life |-> Value(l), clock |-> Value(Len(mlog) + 1), cpu |-> Value(c)]
          BY <1>9, <3>2, <4>1 DEF Reported
        <5> QED BY <3>2, <4>1, <5>1
      <4>2. CASE ~menv.clocked /\ menv.dated
        <5>1. e = [life |-> Value(l), clock |-> Absent, cpu |-> Value(c)]
          BY <1>9, <3>2, <4>2 DEF Reported
        <5> QED BY <3>2, <4>2, <5>1
      <4>3. CASE ~menv.clocked /\ ~menv.dated
        <5>1. e = [life |-> Value(l), cpu |-> Value(c)]
          BY <1>9, <3>2, <4>3 DEF Reported
        <5> QED BY <3>2, <4>3, <5>1
      <4> QED BY <4>1, <4>2, <4>3
    <3> QED BY <3>1, <3>2
  <2>4. ReportRun(e) = menv.runs - 1
    BY <1>6, <2>3 DEF ReportRun
  <2>5. Value(Len(mlog) + 1) = [v |-> Len(mlog) + 1, by |-> ReportRun(e)]
    BY <2>4 DEF Value
  <2>9. menv.bare => ReportRun(e) = 0
    BY <1>1, <2>4
  <2>10. "clock" \in DOMAIN e => "life" \in DOMAIN e
    BY <1>1, <2>3
  <2>6. LogEntry(e, Len(mlog) + 1)
    <3>1. e.cpu \in ReportValue /\ e.cpu.v >= 0 /\ ReportRun(e) >= 0
      BY <1>1, <1>5, <1>6, <1>7, <1>9, <2>3, <2>4
    <3>2. ~menv.bare => e.life \in ReportValue /\ e.life.v > 0 /\ e.life.by = ReportRun(e)
      BY <1>6, <1>7, <1>9, <2>3, <2>4
    <3>3. "clock" \in DOMAIN e =>
            e.clock = Absent \/ e.clock = [v |-> Len(mlog) + 1, by |-> ReportRun(e)]
      BY <2>3, <2>5
    <3>4. "life" \in DOMAIN e <=> ~menv.bare
      BY <2>3
    <3> QED BY <2>3, <2>9, <2>10, <3>1, <3>2, <3>3, <3>4 DEF LogEntry
  <2>7. "clock" \in DOMAIN e /\ e.clock.v > 0 => menv.clocked
    BY <2>3 DEF Absent
  <2>8. ReportStep(menv, menv', mlog, e)
    BY <1>1, <1>5, <1>9, <2>1, <2>3, <2>4, <2>6, <2>7 DEF ReportStep
  <2> QED BY <2>1, <2>2, <2>8 DEF ScheddStep
<1>10. ASSUME menv.st = "running", menv.life > 0, menv' = [menv EXCEPT !.dated = menv.clocked],
              Writes(Reported(menv.life, menv.cpu))
       PROVE  Goal
  <2>1. menv' = [menv EXCEPT !.life = menv.life, !.cpu = menv.cpu, !.dated = menv.clocked]
    BY <1>10 DEF ShadowFields
  <2> QED BY <1>1, <1>9, <1>10, <2>1
<1>11. ASSUME menv.st = "running", NEW d \in {1, 2},
              menv' = [menv EXCEPT !.life = @ + d, !.cpu = @ + d, !.dated = menv.clocked],
              Writes(Reported(menv'.life, menv'.cpu))
       PROVE  Goal
  <2>1. menv' = [menv EXCEPT !.life = menv.life + d, !.cpu = menv.cpu + d, !.dated = menv.clocked]
    BY <1>11
  <2>2. menv'.life = menv.life + d /\ menv'.cpu = menv.cpu + d
    BY <2>1 DEF ShadowFields
  <2>3. menv.life + d \in Nat /\ menv.cpu + d \in Nat /\ menv.life + d > 0
    BY <1>1, <1>11
  <2>4. Writes(Reported(menv.life + d, menv.cpu + d))
    BY <1>11, <2>2
  <2> QED BY <1>9, <1>11, <2>1, <2>3, <2>4
<1> SUFFICES Goal
  OBVIOUS
<1> HIDE DEF Goal, Quiet
<1>12. \A n : DOMAIN [status |-> n] = {"status"} /\ DOMAIN [exit |-> TRUE] = {"exit"}
  OBVIOUS
<1>13. CASE menv.st = "idle" /\ menv' = [menv EXCEPT !.st = "marked"] /\ Writes([status |-> 2])
  <2>1. Quiet([status |-> 2])
    BY <1>12, <1>13 DEF Quiet
  <2> QED BY <1>2, <2>1
<1>14. CASE \E n : menv' = [menv EXCEPT !.st = "idle"] /\ Writes([status |-> n])
  <2>1. PICK n : menv' = [menv EXCEPT !.st = "idle"] /\ Writes([status |-> n])
    BY <1>14
  <2>2. Quiet([status |-> n])
    BY <1>12, <2>1 DEF Quiet
  <2> QED BY <1>2, <2>2
<1>15. CASE menv' = menv /\ Writes([exit |-> TRUE])
  <2>1. Quiet([exit |-> TRUE])
    BY <1>12, <1>15 DEF Quiet
  <2> QED BY <1>2, <2>1
<1>16. CASE menv.st = "running" /\ menv' = [menv EXCEPT !.st = "exiting"] /\ Writes([exit |-> TRUE])
  BY <1>3, <1>12, <1>16
<1> QED BY <1>4, <1>8, <1>10, <1>11, <1>13, <1>14, <1>15, <1>16 DEF ScheddCommit

\* A report that the tailer reads is of the run that the row shows.
LEMMA EntryOfRun ==
    ASSUME NEW log, LogInv(log), NEW row, NEW at \in Nat, NEW kept, at < Len(log),
           RowInv(log, row, at, kept), "cpu" \in DOMAIN log[at + 1]
    PROVE  ReportRun(log[at + 1]) = row.nss - 1 /\ row.nss # 0
PROOF
<1>a. PICK n : n = at + 1
  OBVIOUS
<1>1. /\ Len(log) \in Nat /\ DOMAIN log = 1..Len(log)
      /\ StartsIn(log) \subseteq 1..Len(log)
      /\ \A i \in StartsIn(log) : log[i].nss \in Nat
      /\ \A i \in UsageIn(log) : ReportRun(log[i]) \in Nat
  BY LogParts
<1>2. n \in UsageIn(log) /\ n \notin StartsIn(log)
  <2>1. n \in DOMAIN log
    BY <1>a, <1>1
  <2>2. LogEntry(log[n], n)
    BY <2>1 DEF LogInv
  <2> QED BY <1>a, <2>1, <2>2 DEF UsageIn, StartsIn, LogEntry
<1>3. PICK b \in Nat : b = ReportRun(log[n])
  BY <1>1, <1>2
<1>4. PICK j \in StartsIn(log) : j < n /\ log[j].nss = b + 1
  BY <1>2, <1>3 DEF LogInv, ReportsStarted
<1>5. RowRun(log, row, at, kept) /\ row.nss \in Nat
  BY DEF RowInv
<1>6. b + 1 <= row.nss
  BY <1>a, <1>1, <1>4, <1>5 DEF RowRun
<1>7. PICK i \in StartsIn(log) : log[i].nss = row.nss /\ (i <= at \/ i = n)
  BY <1>a, <1>3, <1>5, <1>6 DEF RowRun
<1>8. i < n
  BY <1>a, <1>1, <1>2, <1>7
<1>9. row.nss <= b + 1
  BY <1>2, <1>3, <1>7, <1>8 DEF LogInv, ReportsInRun
<1>10. b = row.nss - 1 /\ row.nss # 0
  BY <1>3, <1>5, <1>6, <1>9
<1> QED BY <1>a, <1>3, <1>10

LEMMA RowAtLess ==
    ASSUME NEW log, NEW row, NEW a, NEW at \in Nat, NEW at2 \in Nat, at2 <= at,
           IsSequence(log), RowAt(log, row, at, a)
    PROVE  RowAt(log, row, at2, a)
PROOF
<1>1. CASE row[a] = Absent /\ \A k \in 1..at : a \notin DOMAIN log[k]
  BY <1>1 DEF RowAt
<1>2. ASSUME NEW i \in DOMAIN log, a \in DOMAIN log[i], row[a] = log[i][a],
             ReportRun(log[i]) < row.nss, \A k \in i + 1..at : a \notin DOMAIN log[k]
      PROVE  RowAt(log, row, at2, a)
  <2>1. i \in Nat
    BY AppendSequence
  <2>2. \A k \in i + 1..at2 : k \in i + 1..at
    BY <2>1
  <2> QED BY <1>2, <2>2 DEF RowAt
<1> QED BY <1>1, <1>2 DEF RowAt

\* The row after a transaction was read.
RowRead(log, row, at) == Merged(row, log[at + 1])

LEMMA RowReadIs ==
    ASSUME NEW log, LogInv(log), NEW row, NEW at \in Nat, NEW kept, at < Len(log),
           RowInv(log, row, at, kept)
    PROVE  /\ at + 1 \in DOMAIN log /\ LogEntry(log[at + 1], at + 1)
           /\ DOMAIN RowRead(log, row, at) = {"status", "nss", "life", "clock", "cpu"}
           /\ RowRead(log, row, at).nss \in Nat /\ row.nss <= RowRead(log, row, at).nss
           /\ "nss" \in DOMAIN log[at + 1] =>
                /\ RowRead(log, row, at).nss = log[at + 1].nss
                /\ RowRead(log, row, at).life = row.life
                /\ RowRead(log, row, at).clock = row.clock
                /\ RowRead(log, row, at).cpu = row.cpu
           /\ "nss" \notin DOMAIN log[at + 1] =>
                /\ RowRead(log, row, at).nss = row.nss
                /\ RowRead(log, row, at).life =
                     (IF "life" \in DOMAIN log[at + 1] THEN log[at + 1].life ELSE row.life)
                /\ RowRead(log, row, at).clock =
                     (IF "clock" \in DOMAIN log[at + 1] THEN log[at + 1].clock ELSE row.clock)
                /\ RowRead(log, row, at).cpu =
                     (IF "cpu" \in DOMAIN log[at + 1] THEN log[at + 1].cpu ELSE row.cpu)
PROOF
<1>a. PICK n : n = at + 1
  OBVIOUS
<1>b. PICK e : e = log[n]
  OBVIOUS
<1>c. PICK r : r = RowRead(log, row, at)
  OBVIOUS
<1>1. /\ Len(log) \in Nat /\ DOMAIN log = 1..Len(log)
      /\ StartsIn(log) \subseteq 1..Len(log)
      /\ \A i \in StartsIn(log) : log[i].nss \in Nat
  BY LogParts
<1>2. n \in DOMAIN log /\ LogEntry(e, n)
  <2>1. n \in DOMAIN log
    BY <1>a, <1>1
  <2> QED BY <1>b, <2>1 DEF LogInv
<1>3. /\ DOMAIN r = {"status", "nss", "life", "clock", "cpu"}
      /\ r.nss = IF "nss" \in DOMAIN e THEN e.nss ELSE row.nss
      /\ r.life = IF "life" \in DOMAIN e THEN e.life ELSE row.life
      /\ r.clock = IF "clock" \in DOMAIN e THEN e.clock ELSE row.clock
      /\ r.cpu = IF "cpu" \in DOMAIN e THEN e.cpu ELSE row.cpu
  BY <1>a, <1>b, <1>c, MergedIs DEF RowInv, RowRead
<1>4. row.nss \in Nat /\ RowRun(log, row, at, kept)
  BY DEF RowInv
<1>5. "nss" \in DOMAIN e => "cpu" \notin DOMAIN e /\ "life" \notin DOMAIN e /\ "clock" \notin DOMAIN e
  BY <1>2 DEF LogEntry
<1>6. ASSUME "nss" \in DOMAIN e PROVE e.nss \in Nat /\ row.nss <= e.nss
  <2>1. n \in StartsIn(log) /\ e.nss \in Nat
    BY <1>b, <1>1, <1>2, <1>6 DEF StartsIn
  <2>2. CASE row.nss = 0
    BY <2>1, <2>2
  <2>3. CASE row.nss # 0
    <3>1. PICK i \in StartsIn(log) : log[i].nss = row.nss /\ (i <= at \/ i = n)
      BY <1>a, <1>4, <2>3 DEF RowRun
    <3>2. i < n \/ i = n
      BY <1>a, <1>1, <3>1
    <3> QED BY <1>b, <1>4, <2>1, <3>1, <3>2 DEF LogInv, StartsInOrder
  <2> QED BY <2>2, <2>3
<1>7. r.nss \in Nat /\ row.nss <= r.nss
  BY <1>3, <1>4, <1>6
<1>8. /\ "nss" \in DOMAIN e => r.nss = e.nss /\ r.life = row.life /\ r.clock = row.clock /\ r.cpu = row.cpu
      /\ "nss" \notin DOMAIN e => r.nss = row.nss
  BY <1>3, <1>5
<1> QED BY <1>a, <1>b, <1>c, <1>2, <1>3, <1>7, <1>8

LEMMA UsageRead ==
    ASSUME NEW log, LogInv(log), NEW row, NEW at \in Nat, NEW kept, at < Len(log),
           RowInv(log, row, at, kept), NEW r, r = RowRead(log, row, at)
    PROVE  /\ r.life \in ReportValue /\ r.clock \in ReportValue /\ r.cpu \in ReportValue
           /\ UsageOf(r.nss - 1, r.life, r.clock, r.cpu)
PROOF
<1>a. PICK n : n = at + 1
  OBVIOUS
<1>b. PICK e : e = log[n]
  OBVIOUS
<1>1. /\ LogEntry(e, n) /\ r.nss \in Nat /\ row.nss <= r.nss
      /\ "nss" \in DOMAIN e =>
           r.nss = e.nss /\ r.life = row.life /\ r.clock = row.clock /\ r.cpu = row.cpu
      /\ "nss" \notin DOMAIN e =>
           /\ r.nss = row.nss
           /\ r.life = (IF "life" \in DOMAIN e THEN e.life ELSE row.life)
           /\ r.clock = (IF "clock" \in DOMAIN e THEN e.clock ELSE row.clock)
           /\ r.cpu = (IF "cpu" \in DOMAIN e THEN e.cpu ELSE row.cpu)
  BY <1>a, <1>b, RowReadIs
<1>2. /\ row.nss \in Nat
      /\ row.life \in ReportValue /\ row.clock \in ReportValue /\ row.cpu \in ReportValue
      /\ UsageOf(row.nss - 1, row.life, row.clock, row.cpu)
  BY DEF RowInv
<1>3. /\ row.life.by \in Int /\ row.clock.by \in Int /\ row.cpu.by \in Int
      /\ row.life.v \in Int /\ row.cpu.v \in Int
  BY <1>2, ValueIs
<1>4. CASE "cpu" \in DOMAIN e
  <2>1. PICK b \in Nat : b = row.nss - 1 /\ ReportRun(e) = b
    BY <1>a, <1>b, <1>2, <1>4, EntryOfRun
  <2>2. "nss" \notin DOMAIN e /\ r.nss - 1 = b
    BY <1>1, <1>4, <2>1 DEF LogEntry
  <2>3. r.cpu = e.cpu /\ e.cpu \in ReportValue /\ e.cpu.by = b /\ b >= 0
    BY <1>1, <1>4, <2>1, <2>2 DEF LogEntry, ReportRun
  <2>4. UsageOf(b, row.life, row.clock, row.cpu)
    BY <1>2, <2>1
  <2>5. CASE "life" \in DOMAIN e
    <3>1. r.life = e.life /\ e.life \in ReportValue /\ e.life.v > 0 /\ e.life.by = b
      BY <1>1, <2>1, <2>2, <2>5 DEF LogEntry
    <3>2. r.clock = row.clock \/ r.clock = Absent \/ r.clock = [v |-> n, by |-> b]
      BY <1>1, <2>1, <2>2 DEF LogEntry
    <3>3. r.clock \in ReportValue /\ r.clock.by <= b
      <4>1. CASE r.clock = row.clock
        BY <1>2, <2>4, <4>1 DEF UsageOf
      <4>2. CASE r.clock = Absent
        BY <4>2, ValueIs
      <4>3. CASE r.clock = [v |-> n, by |-> b]
        BY <1>a, <4>3 DEF ReportValue
      <4> QED BY <3>2, <4>1, <4>2, <4>3
    <3>4. e.life.v \in Int
      BY <3>1, ValueIs
    <3>5. UsageOf(b, r.life, r.clock, r.cpu)
      BY <2>3, <3>1, <3>3, <3>4 DEF UsageOf
    <3> QED BY <2>2, <2>3, <3>1, <3>3, <3>5
  <2>6. CASE "life" \notin DOMAIN e
    <3>1. r.life = row.life /\ r.clock = row.clock /\ (e.cpu.v = 0 \/ b = 0)
      BY <1>1, <1>4, <2>1, <2>2, <2>6 DEF LogEntry
    <3>2. UsageOf(b, r.life, r.clock, r.cpu)
      BY <2>3, <2>4, <3>1 DEF UsageOf
    <3> QED BY <1>2, <2>2, <2>3, <3>1, <3>2
  <2> QED BY <2>5, <2>6
<1>5. CASE "cpu" \notin DOMAIN e
  <2>1. r.life = row.life /\ r.clock = row.clock /\ r.cpu = row.cpu
    BY <1>1, <1>5 DEF LogEntry
  <2>2. CASE r.nss = row.nss
    BY <1>2, <2>1, <2>2
  <2>3. CASE r.nss > row.nss
    <3>1. UsageOf(r.nss - 1, row.life, row.clock, row.cpu)
      BY <1>1, <1>2, <1>3, <2>3 DEF UsageOf
    <3> QED BY <1>2, <2>1, <3>1
  <2> QED BY <1>1, <1>2, <2>2, <2>3
<1> QED BY <1>4, <1>5

LEMMA RowAtRead ==
    ASSUME NEW log, LogInv(log), NEW row, NEW at \in Nat, NEW kept, at < Len(log),
           RowInv(log, row, at, kept), NEW r, r = RowRead(log, row, at),
           NEW a \in {"life", "clock", "cpu"}
    PROVE  RowAt(log, r, at + 1, a)
PROOF
<1>a. PICK n : n = at + 1
  OBVIOUS
<1>b. PICK e : e = log[n]
  OBVIOUS
<1>1. /\ n \in DOMAIN log /\ LogEntry(e, n) /\ r.nss \in Nat /\ row.nss <= r.nss
      /\ "nss" \in DOMAIN e =>
           r.nss = e.nss /\ r.life = row.life /\ r.clock = row.clock /\ r.cpu = row.cpu
      /\ "nss" \notin DOMAIN e =>
           /\ r.nss = row.nss
           /\ r.life = (IF "life" \in DOMAIN e THEN e.life ELSE row.life)
           /\ r.clock = (IF "clock" \in DOMAIN e THEN e.clock ELSE row.clock)
           /\ r.cpu = (IF "cpu" \in DOMAIN e THEN e.cpu ELSE row.cpu)
  BY <1>a, <1>b, RowReadIs
<1>2. row.nss \in Nat /\ RowAt(log, row, at, a) /\ IsSequence(log) /\ n \in Nat
  BY <1>a DEF RowInv, LogInv
<1>3. CASE a \in DOMAIN e
  <2>1. "cpu" \in DOMAIN e /\ "nss" \notin DOMAIN e
    BY <1>1, <1>3 DEF LogEntry
  <2>2. ReportRun(e) = row.nss - 1
    BY <1>a, <1>b, <2>1, EntryOfRun
  <2>3. r[a] = e[a]
    BY <1>1, <1>3, <2>1
  <2>4. ReportRun(e) < r.nss
    BY <1>1, <1>2, <2>1, <2>2
  <2>5. \A k \in n + 1..n : FALSE
    BY <1>2
  <2>6. RowAt(log, r, n, a)
    BY <1>b, <1>1, <1>3, <2>3, <2>4, <2>5 DEF RowAt
  <2> QED BY <1>a, <2>6
<1>4. CASE a \notin DOMAIN e
  <2>1. r[a] = row[a]
    BY <1>1, <1>4
  <2>2. CASE row[a] = Absent /\ \A k \in 1..at : a \notin DOMAIN log[k]
    <3>1. \A k \in 1..n : k \in 1..at \/ k = n
      BY <1>a
    <3>2. \A k \in 1..n : a \notin DOMAIN log[k]
      BY <1>b, <1>4, <2>2, <3>1
    <3>3. RowAt(log, r, n, a)
      BY <2>1, <2>2, <3>2 DEF RowAt
    <3> QED BY <1>a, <3>3
  <2>3. ASSUME NEW i \in DOMAIN log, a \in DOMAIN log[i], row[a] = log[i][a],
               ReportRun(log[i]) < row.nss, \A k \in i + 1..at : a \notin DOMAIN log[k]
        PROVE  RowAt(log, r, at + 1, a)
    <3>1. i \in Nat /\ ReportRun(log[i]) \in Int
      <4>1. i \in UsageIn(log)
        BY <2>3 DEF LogInv, LogEntry, UsageIn
      <4> QED BY <4>1, LogParts
    <3>2. \A k \in i + 1..n : k \in i + 1..at \/ k = n
      BY <1>a, <3>1
    <3>3. \A k \in i + 1..n : a \notin DOMAIN log[k]
      BY <1>b, <1>4, <2>3, <3>2
    <3>4. ReportRun(log[i]) < r.nss
      BY <1>1, <1>2, <2>3, <3>1
    <3>5. RowAt(log, r, n, a)
      BY <2>1, <2>3, <3>3, <3>4 DEF RowAt
    <3> QED BY <1>a, <3>5
  <2> QED BY <1>2, <2>2, <2>3 DEF RowAt
<1> QED BY <1>3, <1>4

\* commitAll, and a conflict after which this table has committed or not.
NoStart(log, from, upto) == \A i \in from + 1..upto : "nss" \notin DOMAIN log[i]

LEMMA RowAdvances ==
    ASSUME NEW log, LogInv(log), NEW row, NEW at \in Nat, NEW kept, at < Len(log),
           RowInv(log, row, at, kept)
    PROVE  RowInv(log, RowRead(log, row, at), at + 1, kept)
PROOF
<1>a. PICK n : n = at + 1
  OBVIOUS
<1>b. PICK e : e = log[n]
  OBVIOUS
<1>c. PICK r : r = RowRead(log, row, at)
  OBVIOUS
<1>1. /\ n \in DOMAIN log /\ LogEntry(e, n) /\ r.nss \in Nat /\ row.nss <= r.nss
      /\ DOMAIN r = {"status", "nss", "life", "clock", "cpu"}
      /\ "nss" \in DOMAIN e => r.nss = e.nss
      /\ "nss" \notin DOMAIN e => r.nss = row.nss
  BY <1>a, <1>b, <1>c, RowReadIs
<1>2. RowAt(log, r, n, "life") /\ RowAt(log, r, n, "clock") /\ RowAt(log, r, n, "cpu")
  BY <1>a, <1>c, RowAtRead
<1>3. /\ r.life \in ReportValue /\ r.clock \in ReportValue /\ r.cpu \in ReportValue
      /\ UsageOf(r.nss - 1, r.life, r.clock, r.cpu)
  BY <1>c, UsageRead
<1>4. RowRun(log, r, n, kept)
  <2>1. RowRun(log, row, at, kept) /\ n \in Nat /\ StartsIn(log) \subseteq Nat
    BY <1>a, LogParts DEF RowInv
  <2>2. CASE "nss" \in DOMAIN e
    <3>1. n \in StartsIn(log) /\ log[n].nss = r.nss
      BY <1>b, <1>1, <2>2 DEF StartsIn
    <3>2. \A i \in StartsIn(log) : i <= n => i < n \/ i = n
      BY <2>1
    <3>3. \A i \in StartsIn(log) : log[i].nss \in Nat
      BY LogParts
    <3>4. \A i \in StartsIn(log) : i <= n => log[i].nss <= r.nss
      BY <3>1, <3>2, <3>3 DEF LogInv, StartsInOrder
    <3> QED BY <2>1, <3>1, <3>4 DEF RowRun
  <2>3. CASE "nss" \notin DOMAIN e
    <3>1. \A i \in StartsIn(log) : i <= n => i <= at
      BY <1>a, <1>b, <2>1, <2>3 DEF StartsIn
    <3>2. \A i : i <= at \/ i = n => (i \in Nat => i <= n)
      BY <1>a
    <3>3. \A i \in StartsIn(log) : i <= n => log[i].nss <= r.nss
      BY <1>1, <2>1, <2>3, <3>1 DEF RowRun
    <3>4. ASSUME r.nss # 0 PROVE \E i \in StartsIn(log) : log[i].nss = r.nss /\ i <= n
      <4>1. PICK i \in StartsIn(log) : log[i].nss = row.nss /\ (i <= at \/ i = n)
        BY <1>a, <1>1, <2>1, <2>3, <3>4 DEF RowRun
      <4> QED BY <1>1, <2>1, <2>3, <3>2, <4>1
    <3> QED BY <3>3, <3>4 DEF RowRun
  <2> QED BY <2>2, <2>3
<1> QED BY <1>a, <1>c, <1>1, <1>2, <1>3, <1>4 DEF RowInv

\* Reading again from the saved offset, where no run was counted since.
LEMMA RowRewinds ==
    ASSUME NEW log, LogInv(log), NEW row, NEW at \in Nat, NEW kept \in Nat, kept <= at,
           RowInv(log, row, at, kept), NoStart(log, kept, at)
    PROVE  RowInv(log, row, kept, kept)
PROOF
<1>1. RowAt(log, row, kept, "life") /\ RowAt(log, row, kept, "clock") /\ RowAt(log, row, kept, "cpu")
  BY RowAtLess DEF RowInv, LogInv
<1>2. RowRun(log, row, kept, kept)
  <2>1. RowRun(log, row, at, kept) /\ StartsIn(log) \subseteq Nat
    BY LogParts DEF RowInv
  <2>2. \A i \in StartsIn(log) : i <= at => i <= kept
    BY <2>1 DEF NoStart, StartsIn
  <2>3. \A i \in StartsIn(log) : i <= kept => i <= at
    BY <2>1
  <2>4. ASSUME row.nss # 0
        PROVE  \E i \in StartsIn(log) : log[i].nss = row.nss /\ (i <= kept \/ i = kept + 1)
    BY <2>1, <2>2, <2>4 DEF RowRun
  <2> QED BY <2>1, <2>3, <2>4 DEF RowRun
<1> QED BY <1>1, <1>2 DEF RowInv

LEMMA RowCommittedRewinds ==
    ASSUME NEW log, LogInv(log), NEW row, NEW at \in Nat, NEW kept \in Nat, kept <= at,
           at < Len(log), RowInv(log, row, at, kept), NoStart(log, kept, at),
           NoStart(log, kept, at + 1) \/ kept = at
    PROVE  RowInv(log, RowRead(log, row, at), kept, kept)
PROOF
<1>a. PICK n \in Nat : n = at + 1
  OBVIOUS
<1>c. PICK r : r = RowRead(log, row, at)
  OBVIOUS
<1>1. RowInv(log, r, n, kept) /\ kept <= n
  BY <1>a, <1>c, RowAdvances
<1>2. CASE NoStart(log, kept, at + 1)
  <2>1. RowInv(log, r, kept, kept)
    BY <1>a, <1>1, <1>2, RowRewinds
  <2> QED BY <1>c, <2>1
<1>3. CASE kept = at
  <2>1. RowAt(log, r, kept, "life") /\ RowAt(log, r, kept, "clock") /\ RowAt(log, r, kept, "cpu")
    BY <1>1, RowAtLess DEF RowInv, LogInv
  <2>2. RowRun(log, r, kept, kept)
    <3>1. RowRun(log, r, n, kept) /\ StartsIn(log) \subseteq Nat
      BY <1>1, LogParts DEF RowInv
    <3>2. \A i \in StartsIn(log) : i <= kept => i <= n
      BY <1>1, <3>1
    <3>3. ~(kept = n)
      BY <1>a, <1>3
    <3>4. \A i \in StartsIn(log) : i <= n => i <= kept \/ i = kept + 1
      BY <1>a, <1>3, <3>1
    <3>5. ASSUME r.nss # 0
          PROVE  \E i \in StartsIn(log) : log[i].nss = r.nss /\ (i <= kept \/ i = kept + 1)
      BY <3>1, <3>3, <3>4, <3>5 DEF RowRun
    <3> QED BY <3>1, <3>2, <3>5 DEF RowRun
  <2>3. RowInv(log, r, kept, kept)
    BY <1>1, <2>1, <2>2 DEF RowInv
  <2> QED BY <1>c, <2>3
<1> QED BY <1>2, <1>3

LEMMA PrevRead ==
    ASSUME NEW log, LogInv(log), NEW row, NEW at \in Nat, NEW kept, at < Len(log),
           RowInv(log, row, at, kept), NEW p, ObservedInv(log, p, row)
    PROVE  ObservedInv(log, p, RowRead(log, row, at))
PROOF
<1>a. PICK n : n = at + 1
  OBVIOUS
<1>b. PICK e : e = log[n]
  OBVIOUS
<1>c. PICK r : r = RowRead(log, row, at)
  OBVIOUS
<1>1. /\ LogEntry(e, n) /\ r.nss \in Nat /\ row.nss <= r.nss
      /\ "nss" \in DOMAIN e =>
           r.nss = e.nss /\ r.life = row.life /\ r.clock = row.clock /\ r.cpu = row.cpu
      /\ "nss" \notin DOMAIN e =>
           /\ r.nss = row.nss
           /\ r.life = (IF "life" \in DOMAIN e THEN e.life ELSE row.life)
           /\ r.clock = (IF "clock" \in DOMAIN e THEN e.clock ELSE row.clock)
           /\ r.cpu = (IF "cpu" \in DOMAIN e THEN e.cpu ELSE row.cpu)
  BY <1>a, <1>b, <1>c, RowReadIs
<1>2. row.nss \in Nat
  BY DEF RowInv
<1> SUFFICES ASSUME PrevInv(log, p), PrevOfRow(p, row)
             PROVE  PrevOfRow(p, r)
  BY <1>c DEF ObservedInv
<1>3. p.run \in Nat /\ p.run < row.nss
  BY DEF PrevInv, PrevOfRow
<1>4. p.run < r.nss
  BY <1>1, <1>2, <1>3
<1>5. ASSUME p.run = r.nss - 1, r.life.by # p.run
      PROVE  p.life = r.life /\ p.time = r.clock
  <2>1. r.nss = row.nss
    BY <1>1, <1>2, <1>3, <1>5
  <2>2. CASE "life" \in DOMAIN e
    <3>1. "nss" \notin DOMAIN e /\ "cpu" \in DOMAIN e /\ e.life.by = ReportRun(e)
      BY <1>1, <2>2 DEF LogEntry
    <3>2. ReportRun(e) = row.nss - 1
      BY <1>a, <1>b, <3>1, EntryOfRun
    <3>3. r.life = e.life
      BY <1>1, <2>2, <3>1
    <3> QED BY <1>5, <2>1, <3>1, <3>2, <3>3
  <2>3. CASE "life" \notin DOMAIN e
    <3>1. "clock" \notin DOMAIN e
      BY <1>1, <2>3 DEF LogEntry
    <3>2. r.life = row.life /\ r.clock = row.clock
      BY <1>1, <2>3, <3>1
    <3> QED BY <1>5, <2>1, <3>2 DEF PrevOfRow
  <2> QED BY <2>2, <2>3
<1>6. ASSUME p.run = r.nss - 1, r.cpu.by # p.run
      PROVE  p.cpu = r.cpu
  <2>1. r.nss = row.nss
    BY <1>1, <1>2, <1>3, <1>6
  <2>2. CASE "cpu" \in DOMAIN e
    <3>1. "nss" \notin DOMAIN e
      BY <1>1, <2>2 DEF LogEntry
    <3>2. ReportRun(e) = row.nss - 1
      BY <1>a, <1>b, <2>2, EntryOfRun
    <3>3. r.cpu = e.cpu
      BY <1>1, <2>2, <3>1
    <3> QED BY <1>6, <2>1, <3>2, <3>3 DEF ReportRun
  <2>3. CASE "cpu" \notin DOMAIN e
    <3>1. r.cpu = row.cpu
      BY <1>1, <2>3
    <3> QED BY <1>6, <2>1, <3>1 DEF PrevOfRow
  <2> QED BY <2>2, <2>3
<1> QED BY <1>4, <1>5, <1>6 DEF PrevOfRow

LEMMA RowClockSeen ==
    ASSUME NEW log, LogInv(log), NEW row, NEW at \in Nat, NEW kept, RowInv(log, row, at, kept),
           row.nss # 0
    PROVE  ClockSeen(log, row.nss - 1, row.clock)
PROOF
<1>1. PICK run \in Nat : run = row.nss - 1 /\ row.nss = run + 1
  BY DEF RowInv
<1> SUFFICES ASSUME row.clock.v > 0
             PROVE  /\ row.clock.v \in ClocksIn(log) /\ log[row.clock.v].clock = row.clock
                    /\ row.clock.by = run \/ LastClock(log, run, row.clock.v)
  BY <1>1 DEF ClockSeen
<1>2. row.clock # Absent
  BY DEF Absent
<1>3. PICK i \in DOMAIN log :
        /\ "clock" \in DOMAIN log[i] /\ row.clock = log[i].clock /\ ReportRun(log[i]) < row.nss
        /\ \A k \in i + 1..at : "clock" \notin DOMAIN log[k]
  BY <1>2 DEF RowInv, RowAt
<1>4. /\ Len(log) \in Nat /\ DOMAIN log = 1..Len(log) /\ i \in Nat
      /\ StartsIn(log) \subseteq 1..Len(log)
      /\ \A j \in StartsIn(log) : log[j].nss \in Nat
      /\ ClocksIn(log) \subseteq UsageIn(log) /\ UsageIn(log) \subseteq 1..Len(log)
      /\ \A j \in UsageIn(log) : ReportRun(log[j]) \in Nat
  BY LogParts
<1>5. /\ i \in ClocksIn(log) /\ row.clock = [v |-> i, by |-> ReportRun(log[i])]
  BY <1>2, <1>3 DEF LogInv, LogEntry, ClocksIn
<1>6. row.clock.v = i /\ row.clock.by = ReportRun(log[i])
  BY <1>5
<1>7. PICK b \in Nat : b = ReportRun(log[i])
  BY <1>4, <1>5
<1>8. b <= run
  BY <1>1, <1>3, <1>7
<1>9. PICK j \in StartsIn(log) : log[j].nss = row.nss /\ (j <= at \/ j = at + 1)
  BY DEF RowInv, RowRun
<1>10. ASSUME NEW k \in ClocksIn(log), k > i PROVE ReportRun(log[k]) >= run
  <2>1. k \in Nat /\ k > at /\ k \in UsageIn(log)
    <3>1. k \in Nat /\ k \in UsageIn(log) /\ "clock" \in DOMAIN log[k]
      BY <1>4 DEF ClocksIn
    <3>2. k \notin i + 1..at
      BY <1>3, <3>1
    <3> QED BY <1>4, <1>10, <3>1, <3>2
  <2>2. k # j
    BY <1>9, <2>1 DEF LogInv, LogEntry, UsageIn, StartsIn
  <2>3. j < k
    BY <1>4, <1>9, <2>1, <2>2
  <2>4. row.nss <= ReportRun(log[k]) + 1
    BY <1>9, <2>1, <2>3 DEF LogInv, ReportsInRun
  <2>5. ReportRun(log[k]) \in Nat
    BY <1>4, <2>1
  <2> QED BY <1>1, <2>4, <2>5
<1>11. b = run \/ LastClock(log, run, i)
  <2>1. CASE b < run
    <3>1. log[i].clock.v > 0
      BY <1>3
    <3> QED BY <1>5, <1>7, <1>10, <2>1, <3>1 DEF LastClock
  <2> QED BY <1>8, <2>1
<1> QED BY <1>3, <1>5, <1>6, <1>7, <1>11

\* Two clocks that observations of one run saw, the later one beyond the earlier,
\* are both of that run.
LEMMA ClocksOfRun ==
    ASSUME NEW log, LogInv(log), NEW run \in Nat, NEW s \in ReportValue, NEW t \in ReportValue,
           ClockSeen(log, run, s), ClockSeen(log, run, t), s.v > 0, t.v > s.v
    PROVE  s.by = run /\ t.by = run
PROOF
<1>1. s.v \in Int /\ t.v \in Int /\ s.by \in Int /\ t.by \in Int /\ t.v > 0
  BY ValueIs
<1>2. PICK i \in Int : i = s.v
  BY <1>1
<1>3. PICK k \in Int : k = t.v
  BY <1>1
<1>4. /\ i \in ClocksIn(log) /\ log[i].clock = s /\ (s.by = run \/ LastClock(log, run, i))
      /\ k \in ClocksIn(log) /\ log[k].clock = t /\ (t.by = run \/ LastClock(log, run, k))
  BY <1>1, <1>2, <1>3 DEF ClockSeen
<1>5. i < k
  BY <1>1, <1>2, <1>3
<1>6. /\ ClocksIn(log) \subseteq UsageIn(log) /\ ClocksIn(log) \subseteq DOMAIN log
      /\ \A j \in UsageIn(log) : ReportRun(log[j]) \in Nat
  BY LogParts DEF ClocksIn
<1>7. s # Absent /\ t # Absent
  BY <1>1 DEF Absent
<1>8. s.by = ReportRun(log[i]) /\ t.by = ReportRun(log[k])
  <2>1. LogEntry(log[i], i) /\ LogEntry(log[k], k)
    BY <1>4, <1>6 DEF LogInv
  <2>2. /\ s = [v |-> i, by |-> ReportRun(log[i])]
        /\ t = [v |-> k, by |-> ReportRun(log[k])]
    BY <1>4, <1>7, <2>1 DEF LogEntry, ClocksIn
  <2>3. /\ [v |-> i, by |-> ReportRun(log[i])].by = ReportRun(log[i])
        /\ [v |-> k, by |-> ReportRun(log[k])].by = ReportRun(log[k])
    OBVIOUS
  <2> QED BY <2>2, <2>3, Zenon
<1>9. ReportRun(log[i]) <= ReportRun(log[k])
  BY <1>4, <1>5, <1>6 DEF LogInv, RunsInOrder
<1>10. ~LastClock(log, run, i)
  <2> SUFFICES ASSUME LastClock(log, run, i) PROVE FALSE
    OBVIOUS
  <2>1. ReportRun(log[k]) >= run
    BY <1>4, <1>5 DEF LastClock
  <2>2. t.by = run
    <3>1. CASE LastClock(log, run, k)
      BY <1>4, <1>6, <2>1, <3>1 DEF LastClock
    <3> QED BY <1>4, <3>1
  <2>3. log[k].clock.v > 0 /\ ReportRun(log[k]) = run
    BY <1>1, <1>4, <1>8, <2>2
  <2> QED BY <1>4, <1>6, <2>3 DEF LogInv, ClockAlone
<1>11. s.by = run
  BY <1>4, <1>10
<1>12. ~LastClock(log, run, k)
  BY <1>4, <1>6, <1>8, <1>9, <1>11 DEF LastClock
<1> QED BY <1>4, <1>11, <1>12

\* An observation of the row, and the rate derived from the one before it.
LEMMA Observes ==
    ASSUME NEW log, LogInv(log), NEW row, NEW at \in Nat, NEW kept, RowInv(log, row, at, kept),
           row.nss # 0, ObservedInv(log, mprev, row)
    PROVE  /\ Observe(row).run = row.nss - 1
           /\ PrevInv(log, Observe(row)) /\ PrevOfRow(Observe(row), row)
PROOF
<1>a. PICK o : o = Observe(row)
  OBVIOUS
<1>1. PICK o1 : o1 = [run |-> RunInstanceOf(row), status |-> row.status, clock |-> IntervalClock(row),
              time |-> row.clock, life |-> row.life, cpu |-> row.cpu, stale |-> FALSE]
  OBVIOUS
<1>2. o = [o1 EXCEPT !.stale = Stale(o1)]
  BY <1>a, <1>1 DEF Observe
<1>3. /\ o1.run = row.nss - 1 /\ o1.clock = IntervalClock(row) /\ o1.life = row.life
      /\ DOMAIN o1 = {"run", "status", "clock", "time", "life", "cpu", "stale"}
      /\ o1.time = row.clock /\ o1.cpu = row.cpu
  BY <1>1 DEF RunInstanceOf
<1>4. /\ o.run = row.nss - 1 /\ o.clock = IntervalClock(row) /\ o.life = row.life
      /\ o.time = row.clock /\ o.cpu = row.cpu /\ o.stale = Stale(o1)
      /\ DOMAIN o = {"run", "status", "clock", "time", "life", "cpu", "stale"}
  BY <1>2, <1>3
<1>5. /\ row.nss \in Nat /\ row.nss - 1 \in Nat
      /\ row.life \in ReportValue /\ row.clock \in ReportValue /\ row.cpu \in ReportValue
      /\ UsageOf(row.nss - 1, row.life, row.clock, row.cpu)
  BY DEF RowInv
<1>6. o # NoObservation
  <2>1. "none" \notin DOMAIN o /\ "none" \in DOMAIN NoObservation
    BY <1>4 DEF NoObservation
  <2> QED BY <2>1
<1>7. ClockSeen(log, o.run, o.time)
  BY <1>4, RowClockSeen
<1>8. o.clock = IF o.time.v > 0 THEN "starter" ELSE IF o.life.v >= 0 THEN "lifetime" ELSE "ingest"
  BY <1>4 DEF IntervalClock
<1>9. ASSUME o.clock = "lifetime", o.life.by # o.run
      PROVE  Stale(o1)
  <2>1. o1.clock = "lifetime"
    BY <1>3, <1>4, <1>9
  <2>2. CASE mprev = NoObservation \/ mprev.run # o1.run
    BY <2>1, <2>2 DEF Stale
  <2>3. CASE mprev # NoObservation /\ mprev.run = o1.run
    <3>1. PrevInv(log, mprev) /\ PrevOfRow(mprev, row)
      BY <2>3 DEF ObservedInv
    <3>2. mprev.life = row.life /\ mprev.time = row.clock
      BY <1>3, <1>4, <1>9, <2>3, <3>1 DEF PrevOfRow
    <3>3. mprev.clock = o.clock
      BY <1>4, <1>8, <3>1, <3>2 DEF PrevInv
    <3>4. mprev.stale
      BY <1>3, <1>4, <1>9, <2>3, <3>1, <3>2, <3>3 DEF PrevInv
    <3>5. mprev.clock = "lifetime" /\ mprev.stale /\ mprev.life.v = o1.life.v
      BY <1>3, <1>9, <3>2, <3>3, <3>4
    <3> QED BY <2>1, <3>5, Zenon DEF Stale
  <2> QED BY <2>2, <2>3
<1>10. PrevInv(log, o)
  BY <1>4, <1>5, <1>6, <1>7, <1>8, <1>9 DEF PrevInv
<1>11. PrevOfRow(o, row)
  BY <1>4, <1>5 DEF PrevOfRow
<1> QED BY <1>a, <1>4, <1>10, <1>11

LEMMA RateOfRun ==
    ASSUME NEW log, LogInv(log), NEW row, NEW o, PrevInv(log, o), o.run = row.nss - 1,
           o.life = row.life, o.cpu = row.cpu, ObservedInv(log, mprev, row), DeriveRate(o)
    PROVE  Sources(o) = {o.run}
PROOF
<1>a. PICK run \in Nat : run = o.run
  BY DEF PrevInv
<1>1. mprev # NoObservation /\ mprev.run = run /\ mprev.clock = o.clock /\ Advanced(mprev, o)
      /\ mprev.cpu.v >= 0 /\ o.cpu.v >= mprev.cpu.v
  BY <1>a DEF DeriveRate
<1>2. PrevInv(log, mprev) /\ PrevOfRow(mprev, row)
  BY <1>1 DEF ObservedInv
<1>3. /\ UsageOf(run, o.life, o.time, o.cpu) /\ UsageOf(run, mprev.life, mprev.time, mprev.cpu)
      /\ ClockSeen(log, run, o.time) /\ ClockSeen(log, run, mprev.time)
      /\ o.time \in ReportValue /\ mprev.time \in ReportValue
  BY <1>a, <1>1, <1>2 DEF PrevInv
<1>4. /\ o.cpu.v \in Int /\ mprev.cpu.v \in Int /\ o.time.v \in Int /\ mprev.time.v \in Int
      /\ o.life.v \in Int /\ mprev.life.v \in Int /\ o.cpu.by \in Int /\ mprev.cpu.by \in Int
  BY <1>2, ValueIs DEF PrevInv
<1>5. CASE o.cpu.v = mprev.cpu.v
  BY <1>5 DEF Sources
<1>6. CASE o.cpu.v # mprev.cpu.v
  <2>1. CASE o.clock = "starter"
    <3>1. o.time.v > mprev.time.v
      BY <1>1, <2>1 DEF Advanced
    <3>2. mprev.time.v > 0
      BY <1>1, <1>2, <2>1 DEF PrevInv
    <3>3. mprev.time.by = run /\ o.time.by = run
      BY <1>3, <3>1, <3>2, ClocksOfRun
    <3>4. mprev.cpu.by = run /\ o.cpu.by = run
      BY <1>3, <3>3 DEF UsageOf
    <3> QED BY <1>a, <1>6, <2>1, <3>3, <3>4 DEF Sources
  <2>2. CASE o.clock = "lifetime"
    <3>1. ~mprev.stale
      BY <1>1, <2>2 DEF Advanced
    <3>2. mprev.life.by = run
      BY <1>1, <1>2, <2>2, <3>1 DEF PrevInv
    <3>3. o.life.by = run
      BY <1>a, <1>1, <1>2, <3>2 DEF PrevOfRow
    <3>4. mprev.cpu.by = run /\ o.cpu.by = run
      BY <1>3, <3>2, <3>3 DEF UsageOf
    <3> QED BY <1>a, <1>6, <2>2, <3>2, <3>3, <3>4 DEF Sources
  <2>3. CASE o.clock = "ingest"
    <3>1. o.life.v < 0
      BY <1>4, <2>3 DEF PrevInv
    <3>2. o.cpu.v > 0 /\ o.cpu.v >= 0
      BY <1>1, <1>4, <1>6
    <3>3. o.cpu.by = run
      BY <1>a, <1>1, <1>2, <1>6 DEF PrevOfRow
    <3>4. run = 0
      BY <1>3, <1>4, <3>1, <3>2, <3>3 DEF UsageOf
    <3>5. mprev.cpu.by = run
      BY <1>1, <1>3, <1>4, <3>4 DEF UsageOf
    <3> QED BY <1>a, <1>6, <2>3, <3>3, <3>5 DEF Sources
  <2> QED BY <2>1, <2>2, <2>3 DEF PrevInv
<1> QED BY <1>5, <1>6

\* The row that a reload reconciles: of each attribute, what was set last.
Reconcile(log) ==
    [a \in DOMAIN NoJobRow |->
       LET set == {i \in 1..Len(log) : a \in DOMAIN log[i]}
       IN  IF set = {} THEN NoJobRow[a]
           ELSE log[CHOOSE i \in set : \A j \in set : j <= i][a]]

LastSet(log, a, x) ==
    \/ x = NoJobRow[a] /\ \A k \in DOMAIN log : a \notin DOMAIN log[k]
    \/ \E i \in DOMAIN log : /\ a \in DOMAIN log[i] /\ x = log[i][a]
                             /\ \A k \in DOMAIN log : a \in DOMAIN log[k] => k <= i

LEMMA ReconcileIs ==
    ASSUME NEW log, LogInv(log)
    PROVE  /\ DOMAIN Reconcile(log) = {"status", "nss", "life", "clock", "cpu"}
           /\ LastSet(log, "nss", Reconcile(log).nss) /\ LastSet(log, "life", Reconcile(log).life)
           /\ LastSet(log, "clock", Reconcile(log).clock) /\ LastSet(log, "cpu", Reconcile(log).cpu)
           /\ LastSet(log, "status", Reconcile(log).status)
PROOF
<1>1. DOMAIN NoJobRow = {"status", "nss", "life", "clock", "cpu"}
  BY DEF NoJobRow
<1>2. Len(log) \in Nat /\ DOMAIN log = 1..Len(log)
  BY LogParts
<1>3. ASSUME NEW a \in DOMAIN NoJobRow
      PROVE  LastSet(log, a, Reconcile(log)[a])
  <2> DEFINE set == {i \in 1..Len(log) : a \in DOMAIN log[i]}
             m == CHOOSE i \in set : \A j \in set : j <= i
  <2>1. Reconcile(log)[a] = IF set = {} THEN NoJobRow[a] ELSE log[m][a]
    BY DEF Reconcile
  <2>2. CASE set = {}
    <3>1. \A k \in DOMAIN log : a \notin DOMAIN log[k]
      BY <1>2, <2>2
    <3> QED BY <2>1, <2>2, <3>1 DEF LastSet
  <2>3. CASE set # {}
    <3>1. m \in set /\ \A j \in set : j <= m
      BY <1>2, <2>3, LatestIs
    <3>2. m \in DOMAIN log /\ a \in DOMAIN log[m] /\ \A k \in DOMAIN log : a \in DOMAIN log[k] => k <= m
      BY <1>2, <3>1
    <3>3. Reconcile(log)[a] = log[m][a]
      BY <2>1, <2>3
    <3> HIDE DEF m
    <3> QED BY <3>2, <3>3 DEF LastSet
  <2> QED BY <2>2, <2>3
<1>4. DOMAIN Reconcile(log) = DOMAIN NoJobRow
  BY DEF Reconcile
<1>5. /\ Reconcile(log)["nss"] = Reconcile(log).nss /\ Reconcile(log)["life"] = Reconcile(log).life
      /\ Reconcile(log)["clock"] = Reconcile(log).clock /\ Reconcile(log)["cpu"] = Reconcile(log).cpu
      /\ Reconcile(log)["status"] = Reconcile(log).status
  OBVIOUS
<1> QED BY <1>1, <1>3, <1>4, <1>5

\* What a run reported last, of an attribute of its reports.
LEMMA LastUsage ==
    ASSUME NEW log, LogInv(log), NEW a \in {"life", "clock", "cpu"}, NEW x, LastSet(log, a, x)
    PROVE  \/ x = Absent /\ \A k \in UsageIn(log) : a \notin DOMAIN log[k]
           \/ \E i \in UsageIn(log) :
                /\ a \in DOMAIN log[i] /\ x = log[i][a]
                /\ \A k \in UsageIn(log) : a \in DOMAIN log[k] => k <= i
                /\ x = Absent \/ x.by = ReportRun(log[i])
PROOF
<1>1. NoJobRow[a] = Absent
  BY DEF NoJobRow
<1>2. UsageIn(log) \subseteq DOMAIN log
  BY DEF UsageIn
<1>3. \A i \in DOMAIN log : a \in DOMAIN log[i] =>
        i \in UsageIn(log) /\ (log[i][a] = Absent \/ log[i][a].by = ReportRun(log[i]))
  <2> SUFFICES ASSUME NEW i \in DOMAIN log, a \in DOMAIN log[i]
               PROVE  i \in UsageIn(log) /\ (log[i][a] = Absent \/ log[i][a].by = ReportRun(log[i]))
    OBVIOUS
  <2>a. PICK e : e = log[i]
    OBVIOUS
  <2>1. LogEntry(e, i)
    BY <2>a DEF LogInv
  <2>2. CASE a = "cpu"
    BY <2>a, <2>2 DEF UsageIn, ReportRun
  <2>3. CASE a = "life"
    BY <2>a, <2>1, <2>3 DEF UsageIn, LogEntry
  <2>4. CASE a = "clock"
    <3>1. "cpu" \in DOMAIN e /\ (e.clock = Absent \/ e.clock = [v |-> i, by |-> ReportRun(e)])
      BY <2>a, <2>1, <2>4 DEF LogEntry
    <3>2. e.clock = Absent \/ e.clock.by = ReportRun(e)
      BY <3>1
    <3> QED BY <2>a, <2>4, <3>1, <3>2 DEF UsageIn
  <2> QED BY <2>2, <2>3, <2>4
<1>4. CASE x = NoJobRow[a] /\ \A k \in DOMAIN log : a \notin DOMAIN log[k]
  BY <1>1, <1>2, <1>4
<1>5. ASSUME NEW i \in DOMAIN log, a \in DOMAIN log[i], x = log[i][a],
             \A k \in DOMAIN log : a \in DOMAIN log[k] => k <= i
      PROVE  \E j \in UsageIn(log) :
                /\ a \in DOMAIN log[j] /\ x = log[j][a]
                /\ \A k \in UsageIn(log) : a \in DOMAIN log[k] => k <= j
                /\ x = Absent \/ x.by = ReportRun(log[j])
  BY <1>2, <1>3, <1>5
<1> QED BY <1>4, <1>5 DEF LastSet

LEMMA LastRun ==
    ASSUME NEW log, LogInv(log), NEW x, LastSet(log, "nss", x)
    PROVE  /\ x \in Nat /\ \A i \in StartsIn(log) : log[i].nss <= x
           /\ x # 0 => \E i \in StartsIn(log) : log[i].nss = x
           /\ \A k \in UsageIn(log) : ReportRun(log[k]) <= x - 1
PROOF
<1>1. /\ StartsIn(log) \subseteq 1..Len(log) /\ Len(log) \in Nat
      /\ \A i \in StartsIn(log) : log[i].nss \in Nat
      /\ \A k \in UsageIn(log) : ReportRun(log[k]) \in Nat
  BY LogParts
<1>2. CASE x = NoJobRow.nss /\ \A k \in DOMAIN log : "nss" \notin DOMAIN log[k]
  <2>1. StartsIn(log) = {} /\ x = 0
    BY <1>2 DEF StartsIn, NoJobRow
  <2> QED BY <2>1 DEF LogInv, ReportsStarted
<1>3. ASSUME NEW i \in DOMAIN log, "nss" \in DOMAIN log[i], x = log[i].nss,
             \A k \in DOMAIN log : "nss" \in DOMAIN log[k] => k <= i
      PROVE  /\ x \in Nat /\ \A j \in StartsIn(log) : log[j].nss <= x
             /\ \E j \in StartsIn(log) : log[j].nss = x
  <2>1. i \in StartsIn(log) /\ \A k \in StartsIn(log) : k <= i
    BY <1>3 DEF StartsIn
  <2>2. \A k \in StartsIn(log) : k < i \/ k = i
    BY <1>1, <2>1
  <2> QED BY <1>1, <1>3, <2>1, <2>2 DEF LogInv, StartsInOrder
<1>4. /\ x \in Nat /\ \A i \in StartsIn(log) : log[i].nss <= x
      /\ x # 0 => \E i \in StartsIn(log) : log[i].nss = x
  BY <1>2, <1>3, <1>1 DEF LastSet, StartsIn, NoJobRow
<1>5. ASSUME NEW k \in UsageIn(log) PROVE ReportRun(log[k]) <= x - 1
  <2>1. PICK i \in StartsIn(log) : log[i].nss = ReportRun(log[k]) + 1
    BY DEF LogInv, ReportsStarted
  <2> QED BY <1>1, <1>4, <2>1
<1> QED BY <1>4, <1>5

LEMMA RowReconciled ==
    ASSUME NEW log, LogInv(log), NEW n, n = Len(log)
    PROVE  RowInv(log, Reconcile(log), n, n)
PROOF
<1>a. PICK r : r = Reconcile(log)
  OBVIOUS
<1>1. /\ DOMAIN r = {"status", "nss", "life", "clock", "cpu"}
      /\ LastSet(log, "nss", r.nss) /\ LastSet(log, "life", r.life)
      /\ LastSet(log, "clock", r.clock) /\ LastSet(log, "cpu", r.cpu)
  BY <1>a, ReconcileIs
<1>2. /\ r.nss \in Nat /\ \A i \in StartsIn(log) : log[i].nss <= r.nss
      /\ r.nss # 0 => \E i \in StartsIn(log) : log[i].nss = r.nss
      /\ \A k \in UsageIn(log) : ReportRun(log[k]) <= r.nss - 1
  BY <1>1, LastRun
<1>3. /\ Len(log) \in Nat /\ DOMAIN log = 1..n /\ n \in Nat
      /\ StartsIn(log) \subseteq 1..n /\ UsageIn(log) \subseteq 1..n
      /\ \A k \in UsageIn(log) : ReportRun(log[k]) \in Nat
  BY LogParts
<1>4. ASSUME NEW a \in {"life", "clock", "cpu"}, NEW x, LastSet(log, a, x)
      PROVE  x \in ReportValue /\ x.by <= r.nss - 1
  <2>1. CASE x = Absent
    BY <1>2, <2>1, ValueIs
  <2>2. ASSUME NEW i \in UsageIn(log), a \in DOMAIN log[i], x = log[i][a], x.by = ReportRun(log[i])
        PROVE  x \in ReportValue /\ x.by <= r.nss - 1
    <3>1. i \in DOMAIN log /\ LogEntry(log[i], i) /\ i \in Int
      BY <1>3 DEF LogInv
    <3>2. a = "cpu" => x \in ReportValue
      BY <2>2, <3>1 DEF LogEntry
    <3>3. a = "life" => x \in ReportValue
      BY <2>2, <3>1 DEF LogEntry
    <3>4. a = "clock" => x \in ReportValue
      <4>1. a = "clock" => x = Absent \/ x = [v |-> i, by |-> ReportRun(log[i])]
        BY <2>2, <3>1 DEF LogEntry
      <4>2. ReportRun(log[i]) \in Int
        BY <1>3
      <4> QED BY <3>1, <4>1, <4>2, ValueIs
    <3> QED BY <1>2, <2>2, <3>2, <3>3, <3>4
  <2> QED BY <1>4, <2>1, <2>2, LastUsage
<1>5. /\ r.life \in ReportValue /\ r.clock \in ReportValue /\ r.cpu \in ReportValue
      /\ r.life.by <= r.nss - 1 /\ r.clock.by <= r.nss - 1 /\ r.cpu.by <= r.nss - 1
  BY <1>1, <1>4
<1>6. RowRun(log, r, n, n)
  <2>1. \A i \in StartsIn(log) : i <= n
    BY <1>3
  <2> QED BY <1>2, <2>1 DEF RowRun
<1>7. ASSUME NEW a \in {"life", "clock", "cpu"}, LastSet(log, a, r[a])
      PROVE  RowAt(log, r, n, a)
  <2>1. CASE r[a] = Absent /\ \A k \in UsageIn(log) : a \notin DOMAIN log[k]
    <3>1. \A k \in DOMAIN log : a \in DOMAIN log[k] => k \in UsageIn(log)
      BY DEF LogInv, LogEntry, UsageIn
    <3> QED BY <1>3, <2>1, <3>1 DEF RowAt
  <2>2. ASSUME NEW i \in UsageIn(log), a \in DOMAIN log[i], r[a] = log[i][a],
               \A k \in UsageIn(log) : a \in DOMAIN log[k] => k <= i
        PROVE  RowAt(log, r, n, a)
    <3>1. \A k \in DOMAIN log : a \in DOMAIN log[k] => k \in UsageIn(log)
      BY DEF LogInv, LogEntry, UsageIn
    <3>2. i \in DOMAIN log /\ i \in Nat
      BY <1>3
    <3>3. \A k \in i + 1..n : k \in DOMAIN log /\ ~(k <= i)
      BY <1>3, <3>2
    <3>4. ReportRun(log[i]) < r.nss
      BY <1>2, <1>3
    <3>5. \A k \in i + 1..n : a \notin DOMAIN log[k]
      BY <2>2, <3>1, <3>3
    <3> QED BY <2>2, <3>2, <3>4, <3>5 DEF RowAt
  <2> QED BY <1>7, <2>1, <2>2, LastUsage
<1>8. RowAt(log, r, n, "life") /\ RowAt(log, r, n, "clock") /\ RowAt(log, r, n, "cpu")
  BY <1>1, <1>7
<1>9. PICK run \in Int : run = r.nss - 1 /\ run >= -1
  BY <1>2
<1>10. r.life.by = run => r.cpu.by = run
  <2> SUFFICES ASSUME r.life.by = run PROVE r.cpu.by = run
    OBVIOUS
  <2>1. CASE run = -1
    <3>1. UsageIn(log) = {}
      BY <1>2, <1>3, <1>9, <2>1
    <3>2. r.cpu = Absent
      BY <1>1, <3>1, LastUsage
    <3> QED BY <2>1, <3>2, ValueIs
  <2>2. CASE run # -1
    <3>1. r.life # Absent
      BY <2>2, ValueIs
    <3>2. PICK i \in UsageIn(log) : r.life.by = ReportRun(log[i])
      BY <1>1, <3>1, LastUsage
    <3>3. "cpu" \in DOMAIN log[i]
      BY DEF UsageIn
    <3>4. PICK k \in UsageIn(log) : i <= k /\ r.cpu = log[k].cpu
      BY <1>1, <3>3, LastUsage
    <3>5. r.cpu.by = ReportRun(log[k])
      BY <3>4 DEF ReportRun
    <3>6. i < k \/ i = k
      BY <1>3, <3>4
    <3>7. ReportRun(log[i]) <= ReportRun(log[k])
      BY <1>3, <3>6 DEF LogInv, RunsInOrder
    <3> QED BY <1>2, <1>3, <1>9, <3>2, <3>5, <3>7
  <2> QED BY <2>1, <2>2
<1>11. r.clock.by = run => r.life.by = run
  <2> SUFFICES ASSUME r.clock.by = run PROVE r.life.by = run
    OBVIOUS
  <2>1. CASE run = -1
    <3>1. UsageIn(log) = {}
      BY <1>2, <1>3, <1>9, <2>1
    <3>2. r.life = Absent
      BY <1>1, <3>1, LastUsage
    <3> QED BY <2>1, <3>2, ValueIs
  <2>2. CASE run # -1
    <3>1. r.clock # Absent
      BY <2>2, ValueIs
    <3>2. PICK i \in UsageIn(log) : "clock" \in DOMAIN log[i] /\ r.clock.by = ReportRun(log[i])
      BY <1>1, <3>1, LastUsage
    <3>3. "life" \in DOMAIN log[i]
      BY <3>2 DEF LogInv, LogEntry, UsageIn
    <3>4. PICK k \in UsageIn(log) : /\ i <= k /\ "life" \in DOMAIN log[k] /\ r.life = log[k].life
      BY <1>1, <3>3, LastUsage
    <3>5. r.life.by = ReportRun(log[k])
      BY <3>4 DEF LogInv, LogEntry, UsageIn
    <3>6. i < k \/ i = k
      BY <1>3, <3>4
    <3>7. ReportRun(log[i]) <= ReportRun(log[k])
      BY <1>3, <3>6 DEF LogInv, RunsInOrder
    <3> QED BY <1>2, <1>3, <1>9, <3>2, <3>5, <3>7
  <2> QED BY <2>1, <2>2
<1>12. r.life.v < 0 /\ r.cpu.by = run => r.cpu.v <= 0 \/ run = 0
  <2> SUFFICES ASSUME r.life.v < 0, r.cpu.by = run PROVE r.cpu.v <= 0 \/ run = 0
    OBVIOUS
  <2>1. \A k \in UsageIn(log) : "life" \notin DOMAIN log[k]
    <3>1. ASSUME NEW i \in UsageIn(log), "life" \in DOMAIN log[i], r.life = log[i].life
          PROVE  FALSE
      <4>1. log[i].life \in ReportValue /\ log[i].life.v > 0
        BY <3>1 DEF LogInv, LogEntry, UsageIn
      <4>2. log[i].life.v \in Int
        BY <4>1, ValueIs
      <4> QED BY <3>1, <4>1, <4>2
    <3> QED BY <1>1, <3>1, LastUsage
  <2>2. CASE r.cpu = Absent
    BY <2>2, ValueIs
  <2>3. ASSUME NEW i \in UsageIn(log), r.cpu = log[i].cpu PROVE r.cpu.v <= 0 \/ run = 0
    <3>1. log[i].cpu.v = 0 \/ ReportRun(log[i]) = 0
      BY <2>1, <2>3 DEF LogInv, LogEntry, UsageIn
    <3> QED BY <2>3, <3>1 DEF ReportRun
  <2> QED BY <1>1, <2>2, <2>3, LastUsage
<1>14. r.cpu.v >= 0 => r.cpu.by >= 0
  <2>1. CASE r.cpu = Absent
    BY <2>1, ValueIs
  <2>2. ASSUME NEW i \in UsageIn(log), r.cpu = log[i].cpu PROVE r.cpu.by >= 0
    <3>1. ReportRun(log[i]) >= 0
      BY <1>3
    <3> QED BY <2>2, <3>1 DEF ReportRun
  <2> QED BY <1>1, <2>1, <2>2, LastUsage
<1>13. UsageOf(run, r.life, r.clock, r.cpu)
  BY <1>5, <1>9, <1>10, <1>11, <1>12, <1>14 DEF UsageOf
<1> QED BY <1>a, <1>1, <1>2, <1>5, <1>6, <1>8, <1>9, <1>13 DEF RowInv

LEMMA PrevReconciled ==
    ASSUME NEW log, LogInv(log), NEW row, NEW at \in Nat, NEW kept, at <= Len(log),
           RowInv(log, row, at, kept), NEW p, ObservedInv(log, p, row)
    PROVE  ObservedInv(log, p, Reconcile(log))
PROOF
<1>a. PICK r : r = Reconcile(log)
  OBVIOUS
<1>1. /\ LastSet(log, "nss", r.nss) /\ LastSet(log, "life", r.life) /\ LastSet(log, "clock", r.clock)
      /\ LastSet(log, "cpu", r.cpu)
  BY <1>a, ReconcileIs
<1>2. /\ r.nss \in Nat /\ \A i \in StartsIn(log) : log[i].nss <= r.nss
      /\ \A k \in UsageIn(log) : ReportRun(log[k]) <= r.nss - 1
  BY <1>1, LastRun
<1>3. /\ Len(log) \in Nat /\ DOMAIN log = 1..Len(log)
      /\ StartsIn(log) \subseteq 1..Len(log) /\ UsageIn(log) \subseteq 1..Len(log)
      /\ \A k \in UsageIn(log) : ReportRun(log[k]) \in Nat
  BY LogParts
<1> SUFFICES ASSUME PrevInv(log, p), PrevOfRow(p, row)
             PROVE  PrevOfRow(p, r)
  BY <1>a DEF ObservedInv
<1>4. p.run \in Nat /\ p.run < row.nss /\ row.nss \in Nat
  BY DEF PrevInv, PrevOfRow, RowInv
<1>5. PICK j \in StartsIn(log) : log[j].nss = row.nss /\ (j <= at \/ j = at + 1)
  BY <1>4 DEF RowInv, RowRun
<1>6. row.nss <= r.nss
  BY <1>2, <1>5
<1>7. p.run < r.nss
  BY <1>2, <1>4, <1>6
<1>8. ASSUME p.run = r.nss - 1, r.life.by # p.run
      PROVE  p.life = r.life /\ p.time = r.clock
  <2>1. r.nss = row.nss
    BY <1>2, <1>4, <1>6, <1>8
  <2>2. PICK run \in Nat : run = p.run
    BY <1>4
  <2>3. ASSUME NEW k \in UsageIn(log), "life" \in DOMAIN log[k], ReportRun(log[k]) >= run
        PROVE  FALSE
    <3>1. PICK i \in UsageIn(log) : k <= i /\ "life" \in DOMAIN log[i] /\ r.life = log[i].life
      BY <1>1, <2>3, LastUsage
    <3>2. r.life.by = ReportRun(log[i])
      BY <3>1 DEF LogInv, LogEntry, UsageIn
    <3>3. k < i \/ k = i
      BY <1>3, <3>1
    <3>4. ReportRun(log[k]) <= ReportRun(log[i])
      BY <1>3, <3>3 DEF LogInv, RunsInOrder
    <3>5. ReportRun(log[i]) <= run
      BY <1>2, <1>8, <2>2
    <3>6. ReportRun(log[i]) = run
      BY <1>3, <2>3, <3>4, <3>5
    <3> QED BY <1>8, <2>2, <3>2, <3>6
  <2>4. ASSUME NEW k \in UsageIn(log), "life" \in DOMAIN log[k]
        PROVE  k <= at
    <3> SUFFICES ASSUME ~(k <= at) PROVE FALSE
      OBVIOUS
    <3>1. k # j
      BY <1>5, <2>4 DEF LogInv, LogEntry, UsageIn, StartsIn
    <3>2. j < k
      BY <1>3, <1>5, <3>1
    <3>3. row.nss <= ReportRun(log[k]) + 1
      BY <1>5, <3>2 DEF LogInv, ReportsInRun
    <3>4. ReportRun(log[k]) \in Nat
      BY <1>3
    <3>5. ReportRun(log[k]) >= run
      BY <1>4, <1>8, <2>1, <2>2, <3>3, <3>4
    <3> QED BY <2>3, <2>4, <3>5
  <2>5. row.life.by # p.run
    <3> SUFFICES ASSUME row.life.by = run PROVE FALSE
      BY <2>2
    <3>1. row.life # Absent
      BY ValueIs
    <3>2. PICK i \in DOMAIN log : "life" \in DOMAIN log[i] /\ row.life = log[i].life
      BY <3>1 DEF RowInv, RowAt
    <3>3. i \in UsageIn(log) /\ row.life.by = ReportRun(log[i])
      BY <3>2 DEF LogInv, LogEntry, UsageIn
    <3>4. ReportRun(log[i]) >= run
      BY <3>3
    <3> QED BY <2>3, <3>2, <3>3, <3>4
  <2>6. p.life = row.life /\ p.time = row.clock
    BY <1>8, <2>1, <2>5 DEF PrevOfRow
  <2>7. ASSUME NEW a \in {"life", "clock"}, LastSet(log, a, r[a]), RowAt(log, row, at, a)
        PROVE  r[a] = row[a]
    <3>1. \A k \in DOMAIN log : a \in DOMAIN log[k] => k \in UsageIn(log) /\ "life" \in DOMAIN log[k]
      BY DEF LogInv, LogEntry, UsageIn
    <3>2. \A k \in DOMAIN log : a \in DOMAIN log[k] => k \in 1..at
      BY <1>3, <2>4, <3>1
    <3>3. NoJobRow[a] = Absent
      BY DEF NoJobRow
    <3>4. CASE row[a] = Absent /\ \A k \in 1..at : a \notin DOMAIN log[k]
      <4>1. \A k \in DOMAIN log : a \notin DOMAIN log[k]
        BY <3>2, <3>4
      <4> QED BY <2>7, <3>3, <3>4, <4>1 DEF LastSet
    <3>5. ASSUME NEW i \in DOMAIN log, a \in DOMAIN log[i], row[a] = log[i][a],
                 \A k \in i + 1..at : a \notin DOMAIN log[k]
          PROVE  r[a] = row[a]
      <4>1. PICK k \in DOMAIN log : /\ a \in DOMAIN log[k] /\ r[a] = log[k][a] /\ i <= k
        BY <2>7, <3>5 DEF LastSet
      <4>2. k \in 1..at /\ k \notin i + 1..at /\ i \in 1..at
        BY <3>2, <3>5, <4>1
      <4>3. k = i
        BY <4>1, <4>2
      <4> QED BY <3>5, <4>1, <4>3
    <3> QED BY <2>7, <3>4, <3>5 DEF RowAt
  <2>8. r["life"] = row["life"] /\ r["clock"] = row["clock"]
    BY <1>1, <2>7 DEF RowInv
  <2> QED BY <2>6, <2>8
<1>9. ASSUME p.run = r.nss - 1, r.cpu.by # p.run
      PROVE  p.cpu = r.cpu
  <2>1. r.nss = row.nss
    BY <1>2, <1>4, <1>6, <1>9
  <2>2. PICK run \in Nat : run = p.run
    BY <1>4
  <2>3. ASSUME NEW k \in UsageIn(log), ReportRun(log[k]) >= run
        PROVE  FALSE
    <3>0. "cpu" \in DOMAIN log[k]
      BY DEF UsageIn
    <3>1. PICK i \in UsageIn(log) : k <= i /\ r.cpu = log[i].cpu
      BY <1>1, <3>0, LastUsage
    <3>2. r.cpu.by = ReportRun(log[i])
      BY <3>1 DEF ReportRun
    <3>3. k < i \/ k = i
      BY <1>3, <3>1
    <3>4. ReportRun(log[k]) <= ReportRun(log[i])
      BY <1>3, <3>3 DEF LogInv, RunsInOrder
    <3>5. ReportRun(log[i]) <= run
      BY <1>2, <1>9, <2>2
    <3>6. ReportRun(log[i]) = run
      BY <1>3, <2>3, <3>4, <3>5
    <3> QED BY <1>9, <2>2, <3>2, <3>6
  <2>4. ASSUME NEW k \in UsageIn(log)
        PROVE  k <= at
    <3> SUFFICES ASSUME ~(k <= at) PROVE FALSE
      OBVIOUS
    <3>1. k # j
      BY <1>5, <2>4 DEF LogInv, LogEntry, UsageIn, StartsIn
    <3>2. j < k
      BY <1>3, <1>5, <3>1
    <3>3. row.nss <= ReportRun(log[k]) + 1
      BY <1>5, <3>2 DEF LogInv, ReportsInRun
    <3>4. ReportRun(log[k]) \in Nat
      BY <1>3
    <3>5. ReportRun(log[k]) >= run
      BY <1>4, <1>9, <2>1, <2>2, <3>3, <3>4
    <3> QED BY <2>3, <2>4, <3>5
  <2>5. row.cpu.by # p.run
    <3> SUFFICES ASSUME row.cpu.by = run PROVE FALSE
      BY <2>2
    <3>1. row.cpu # Absent
      BY ValueIs
    <3>2. PICK i \in DOMAIN log : "cpu" \in DOMAIN log[i] /\ row.cpu = log[i].cpu
      BY <3>1 DEF RowInv, RowAt
    <3>3. i \in UsageIn(log) /\ ReportRun(log[i]) >= run
      BY <3>2 DEF UsageIn, ReportRun
    <3> QED BY <2>3, <3>3
  <2>6. p.cpu = row.cpu
    BY <1>9, <2>1, <2>5 DEF PrevOfRow
  <2>7. \A k \in DOMAIN log : "cpu" \in DOMAIN log[k] => k \in 1..at
    <3>1. \A k \in DOMAIN log : "cpu" \in DOMAIN log[k] => k \in UsageIn(log)
      BY DEF UsageIn
    <3> QED BY <1>3, <2>4, <3>1
  <2>8. r.cpu = row.cpu
    <3>1. NoJobRow.cpu = Absent
      BY DEF NoJobRow
    <3>2. RowAt(log, row, at, "cpu")
      BY DEF RowInv
    <3>4. CASE row.cpu = Absent /\ \A k \in 1..at : "cpu" \notin DOMAIN log[k]
      <4>1. \A k \in DOMAIN log : "cpu" \notin DOMAIN log[k]
        BY <2>7, <3>4
      <4> QED BY <1>1, <3>1, <3>4, <4>1 DEF LastSet
    <3>5. ASSUME NEW i \in DOMAIN log, "cpu" \in DOMAIN log[i], row.cpu = log[i].cpu,
                 \A k \in i + 1..at : "cpu" \notin DOMAIN log[k]
          PROVE  r.cpu = row.cpu
      <4>1. PICK k \in DOMAIN log : /\ "cpu" \in DOMAIN log[k] /\ r.cpu = log[k].cpu /\ i <= k
        BY <1>1, <3>5 DEF LastSet
      <4>2. k \in 1..at /\ k \notin i + 1..at /\ i \in 1..at
        BY <2>7, <3>5, <4>1
      <4>3. k = i
        BY <4>1, <4>2
      <4> QED BY <3>5, <4>1, <4>3
    <3> QED BY <3>2, <3>4, <3>5 DEF RowAt
  <2> QED BY <2>6, <2>8
<1> QED BY <1>7, <1>8, <1>9 DEF PrevOfRow

\* A sample of the row stands at the position read, and its rate is of its run.
Sampled(b, pos, log, row) ==
    \/ b[1] = NoSample /\ b[2] = NoUpdate
    \/ /\ b[1] # NoSample /\ b[1].pos = pos /\ SampleOK(b[1])
       /\ b[2] # NoUpdate /\ ObservedInv(log, b[2].prev, row)

LEMMA Builds ==
    ASSUME NEW log, LogInv(log), NEW row, NEW at \in Nat, NEW kept, RowInv(log, row, at, kept),
           ObservedInv(log, mprev, row), NEW trig, NEW soon
    PROVE  Sampled(Build(row, trig, soon), Position, log, row)
PROOF
<1>a. PICK o : o = Observe(row)
  OBVIOUS
<1>b. PICK t : t = SampleTrigger(row, trig)
  OBVIOUS
<1>c. PICK rate : rate = DeriveRate(o)
  OBVIOUS
<1>d. PICK pos : pos = Position
  OBVIOUS
<1>e. PICK from : from = IF rate THEN Sources(o) ELSE {}
  OBVIOUS
<1>f. PICK prev : prev = IF t = Terminal THEN NoObservation ELSE o
  OBVIOUS
<1>g. PICK ended : ended = IF t = Terminal THEN o.run ELSE mended
  OBVIOUS
<1>h. PICK b : b = Build(row, trig, soon)
  OBVIOUS
<1>1. \/ b = <<NoSample, NoUpdate>>
      \/ /\ t # 0
         /\ b = <<[pos |-> pos, run |-> o.run, trigger |-> t, rate |-> rate, from |-> from],
                  [prev |-> prev, ended |-> ended]>>
  BY <1>a, <1>b, <1>c, <1>d, <1>e, <1>f, <1>g, <1>h DEF Build
<1>2. CASE b = <<NoSample, NoUpdate>>
  BY <1>h, <1>2 DEF Sampled
<1>3. CASE /\ t # 0
           /\ b = <<[pos |-> pos, run |-> o.run, trigger |-> t, rate |-> rate, from |-> from],
                    [prev |-> prev, ended |-> ended]>>
  <2>1. PICK s : s = [pos |-> pos, run |-> o.run, trigger |-> t, rate |-> rate, from |-> from]
    OBVIOUS
  <2>2. PICK u : u = [prev |-> prev, ended |-> ended]
    OBVIOUS
  <2>3. b[1] = s /\ b[2] = u
    BY <1>3, <2>1, <2>2
  <2>4. /\ s.pos = pos /\ s.run = o.run /\ s.rate = rate /\ s.from = from
        /\ DOMAIN s = {"pos", "run", "trigger", "rate", "from"}
    BY <2>1
  <2>5. u.prev = prev /\ DOMAIN u = {"prev", "ended"}
    BY <2>2
  <2>6. s # NoSample /\ u # NoUpdate
    <3>1. DOMAIN NoSample = {"none"} /\ DOMAIN NoUpdate = {"none"}
      BY DEF NoSample, NoUpdate
    <3>2. "none" \notin DOMAIN s /\ "none" \notin DOMAIN u
      BY <2>4, <2>5
    <3> QED BY <3>1, <3>2
  <2>7. row.nss # 0
    BY <1>b, <1>3 DEF SampleTrigger
  <2>8. o.run = row.nss - 1 /\ PrevInv(log, o) /\ PrevOfRow(o, row)
    BY <1>a, <2>7, Observes
  <2>9. SampleOK(s)
    <3>1. ASSUME rate PROVE Sources(o) = {o.run}
      <4>1. o.life = row.life /\ o.cpu = row.cpu
        BY <1>a DEF Observe
      <4> QED BY <1>c, <2>8, <3>1, <4>1, RateOfRun
    <3>2. rate => from = {o.run}
      BY <1>e, <3>1
    <3> QED BY <2>4, <3>2 DEF SampleOK
  <2>10. ObservedInv(log, prev, row)
    BY <1>f, <2>8 DEF ObservedInv
  <2> QED BY <1>d, <1>h, <2>3, <2>4, <2>5, <2>6, <2>9, <2>10 DEF Sampled
<1> QED BY <1>1, <1>2, <1>3

LEMMA MetricsInitInv ==
    ASSUME MetricsInit
    PROVE  MetricsInv
PROOF
<1>1. mlog = <<>> /\ mrow = NoJobRow /\ mprev = NoObservation /\ march = <<>>
  BY DEF MetricsInit, MetricsStart
<1>2. DOMAIN menv = ShadowFields /\ DOMAIN msync = TailerFields /\ DOMAIN mlapse = LapseFields
  BY DEF MetricsInit, MetricsStart, ShadowFields, TailerFields, LapseFields
<1>3. LogInv(mlog)
  BY <1>1 DEF LogInv, IsSequence, StartsInOrder, RunsInOrder, ReportsInRun, ReportsStarted,
              ClockAlone, UsageIn, ClocksIn, StartsIn
<1>4. ShadowInv(menv, mlog)
  BY <1>1 DEF MetricsInit, MetricsStart, ShadowInv, UsageIn, StartsIn, LastClock, ClocksIn
<1>5. TailerInv(mlog, msync)
  BY <1>1 DEF MetricsInit, MetricsStart, TailerInv
<1>6. RowInv(mlog, mrow, msync.at, msync.saved)
  <2>1. msync.at = 0 /\ msync.saved = 0
    BY DEF MetricsInit, MetricsStart
  <2>2. Absent \in ReportValue /\ Absent.v = -1 /\ Absent.by = -1
    BY DEF Absent, ReportValue
  <2>3. /\ DOMAIN mrow = {"status", "nss", "life", "clock", "cpu"} /\ mrow.nss = 0
        /\ mrow.life = Absent /\ mrow.clock = Absent /\ mrow.cpu = Absent
    BY <1>1 DEF NoJobRow
  <2>4. UsageOf(mrow.nss - 1, mrow.life, mrow.clock, mrow.cpu)
    BY <2>2, <2>3 DEF UsageOf
  <2>5. RowRun(mlog, mrow, 0, 0)
    BY <1>1, <2>3 DEF RowRun, StartsIn
  <2>6. RowAt(mlog, mrow, 0, "life") /\ RowAt(mlog, mrow, 0, "clock") /\ RowAt(mlog, mrow, 0, "cpu")
    BY <2>3 DEF RowAt
  <2> QED BY <2>1, <2>2, <2>3, <2>4, <2>5, <2>6 DEF RowInv
<1>7. ObservedInv(mlog, mprev, mrow) /\ msync.pc = "read"
  BY DEF MetricsInit, MetricsStart, ObservedInv
<1>8. ArchivedInv(march, mmark, mstored, mlapse.marks, msync)
  BY DEF MetricsInit, MetricsStart, ArchivedInv, IsSequence, NoMark
<1> QED BY <1>2, <1>3, <1>4, <1>5, <1>6, <1>7, <1>8 DEF MetricsInv

LEMMA ScheddCommitKeeps ==
    ASSUME SamplerFaults = {}, MetricsInv, ScheddCommit
    PROVE  MetricsInv'
PROOF
<1>1. /\ LogInv(mlog) /\ ShadowInv(menv, mlog) /\ TailerInv(mlog, msync)
      /\ DOMAIN menv = ShadowFields /\ DOMAIN msync = TailerFields /\ DOMAIN mlapse = LapseFields
      /\ RowInv(mlog, mrow, msync.at, msync.saved) /\ ObservedInv(mlog, mprev, mrow)
      /\ ArchivedInv(march, mmark, mstored, mlapse.marks, msync)
  BY DEF MetricsInv
<1>2. /\ mrow' = mrow /\ msync' = msync /\ mprev' = mprev /\ mmark' = mmark /\ march' = march
      /\ mstored' = mstored /\ mlapse' = mlapse /\ msync.pc = "read"
  BY DEF ScheddCommit
<1>3. DOMAIN menv' = ShadowFields
  BY <1>1, ScheddCommits
<1>4. PICK e : mlog' = Append(mlog, e) /\ ScheddStep(menv, menv', mlog, e)
  BY <1>1, ScheddCommits
<1>5. /\ LogInv(Append(mlog, e)) /\ ShadowInv(menv', Append(mlog, e))
      /\ "clock" \in DOMAIN e =>
           "cpu" \in DOMAIN e /\ ReportRun(e) \in Int /\ ReportRun(e) >= menv.runs - 1
  BY <1>1, <1>4, ScheddStepKeeps
<1>6. mrow.nss \in Nat /\ menv.runs \in Nat /\ mrow.nss <= menv.runs
  BY <1>1, RowOfRuns
<1>7. "clock" \in DOMAIN e =>
        "cpu" \in DOMAIN e /\ ReportRun(e) \in Int /\ ReportRun(e) >= mrow.nss - 1
  BY <1>5, <1>6
<1>8. msync.at \in Nat /\ msync.at <= Len(mlog)
  BY <1>1 DEF TailerInv
<1>9. RowInv(Append(mlog, e), mrow, msync.at, msync.saved)
  BY <1>1, <1>8, RowGrows
<1>10. ObservedInv(Append(mlog, e), mprev, mrow)
  BY <1>1, <1>6, <1>7, ObservedGrows
<1>11. TailerInv(Append(mlog, e), msync)
  <2>1. Len(mlog) \in Nat /\ IsSequence(mlog)
    BY <1>1, LogParts DEF LogInv
  <2>2. IsSequence(Append(mlog, e)) /\ DOMAIN Append(mlog, e) = 1..Len(mlog) + 1
    BY <2>1, AppendSequence
  <2>3. Len(Append(mlog, e)) = Len(mlog) + 1
    <3>1. PICK t : t = Append(mlog, e)
      OBVIOUS
    <3>2. Len(t) \in Nat /\ DOMAIN t = 1..Len(t)
      BY <2>2, <3>1, AppendSequence
    <3>3. DOMAIN t = 1..Len(mlog) + 1
      BY <2>2, <3>1
    <3> QED BY <2>1, <3>1, <3>2, <3>3
  <2> QED BY <1>1, <1>2, <2>1, <2>3 DEF TailerInv
<1> QED BY <1>1, <1>2, <1>3, <1>4, <1>5, <1>9, <1>10, <1>11 DEF MetricsInv

LEMMA CommitAllKeeps ==
    ASSUME SamplerFaults = {}, MetricsInv, CommitAll
    PROVE  MetricsInv'
PROOF
<1>1. /\ LogInv(mlog) /\ ShadowInv(menv, mlog) /\ TailerInv(mlog, msync)
      /\ DOMAIN menv = ShadowFields /\ DOMAIN msync = TailerFields /\ DOMAIN mlapse = LapseFields
      /\ RowInv(mlog, mrow, msync.at, msync.saved) /\ ObservedInv(mlog, mprev, mrow)
      /\ ArchivedInv(march, mmark, mstored, mlapse.marks, msync)
  BY DEF MetricsInv
<1>2. /\ msync.pc = "read" /\ msync.at < Len(mlog)
      /\ menv' = menv /\ mlog' = mlog /\ mmark' = mmark /\ march' = march
      /\ mstored' = mstored /\ mlapse' = mlapse
  BY DEF CommitAll
<1>3. /\ msync.at \in Nat /\ msync.saved \in Nat /\ msync.saved <= msync.at
      /\ msync.gen \in Nat /\ msync.base \in Int /\ Len(mlog) \in Nat
  BY <1>1, LogParts DEF TailerInv
<1>a. PICK row : row = RowRead(mlog, mrow, msync.at)
  OBVIOUS
<1>b. PICK trig : trig = Note(mlog[msync.at + 1])
  BY ZenonT(30)
<1>4. PICK soon \in BOOLEAN :
        LET built == IF trig = 0 THEN <<NoSample, NoUpdate>> ELSE Build(row, trig, soon)
        IN  \/ /\ mrow' = row
               /\ msync' = [msync EXCEPT !.at = @ + 1, !.sample = built[1], !.update = built[2],
                               !.pc = IF built[1] = NoSample THEN "read" ELSE "flush"]
               /\ UNCHANGED <<mprev, mended, mleft>>
            \/ /\ SpendFault /\ Rereads(msync.at)
               /\ \/ mrow' = mrow
                  \/ mrow' = row /\ (Rereads(msync.at + 1) \/ msync.saved = msync.at)
               /\ msync' = [msync EXCEPT !.at = msync.saved]
               /\ Cached(built[2], FALSE)
  BY <1>a, <1>b DEF CommitAll, RowRead
<1>c. PICK b : b = IF trig = 0 THEN <<NoSample, NoUpdate>> ELSE Build(row, trig, soon)
  OBVIOUS
<1>5. /\ RowInv(mlog, row, msync.at + 1, msync.saved) /\ ObservedInv(mlog, mprev, row)
  BY <1>a, <1>1, <1>2, <1>3, RowAdvances, PrevRead
<1>6. CASE /\ mrow' = row
           /\ msync' = [msync EXCEPT !.at = @ + 1, !.sample = b[1], !.update = b[2],
                           !.pc = IF b[1] = NoSample THEN "read" ELSE "flush"]
           /\ UNCHANGED <<mprev, mended, mleft>>
  <2>1. Sampled(b, Position, mlog, row)
    <3>1. CASE trig = 0
      BY <1>c, <3>1 DEF Sampled
    <3>2. CASE trig # 0
      <4>1. msync.at + 1 \in Nat
        BY <1>3
      <4>2. Sampled(Build(row, trig, soon), Position, mlog, row)
        BY <1>1, <1>5, <4>1, Builds
      <4> QED BY <1>c, <3>2, <4>2
    <3> QED BY <3>1, <3>2
  <2>2. /\ DOMAIN msync' = TailerFields /\ msync'.at = msync.at + 1 /\ msync'.saved = msync.saved
        /\ msync'.gen = msync.gen /\ msync'.base = msync.base
        /\ msync'.sample = b[1] /\ msync'.update = b[2]
        /\ msync'.pc = IF b[1] = NoSample THEN "read" ELSE "flush"
    BY <1>1, <1>6 DEF TailerFields
  <2>3. msync'.pc # "read" =>
          /\ msync'.sample.pos = Position /\ SampleOK(msync'.sample)
          /\ msync'.update # NoUpdate /\ ObservedInv(mlog, msync'.update.prev, row)
    BY <2>1, <2>2 DEF Sampled
  <2>4. Position.seq = msync.gen /\ Position.offset \in Int
    BY <1>3 DEF Position
  <2>5. msync'.pc \in {"read", "flush"}
    BY <2>2
  <2>6. TailerInv(mlog, msync')
    BY <1>2, <1>3, <2>2, <2>3, <2>4, <2>5 DEF TailerInv
  <2>7. ArchivedInv(march, mmark, mstored, mlapse.marks, msync')
    BY <1>1, <1>2, <2>2, <2>5 DEF ArchivedInv
  <2>8. RowInv(mlog, mrow', msync'.at, msync'.saved) /\ ObservedInv(mlog, mprev', mrow')
    BY <1>5, <1>6, <2>2
  <2> QED BY <1>1, <1>2, <1>6, <2>2, <2>3, <2>6, <2>7, <2>8 DEF MetricsInv
<1>7. CASE /\ Rereads(msync.at)
           /\ \/ mrow' = mrow
              \/ mrow' = row /\ (Rereads(msync.at + 1) \/ msync.saved = msync.at)
           /\ msync' = [msync EXCEPT !.at = msync.saved]
           /\ Cached(b[2], FALSE)
  <2>1. /\ DOMAIN msync' = TailerFields /\ msync'.at = msync.saved /\ msync'.saved = msync.saved
        /\ msync'.gen = msync.gen /\ msync'.base = msync.base /\ msync'.pc = "read"
    BY <1>1, <1>2, <1>7 DEF TailerFields
  <2>2. mprev' = mprev
    BY <1>7 DEF Cached, CacheMoves
  <2>3. NoStart(mlog, msync.saved, msync.at)
    BY <1>7 DEF Rereads, NoStart
  <2>4. RowInv(mlog, mrow', msync.saved, msync.saved) /\ ObservedInv(mlog, mprev, mrow')
    <3>1. CASE mrow' = mrow
      BY <1>1, <1>3, <2>3, <3>1, RowRewinds
    <3>2. CASE mrow' = row /\ (Rereads(msync.at + 1) \/ msync.saved = msync.at)
      <4>1. NoStart(mlog, msync.saved, msync.at + 1) \/ msync.saved = msync.at
        BY <3>2 DEF Rereads, NoStart
      <4>2. RowInv(mlog, RowRead(mlog, mrow, msync.at), msync.saved, msync.saved)
        BY <1>1, <1>2, <1>3, <2>3, <4>1, RowCommittedRewinds
      <4> QED BY <1>a, <1>5, <3>2, <4>2
    <3> QED BY <1>7, <3>1, <3>2
  <2>5. TailerInv(mlog, msync')
    BY <1>2, <1>3, <2>1 DEF TailerInv
  <2>6. ArchivedInv(march, mmark, mstored, mlapse.marks, msync')
    BY <1>1, <1>2, <2>1 DEF ArchivedInv
  <2> QED BY <1>1, <1>2, <2>1, <2>2, <2>4, <2>5, <2>6 DEF MetricsInv
<1> QED BY <1>c, <1>4, <1>6, <1>7

\* Once the samples are flushed the cache moves to what was observed with them.
LEMMA CacheKept ==
    ASSUME MetricsInv, msync.pc # "read", Cached(msync.update, TRUE)
    PROVE  ObservedInv(mlog, mprev', mrow)
PROOF
BY DEF MetricsInv, Cached, CacheMoves

\* What the position of the sample says of the samples before it.
LEMMA MarkMoves ==
    ASSUME NEW gen \in Nat, NEW off \in Int, NEW mark, mark.seq \in Nat, mark.offset \in Int,
           NEW marks, NEW pos, pos.seq = gen, pos.offset \in Int, After(pos, mark),
           NEW q, q.seq = gen, q.offset \in Int, Marked(mark, marks, q)
    PROVE  Marked(pos, marks, q) /\ (q = pos => q \in marks)
PROOF
BY DEF After, Marked

LEMMA FlushSamplesKeeps ==
    ASSUME MetricsInv, FlushSamples
    PROVE  MetricsInv'
PROOF
<1>1. /\ LogInv(mlog) /\ ShadowInv(menv, mlog) /\ TailerInv(mlog, msync)
      /\ DOMAIN menv = ShadowFields /\ DOMAIN msync = TailerFields /\ DOMAIN mlapse = LapseFields
      /\ RowInv(mlog, mrow, msync.at, msync.saved) /\ ObservedInv(mlog, mprev, mrow)
      /\ ArchivedInv(march, mmark, mstored, mlapse.marks, msync)
      /\ msync.pc # "read" => msync.update # NoUpdate /\ ObservedInv(mlog, msync.update.prev, mrow)
  BY DEF MetricsInv
<1>2. /\ msync.pc = "flush" /\ menv' = menv /\ mlog' = mlog /\ mrow' = mrow /\ march' = march
  BY DEF FlushSamples
<1>3. /\ msync.gen \in Nat /\ msync.sample.pos.seq = msync.gen /\ msync.sample.pos.offset \in Int
  BY <1>1, <1>2 DEF TailerInv
<1>4. CASE After(msync.sample.pos, mmark)
  <2>1. /\ mmark' = msync.sample.pos /\ msync' = [msync EXCEPT !.pc = "append"] /\ mprev' = mprev
    BY <1>4 DEF FlushSamples
  <2>2. /\ DOMAIN msync' = TailerFields /\ msync'.at = msync.at /\ msync'.saved = msync.saved
        /\ msync'.gen = msync.gen /\ msync'.base = msync.base /\ msync'.pc = "append"
        /\ msync'.sample = msync.sample /\ msync'.update = msync.update
    BY <1>1, <2>1 DEF TailerFields
  <2>3. TailerInv(mlog, msync')
    BY <1>1, <1>2, <2>2 DEF TailerInv
  <2>a. PICK pos : pos = msync.sample.pos
    OBVIOUS
  <2>4. \/ mstored' = pos /\ mlapse' = mlapse
        \/ mstored' = mstored /\ mlapse' = [mlapse EXCEPT !.marks = mlapse.marks \cup {pos}]
    BY <1>4, <2>a DEF FlushSamples
  <2>5. /\ DOMAIN mlapse' = LapseFields /\ mlapse.marks \subseteq mlapse'.marks
        /\ mstored' = pos \/ (mstored' = mstored /\ pos \in mlapse'.marks)
    BY <1>1, <2>4 DEF LapseFields
  <2>6. \A i \in DOMAIN march :
          /\ SampleOK(march[i]) /\ march[i].pos.seq \in Nat /\ march[i].pos.offset \in Int
          /\ march[i].pos.seq <= msync.gen
          /\ march[i].pos.seq = msync.gen =>
               /\ Marked(mmark, mlapse.marks, march[i].pos)
               /\ Marked(mstored, mlapse.marks, march[i].pos)
    BY <1>1, <1>2 DEF ArchivedInv
  <2>7. mmark.seq \in Nat /\ mmark.offset \in Int
    BY <1>1 DEF ArchivedInv
  <2>8. ASSUME NEW i \in DOMAIN march, march[i].pos.seq = msync.gen
        PROVE  /\ Marked(pos, mlapse'.marks, march[i].pos)
               /\ Marked(mstored', mlapse'.marks, march[i].pos)
               /\ march[i].pos = pos => march[i].pos \in mlapse'.marks
    <3>1. PICK q : q = march[i].pos
      OBVIOUS
    <3>2. /\ q.seq = msync.gen /\ q.offset \in Int
          /\ Marked(mmark, mlapse.marks, q) /\ Marked(mstored, mlapse.marks, q)
      BY <2>6, <2>8, <3>1
    <3>3. Marked(pos, mlapse.marks, q) /\ (q = pos => q \in mlapse.marks)
      BY <1>3, <1>4, <2>a, <2>7, <3>2, MarkMoves
    <3> QED BY <2>5, <3>1, <3>2, <3>3 DEF Marked
  <2>9. Marked(mstored', mlapse'.marks, pos)
    <3>1. ~After(pos, pos)
      BY <1>3, <2>a DEF After
    <3> QED BY <2>5, <3>1 DEF Marked
  <2>10. ArchivedInv(march, mmark', mstored', mlapse'.marks, msync')
    <3>1. mstored'.seq \in Nat /\ mstored'.offset \in Int /\ mmark'.seq \in Nat /\ mmark'.offset \in Int
      BY <1>1, <1>3, <2>a, <2>1, <2>5 DEF ArchivedInv
    <3>2. \A i \in DOMAIN march : march[i].pos = pos => march[i].pos.seq = msync.gen
      BY <1>3, <2>a
    <3>3. \A i, j \in DOMAIN march : i # j /\ march[i].pos = march[j].pos => march[i].pos \in mlapse'.marks
      BY <1>1, <2>5 DEF ArchivedInv
    <3>4. IsSequence(march)
      BY <1>1 DEF ArchivedInv
    <3> QED BY <2>a, <2>1, <2>2, <2>6, <2>8, <2>9, <3>1, <3>2, <3>3, <3>4 DEF ArchivedInv
  <2> QED BY <1>1, <1>2, <2>1, <2>2, <2>3, <2>5, <2>10 DEF MetricsInv
<1>5. CASE ~After(msync.sample.pos, mmark)
  <2>1. /\ mmark' = mmark /\ mstored' = mstored /\ mlapse' = mlapse /\ Cached(msync.update, TRUE)
        /\ msync' = [msync EXCEPT !.pc = "read", !.sample = NoSample, !.update = NoUpdate]
    BY <1>5 DEF FlushSamples
  <2>2. /\ DOMAIN msync' = TailerFields /\ msync'.at = msync.at /\ msync'.saved = msync.saved
        /\ msync'.gen = msync.gen /\ msync'.base = msync.base /\ msync'.pc = "read"
    BY <1>1, <2>1 DEF TailerFields
  <2>3. TailerInv(mlog, msync')
    BY <1>1, <2>2 DEF TailerInv
  <2>4. ArchivedInv(march, mmark, mstored, mlapse.marks, msync')
    BY <1>1, <2>2 DEF ArchivedInv
  <2>5. ObservedInv(mlog, mprev', mrow)
    BY <1>2, <2>1, CacheKept
  <2> QED BY <1>1, <1>2, <2>1, <2>2, <2>3, <2>4, <2>5 DEF MetricsInv
<1> QED BY <1>4, <1>5

LEMMA AppendSampleKeeps ==
    ASSUME MetricsInv, AppendSample
    PROVE  MetricsInv'
PROOF
<1>1. /\ LogInv(mlog) /\ ShadowInv(menv, mlog) /\ TailerInv(mlog, msync)
      /\ DOMAIN menv = ShadowFields /\ DOMAIN msync = TailerFields /\ DOMAIN mlapse = LapseFields
      /\ RowInv(mlog, mrow, msync.at, msync.saved)
      /\ ArchivedInv(march, mmark, mstored, mlapse.marks, msync)
  BY DEF MetricsInv
<1>2. /\ msync.pc = "append" /\ menv' = menv /\ mlog' = mlog /\ mrow' = mrow /\ mmark' = mmark
      /\ mstored' = mstored /\ Cached(msync.update, TRUE)
      /\ msync' = [msync EXCEPT !.pc = "read", !.sample = NoSample, !.update = NoUpdate]
  BY DEF AppendSample
<1>7. \/ march' = Append(march, msync.sample) /\ mlapse' = mlapse
      \/ /\ march' = march
         /\ \E x : mlapse' = [mlapse EXCEPT !.ends = x]
  BY DEF AppendSample
<1>8. DOMAIN mlapse' = LapseFields /\ mlapse'.marks = mlapse.marks
  BY <1>1, <1>7 DEF LapseFields
<1>3. /\ DOMAIN msync' = TailerFields /\ msync'.at = msync.at /\ msync'.saved = msync.saved
      /\ msync'.gen = msync.gen /\ msync'.base = msync.base /\ msync'.pc = "read"
  BY <1>1, <1>2 DEF TailerFields
<1>4. TailerInv(mlog, msync')
  BY <1>1, <1>3 DEF TailerInv
<1>5. ObservedInv(mlog, mprev', mrow)
  BY <1>2, CacheKept
<1>6. ArchivedInv(march', mmark, mstored, mlapse.marks, msync')
  <2>0. CASE march' = march
    BY <1>1, <1>3, <2>0 DEF ArchivedInv
  <2>d. CASE march' = Append(march, msync.sample)
    <3>a. PICK s : s = msync.sample
      OBVIOUS
    <3>b. PICK t : t = march'
      OBVIOUS
    <3>c. PICK n \in Nat : n = Len(march)
      BY <1>1, AppendSequence DEF ArchivedInv
    <3>d. PICK marks : marks = mlapse.marks
      OBVIOUS
    <3>1. /\ IsSequence(t) /\ DOMAIN march = 1..n /\ DOMAIN t = 1..n + 1
          /\ t[n + 1] = s /\ \A i \in 1..n : t[i] = march[i]
      <4>1. IsSequence(march)
        BY <1>1 DEF ArchivedInv
      <4> QED BY <2>d, <3>a, <3>b, <3>c, <4>1, AppendSequence
    <3>2. /\ SampleOK(s) /\ s.pos.seq = msync.gen /\ s.pos.offset \in Int /\ mmark = s.pos
          /\ msync.gen \in Nat /\ mmark.seq \in Nat /\ mmark.offset \in Int
          /\ mstored.seq \in Nat /\ mstored.offset \in Int /\ Marked(mstored, marks, s.pos)
      BY <1>1, <1>2, <3>a, <3>d DEF TailerInv, ArchivedInv
    <3>8. Marked(mmark, marks, s.pos)
      BY <3>2 DEF Marked, After
    <3>3. \A i \in 1..n :
            /\ SampleOK(march[i]) /\ march[i].pos.seq \in Nat /\ march[i].pos.offset \in Int
            /\ march[i].pos.seq <= msync.gen
            /\ march[i].pos.seq = msync.gen =>
                 Marked(mmark, marks, march[i].pos) /\ Marked(mstored, marks, march[i].pos)
      BY <1>1, <1>2, <3>d, <3>1 DEF ArchivedInv
    <3>4. \A i, j \in 1..n : i # j /\ march[i].pos = march[j].pos => march[i].pos \in marks
      BY <1>1, <3>d, <3>1 DEF ArchivedInv
    <3>5. \A i \in 1..n : march[i].pos = s.pos => s.pos \in marks
      BY <1>1, <1>2, <3>a, <3>d, <3>1 DEF ArchivedInv
    <3>6. ASSUME NEW i \in 1..n + 1
          PROVE  /\ SampleOK(t[i]) /\ t[i].pos.seq \in Nat /\ t[i].pos.offset \in Int
                 /\ t[i].pos.seq <= msync.gen
                 /\ t[i].pos.seq = msync.gen =>
                      Marked(mmark, marks, t[i].pos) /\ Marked(mstored, marks, t[i].pos)
      <4>1. CASE i = n + 1
        BY <3>1, <3>2, <3>8, <4>1
      <4>2. CASE i \in 1..n
        BY <3>1, <3>3, <4>2
      <4> QED BY <4>1, <4>2
    <3>7. ASSUME NEW i \in 1..n + 1, NEW j \in 1..n + 1, i # j, t[i].pos = t[j].pos
          PROVE  t[i].pos \in marks
      <4>1. CASE i \in 1..n /\ j \in 1..n
        BY <3>1, <3>4, <3>7, <4>1
      <4>2. CASE i = n + 1 /\ j \in 1..n
        BY <3>1, <3>5, <3>7, <4>2
      <4>3. CASE i \in 1..n /\ j = n + 1
        BY <3>1, <3>5, <3>7, <4>3
      <4> QED BY <3>7, <4>1, <4>2, <4>3
    <3> QED BY <1>3, <3>b, <3>d, <3>1, <3>2, <3>6, <3>7 DEF ArchivedInv
  <2> QED BY <1>7, <2>0, <2>d
<1> QED BY <1>1, <1>2, <1>3, <1>4, <1>5, <1>6, <1>8 DEF MetricsInv

LEMMA SaveOffsetKeeps ==
    ASSUME MetricsInv, SaveOffset
    PROVE  MetricsInv'
PROOF
<1>1. /\ LogInv(mlog) /\ ShadowInv(menv, mlog) /\ TailerInv(mlog, msync)
      /\ DOMAIN menv = ShadowFields /\ DOMAIN msync = TailerFields /\ DOMAIN mlapse = LapseFields
      /\ RowInv(mlog, mrow, msync.at, msync.saved) /\ ObservedInv(mlog, mprev, mrow)
      /\ ArchivedInv(march, mmark, mstored, mlapse.marks, msync)
  BY DEF MetricsInv
<1>2. /\ msync.pc = "read" /\ msync.saved < msync.at
      /\ msync' = [msync EXCEPT !.saved = msync.at]
      /\ menv' = menv /\ mlog' = mlog /\ mrow' = mrow /\ mprev' = mprev /\ mmark' = mmark
      /\ march' = march /\ mstored' = mstored /\ mlapse' = mlapse
  BY DEF SaveOffset
<1>3. /\ DOMAIN msync' = TailerFields /\ msync'.at = msync.at /\ msync'.saved = msync.at
      /\ msync'.gen = msync.gen /\ msync'.base = msync.base /\ msync'.pc = "read"
  BY <1>1, <1>2 DEF TailerFields
<1>4. TailerInv(mlog, msync')
  BY <1>1, <1>3 DEF TailerInv
<1>5. ArchivedInv(march, mmark, mstored, mlapse.marks, msync')
  BY <1>1, <1>2, <1>3 DEF ArchivedInv
<1>6. RowRun(mlog, mrow, msync.at, msync.at)
  BY <1>1, <1>2 DEF TailerInv, RowInv, RowRun
<1>7. RowInv(mlog, mrow, msync.at, msync.at)
  BY <1>1, <1>6 DEF RowInv
<1> QED BY <1>1, <1>2, <1>3, <1>4, <1>5, <1>7 DEF MetricsInv

LEMMA SamplerRestartKeeps ==
    ASSUME SamplerFaults = {}, MetricsInv, SamplerRestart
    PROVE  MetricsInv'
PROOF
<1>1. /\ LogInv(mlog) /\ ShadowInv(menv, mlog) /\ TailerInv(mlog, msync)
      /\ DOMAIN menv = ShadowFields /\ DOMAIN msync = TailerFields /\ DOMAIN mlapse = LapseFields
      /\ RowInv(mlog, mrow, msync.at, msync.saved)
      /\ ArchivedInv(march, mmark, mstored, mlapse.marks, msync)
  BY DEF MetricsInv
<1>2. /\ Rereads(msync.at) /\ mprev' = NoObservation
      /\ msync' = [msync EXCEPT !.at = msync.saved, !.pc = "read", !.sample = NoSample,
                      !.update = NoUpdate]
      /\ menv' = menv /\ mlog' = mlog /\ mrow' = mrow /\ mmark' = mstored /\ march' = march
      /\ mstored' = mstored /\ mlapse' = mlapse
  BY DEF SamplerRestart
<1>3. /\ DOMAIN msync' = TailerFields /\ msync'.at = msync.saved /\ msync'.saved = msync.saved
      /\ msync'.gen = msync.gen /\ msync'.base = msync.base /\ msync'.pc = "read"
  BY <1>1, <1>2 DEF TailerFields
<1>4. /\ msync.at \in Nat /\ msync.saved \in Nat /\ msync.saved <= msync.at /\ msync.at <= Len(mlog)
      /\ Len(mlog) \in Nat
  BY <1>1, LogParts DEF TailerInv
<1>5. TailerInv(mlog, msync')
  BY <1>1, <1>3, <1>4 DEF TailerInv
<1>6. ArchivedInv(march, mstored, mstored, mlapse.marks, msync')
  BY <1>1, <1>3 DEF ArchivedInv
<1>7. NoStart(mlog, msync.saved, msync.at)
  BY <1>2 DEF Rereads, NoStart
<1>8. RowInv(mlog, mrow, msync.saved, msync.saved)
  BY <1>1, <1>4, <1>7, RowRewinds
<1>9. ObservedInv(mlog, mprev', mrow)
  BY <1>2 DEF ObservedInv
<1> QED BY <1>1, <1>2, <1>3, <1>5, <1>6, <1>8, <1>9 DEF MetricsInv

LEMMA ResampleReloadKeeps ==
    ASSUME MetricsInv, ResampleReload
    PROVE  MetricsInv'
PROOF
<1>1. /\ LogInv(mlog) /\ ShadowInv(menv, mlog) /\ TailerInv(mlog, msync)
      /\ DOMAIN menv = ShadowFields /\ DOMAIN msync = TailerFields /\ DOMAIN mlapse = LapseFields
      /\ RowInv(mlog, mrow, msync.at, msync.saved) /\ ObservedInv(mlog, mprev, mrow)
      /\ ArchivedInv(march, mmark, mstored, mlapse.marks, msync)
  BY DEF MetricsInv
<1>2. /\ msync.pc = "read" /\ mrow' = Reconcile(mlog) /\ mmark' = NoMark
      /\ mstored' \in {NoMark, mstored} /\ mlapse' = mlapse
      /\ msync' = [msync EXCEPT !.at = Len(mlog), !.saved = Len(mlog), !.base = Len(mlog),
                      !.gen = @ + 1]
      /\ menv' = menv /\ mlog' = mlog /\ mprev' = mprev /\ march' = march
  BY DEF ResampleReload, Reconcile
<1>3. /\ DOMAIN msync' = TailerFields /\ msync'.at = Len(mlog) /\ msync'.saved = Len(mlog)
      /\ msync'.gen = msync.gen + 1 /\ msync'.base = Len(mlog) /\ msync'.pc = "read"
  BY <1>1, <1>2 DEF TailerFields
<1>4. msync.at \in Nat /\ msync.at <= Len(mlog) /\ Len(mlog) \in Nat /\ msync.gen \in Nat
  BY <1>1, LogParts DEF TailerInv
<1>5. TailerInv(mlog, msync')
  BY <1>3, <1>4 DEF TailerInv
<1>6. ArchivedInv(march, mmark', mstored', mlapse.marks, msync')
  <2>1. /\ mmark'.seq \in Nat /\ mmark'.offset \in Int
        /\ mstored'.seq \in Nat /\ mstored'.offset \in Int
    <3>1. NoMark.seq = 0 /\ NoMark.offset = 0
      BY DEF NoMark
    <3> QED BY <1>1, <1>2, <3>1 DEF ArchivedInv
  <2>2. \A i \in DOMAIN march : march[i].pos.seq <= msync'.gen /\ march[i].pos.seq # msync'.gen
    BY <1>1, <1>3, <1>4 DEF ArchivedInv
  <2> QED BY <1>1, <1>3, <2>1, <2>2 DEF ArchivedInv
<1>7. RowInv(mlog, mrow', Len(mlog), Len(mlog))
  BY <1>1, <1>2, RowReconciled
<1>8. ObservedInv(mlog, mprev, mrow')
  BY <1>1, <1>2, <1>4, PrevReconciled
<1> QED BY <1>1, <1>2, <1>3, <1>5, <1>6, <1>7, <1>8 DEF MetricsInv

\* Property SamplesSound: however often the tailer reads a transaction again after
\* a conflict, a restart or a reload, the mark that flush stores first keeps its
\* sample from being archived twice, except where that mark could not be stored;
\* and what build derives as a rate above zero, on whichever of the three clocks,
\* is of the counters and the clock of the sample's own run.
THEOREM SamplesAreSound ==
    ASSUME SamplerFaults = {}
    PROVE  MetricsSpec => []SamplesSound
PROOF
<1>1. MetricsInit => MetricsInv
  BY MetricsInitInv
<1>2. MetricsInv /\ [MetricsNext]_metricsvars => MetricsInv'
  <2> SUFFICES ASSUME MetricsInv, [MetricsNext]_metricsvars
               PROVE  MetricsInv'
    OBVIOUS
  <2>1. CASE ScheddCommit
    BY <2>1, ScheddCommitKeeps
  <2>2. CASE CommitAll
    BY <2>2, CommitAllKeeps
  <2>3. CASE FlushSamples
    BY <2>3, FlushSamplesKeeps
  <2>4. CASE AppendSample
    BY <2>4, AppendSampleKeeps
  <2>5. CASE SaveOffset
    BY <2>5, SaveOffsetKeeps
  <2>6. CASE SamplerRestart
    BY <2>6, SamplerRestartKeeps
  <2>7. CASE ResampleReload
    BY <2>7, ResampleReloadKeeps
  <2>8. CASE UNCHANGED metricsvars
    BY <2>8 DEF metricsvars, MetricsInv
  <2> QED BY <2>1, <2>2, <2>3, <2>4, <2>5, <2>6, <2>7, <2>8 DEF MetricsNext
<1>3. MetricsInv => SamplesSound
  BY DEF MetricsInv, ArchivedInv, SampleOK, SamplesSound
<1> QED BY <1>1, <1>2, <1>3, PTL DEF MetricsSpec

-----------------------------------------------------------------------------
(***************************************************************************)
(* The endpoint of a run.  The sampler emits one when it sees the job stop *)
(* while it has an observation of the run, and a rewind goes back over no  *)
(* change of state; so the invariant says of each run that began since the *)
(* sampler did, by what was read of it: before its stop it is observed and *)
(* has no endpoint; after it the run has ended, and its one endpoint is    *)
(* archived or comes with the flush under way.  For that the row's status  *)
(* must be what the log says where the tailer reads, no run that was not   *)
(* read may look ended or sampled, and what is read again before the mark  *)
(* must be no change of state.                                             *)
(***************************************************************************)
StatusIn(log) == {k \in DOMAIN log : "status" \in DOMAIN log[k]}
StopsIn(log) == {k \in StatusIn(log) : log[k].status # 2}

\* A run is counted right after the job was marked as running, and between two
\* runs the job stops.
StartsMarked(log) ==
    \A i \in StartsIn(log) :
        DOMAIN log[i] = {"nss"} /\ i - 1 \in StatusIn(log) /\ log[i - 1].status = 2
StopsBetween(log) ==
    \A i, k \in StartsIn(log) : i < k => \E j \in StopsIn(log) : i < j /\ j < k
StopsLog(log) ==
    /\ \A k \in StatusIn(log) : DOMAIN log[k] = {"status"}
    /\ StartsMarked(log) /\ StopsBetween(log)

StopsShadow(env, log) ==
    /\ env.st \in {"idle", "marked"} =>
         \A i \in StartsIn(log) : \E j \in StopsIn(log) : i < j
    /\ env.st = "marked" => Len(log) \in StatusIn(log) /\ log[Len(log)].status = 2

\* x is the status after n entries of the log.  The row's is of what was read, or
\* of one entry more that a conflict left in it.
StatusIs(log, n, x) ==
    \/ x = 1 /\ \A k \in StatusIn(log) : n < k
    \/ \E m \in StatusIn(log) : /\ m <= n /\ x = log[m].status
                                /\ \A k \in StatusIn(log) : k <= n => k <= m
RowStatus(log, row, at, kept) ==
    \/ StatusIs(log, at, row.status)
    \/ kept = at /\ at < Len(log) /\ StatusIs(log, at + 1, row.status)

\* What is read again before the mark is no change of state.
Changes(e) == "status" \in DOMAIN e \/ "nss" \in DOMAIN e
NoChange(log, from, upto) == \A k \in DOMAIN log : from < k /\ k <= upto => ~Changes(log[k])
RereadInv(log, sync, mark) ==
    mark.seq = sync.gen =>
        /\ mark.offset + sync.base <= Len(log)
        /\ NoChange(log, sync.at, mark.offset + sync.base)

StoredInv(log, sync, stored) ==
    stored.seq <= sync.gen /\ stored.offset \in Int /\ RereadInv(log, sync, stored)

\* r is no run that is still to be read: such a run is not sampled and has not ended.
RunRead(runs, log, at, r) ==
    r \in Int /\ r < runs /\ \A i \in StartsIn(log) : at < i => r + 1 < log[i].nss
UnreadInv(env, log, sync, ended, arch, lost) ==
    /\ RunRead(env.runs, log, sync.at, ended)
    /\ \A x \in DOMAIN arch : RunRead(env.runs, log, sync.at, arch[x].run)
    /\ \A r \in lost : RunRead(env.runs, log, sync.at, r)
    /\ sync.pc # "read" =>
         /\ RunRead(env.runs, log, sync.at, sync.sample.run)
         /\ sync.update.ended \in {ended, sync.sample.run}
         /\ sync.sample.pos.offset = sync.at - sync.base

\* What a completed flush will leave in the cache, and whether it will leave the
\* endpoint of run r in the archive.
PrevAfter(sync, prev) == IF sync.pc = "read" THEN prev ELSE sync.update.prev
EndedAt(sync, ended) == IF sync.pc = "read" THEN ended ELSE sync.update.ended
EndpointComes(sync, r) == sync.pc # "read" /\ sync.sample.run = r /\ sync.sample.trigger = Terminal
EndpointsOf(arch, r) == {x \in DOMAIN arch : arch[x].run = r /\ arch[x].trigger = Terminal}
NoEndpoint(arch, lost, r) == r \notin lost /\ EndpointsOf(arch, r) = {}
OneEndpoint(arch, lost, r) ==
    IF r \in lost THEN EndpointsOf(arch, r) = {} ELSE \E x \in DOMAIN arch : EndpointsOf(arch, r) = {x}

StopRead(log, i, at) == \E k \in StopsIn(log) : i < k /\ k <= at
RunGoesOn(sync, prev, ended, arch, lost, r) ==
    /\ PrevAfter(sync, prev) # NoObservation /\ EndedAt(sync, ended) < r
    /\ NoEndpoint(arch, lost, r) /\ ~EndpointComes(sync, r)
RunEnded(sync, ended, mark, arch, lost, r) ==
    /\ r <= EndedAt(sync, ended)
    /\ \/ ~EndpointComes(sync, r) /\ OneEndpoint(arch, lost, r)
       \/ /\ EndpointComes(sync, r) /\ NoEndpoint(arch, lost, r)
          /\ sync.pc = "flush" => After(sync.sample.pos, mark)

\* The run that entry i counts, by what was read of it.
RunFollowed(log, i, sync, prev, ended, mark, arch, lost) ==
    /\ StopRead(log, i, sync.at) => RunEnded(sync, ended, mark, arch, lost, log[i].nss - 1)
    /\ ~StopRead(log, i, sync.at) => RunGoesOn(sync, prev, ended, arch, lost, log[i].nss - 1)
FollowedInv(log, sync, prev, ended, mark, arch, lost, life) ==
    \A i \in StartsIn(log) : life < i /\ i <= sync.at =>
        RunFollowed(log, i, sync, prev, ended, mark, arch, lost)

EndpointInv ==
    /\ MetricsInv
    /\ StopsLog(mlog) /\ StopsShadow(menv, mlog)
    /\ RowStatus(mlog, mrow, msync.at, msync.saved)
    /\ RereadInv(mlog, msync, mmark) /\ StoredInv(mlog, msync, mstored)
    /\ UnreadInv(menv, mlog, msync, mended, march, mlapse.ends)
    /\ mlife \in Nat
    /\ FollowedInv(mlog, msync, mprev, mended, mmark, march, mlapse.ends, mlife)

LEMMA StatusAfter ==
    ASSUME NEW log, IsSequence(log), NEW e
    PROVE  /\ StatusIn(Append(log, e)) =
                StatusIn(log) \cup (IF "status" \in DOMAIN e THEN {Len(log) + 1} ELSE {})
           /\ StopsIn(Append(log, e)) =
                StopsIn(log) \cup (IF "status" \in DOMAIN e /\ e.status # 2 THEN {Len(log) + 1} ELSE {})
           /\ StatusIn(log) \subseteq 1..Len(log) /\ StopsIn(log) \subseteq StatusIn(log)
           /\ StartsIn(log) \subseteq 1..Len(log)
PROOF
<1>a. PICK t : t = Append(log, e)
  OBVIOUS
<1>1. /\ Len(log) \in Nat /\ DOMAIN log = 1..Len(log) /\ DOMAIN t = 1..Len(log) + 1
      /\ t[Len(log) + 1] = e /\ \A i \in 1..Len(log) : t[i] = log[i]
  BY <1>a, AppendSequence
<1>2. \A i : i \in DOMAIN t <=> i \in DOMAIN log \/ i = Len(log) + 1
  BY <1>1
<1>3. StatusIn(t) = StatusIn(log) \cup (IF "status" \in DOMAIN e THEN {Len(log) + 1} ELSE {})
  BY <1>1, <1>2 DEF StatusIn
<1>4. StopsIn(t) =
        StopsIn(log) \cup (IF "status" \in DOMAIN e /\ e.status # 2 THEN {Len(log) + 1} ELSE {})
  BY <1>1, <1>2 DEF StatusIn, StopsIn
<1>5. /\ StatusIn(log) \subseteq 1..Len(log) /\ StopsIn(log) \subseteq StatusIn(log)
      /\ StartsIn(log) \subseteq 1..Len(log)
  BY <1>1 DEF StatusIn, StopsIn, StartsIn
<1> QED BY <1>a, <1>3, <1>4, <1>5

\* What a transaction of the schedd does to the status and the count of runs.
StatusStep(env, env2, e) ==
    \/ /\ DOMAIN e = {"status"} /\ e.status = 2 /\ env.st = "idle" /\ env2.st = "marked"
       /\ env2.runs = env.runs
    \/ /\ DOMAIN e = {"nss"} /\ e.nss = env.runs + 1 /\ env.st = "marked" /\ env2.st = "running"
       /\ env2.runs = env.runs + 1
    \/ /\ DOMAIN e = {"status"} /\ e.status # 2 /\ env2.st = "idle" /\ env2.runs = env.runs
    \/ /\ ~Changes(e) /\ env2.st # "marked" /\ (env2.st = "idle" => env.st = "idle")
       /\ env2.runs = env.runs

LEMMA ScheddMarks ==
    ASSUME DOMAIN menv = ShadowFields, ScheddCommit
    PROVE  \E e : mlog' = Append(mlog, e) /\ StatusStep(menv, menv', e)
PROOF
<1> DEFINE Goal == \E e : mlog' = Append(mlog, e) /\ StatusStep(menv, menv', e)
<1> SUFFICES Goal
  OBVIOUS
<1>1. \A e : Writes(e) => mlog' = Append(mlog, e)
  BY DEF Writes
<1>2. /\ \A n : DOMAIN [status |-> n] = {"status"} /\ [status |-> n].status = n
      /\ \A n : DOMAIN [nss |-> n] = {"nss"} /\ [nss |-> n].nss = n
      /\ \A n : DOMAIN [cpu |-> n] = {"cpu"}
      /\ DOMAIN [exit |-> TRUE] = {"exit"}
  OBVIOUS
<1>3. CASE menv.st = "idle" /\ menv' = [menv EXCEPT !.st = "marked"] /\ Writes([status |-> 2])
  <2>1. menv'.st = "marked" /\ menv'.runs = menv.runs
    BY <1>3 DEF ShadowFields
  <2> QED BY <1>1, <1>2, <1>3, <2>1 DEF StatusStep
<1>4. CASE /\ menv.st = "marked"
           /\ \E clocked, bare \in BOOLEAN :
                menv' = [st |-> "running", runs |-> menv.runs + 1, life |-> 0, cpu |-> 0,
                         clocked |-> clocked, bare |-> bare, dated |-> menv.dated]
           /\ Writes([nss |-> menv.runs + 1])
  <2>1. menv'.st = "running" /\ menv'.runs = menv.runs + 1
    BY <1>4
  <2> QED BY <1>1, <1>2, <1>4, <2>1 DEF StatusStep
<1>5. CASE \E n \in {1, 4} : menv' = [menv EXCEPT !.st = "idle"] /\ Writes([status |-> n])
  <2>1. PICK n \in {1, 4} : menv' = [menv EXCEPT !.st = "idle"] /\ Writes([status |-> n])
    BY <1>5
  <2>2. menv'.st = "idle" /\ menv'.runs = menv.runs /\ n # 2
    BY <2>1 DEF ShadowFields
  <2> QED BY <1>1, <1>2, <2>1, <2>2 DEF StatusStep
<1>6. ASSUME NEW e, Writes(e), "status" \notin DOMAIN e, "nss" \notin DOMAIN e,
             menv'.st # "marked", menv'.st = "idle" => menv.st = "idle", menv'.runs = menv.runs
      PROVE  Goal
  BY <1>1, <1>6 DEF StatusStep, Changes
<1> HIDE DEF Goal
<1>7. \A l, c : "status" \notin DOMAIN Reported(l, c) /\ "nss" \notin DOMAIN Reported(l, c)
  BY DEF Reported
<1>8. CASE menv.st = "running" /\ menv' = menv /\ Writes([cpu |-> Value(0)])
  BY <1>2, <1>6, <1>8
<1>9. CASE /\ menv.st = "running" /\ menv' = [menv EXCEPT !.dated = menv.clocked]
           /\ Writes(Reported(menv.life, menv.cpu))
  <2>1. menv'.st = "running" /\ menv'.runs = menv.runs
    BY <1>9 DEF ShadowFields
  <2> QED BY <1>6, <1>7, <1>9, <2>1
<1>10. CASE \E d \in {1, 2} :
             /\ menv.st = "running"
             /\ menv' = [menv EXCEPT !.life = @ + d, !.cpu = @ + d, !.dated = menv.clocked]
             /\ Writes(Reported(menv'.life, menv'.cpu))
  <2>1. PICK d \in {1, 2} :
             /\ menv.st = "running"
             /\ menv' = [menv EXCEPT !.life = @ + d, !.cpu = @ + d, !.dated = menv.clocked]
             /\ Writes(Reported(menv'.life, menv'.cpu))
    BY <1>10
  <2>2. menv'.st = "running" /\ menv'.runs = menv.runs
    BY <2>1 DEF ShadowFields
  <2> QED BY <1>6, <1>7, <2>1, <2>2
<1>11. CASE menv.st = "running" /\ menv' = [menv EXCEPT !.st = "exiting"] /\ Writes([exit |-> TRUE])
  <2>1. menv'.st = "exiting" /\ menv'.runs = menv.runs
    BY <1>11 DEF ShadowFields
  <2> QED BY <1>2, <1>6, <1>11, <2>1
<1>12. CASE menv.st = "idle" /\ menv' = menv /\ Writes([exit |-> TRUE])
  BY <1>2, <1>6, <1>12
<1> QED BY <1>3, <1>4, <1>5, <1>8, <1>9, <1>10, <1>11, <1>12 DEF ScheddCommit

LEMMA StopsLogGrows ==
    ASSUME NEW log, IsSequence(log), NEW env, NEW env2, NEW e, StatusStep(env, env2, e),
           StopsLog(log), StopsShadow(env, log)
    PROVE  StopsLog(Append(log, e)) /\ StopsShadow(env2, Append(log, e))
PROOF
<1>a. PICK t : t = Append(log, e)
  OBVIOUS
<1>b. PICK n \in Nat : n = Len(log)
  BY AppendSequence
<1>1. /\ DOMAIN t = 1..n + 1 /\ t[n + 1] = e /\ \A i \in 1..n : t[i] = log[i]
      /\ IsSequence(t)
  BY <1>a, <1>b, AppendSequence
<1>2. /\ StatusIn(t) = StatusIn(log) \cup (IF "status" \in DOMAIN e THEN {n + 1} ELSE {})
      /\ StopsIn(t) = StopsIn(log) \cup (IF "status" \in DOMAIN e /\ e.status # 2 THEN {n + 1} ELSE {})
      /\ StatusIn(log) \subseteq 1..n /\ StopsIn(log) \subseteq StatusIn(log)
      /\ StartsIn(log) \subseteq 1..n
  BY <1>a, <1>b, StatusAfter
<1>3. StartsIn(t) = StartsIn(log) \cup (IF "nss" \in DOMAIN e THEN {n + 1} ELSE {})
  BY <1>a, <1>b, EntriesAfter
<1>4. Len(t) = n + 1
  BY <1>1, AppendSequence
<1>5. /\ \A k \in StatusIn(log) : DOMAIN log[k] = {"status"}
      /\ \A i \in StartsIn(log) :
           DOMAIN log[i] = {"nss"} /\ i - 1 \in StatusIn(log) /\ log[i - 1].status = 2
      /\ \A i, k \in StartsIn(log) : i < k => \E j \in StopsIn(log) : i < j /\ j < k
  BY DEF StopsLog, StartsMarked, StopsBetween
<1>6. /\ env.st \in {"idle", "marked"} =>
           \A i \in StartsIn(log) : \E j \in StopsIn(log) : i < j
      /\ env.st = "marked" => n \in StatusIn(log) /\ log[n].status = 2
  BY <1>b DEF StopsShadow
<1>7. \A i \in StartsIn(log) : i - 1 \in 1..n /\ t[i] = log[i] /\ t[i - 1] = log[i - 1]
  BY <1>1, <1>2, <1>5
<1>8. \A k \in StatusIn(log) : t[k] = log[k] /\ k < n + 1
  BY <1>1, <1>2
<1>9. \A i \in StartsIn(log) : i < n + 1
  BY <1>2
<1>10. CASE DOMAIN e = {"status"}
  <2>1. StartsIn(t) = StartsIn(log) /\ StatusIn(t) = StatusIn(log) \cup {n + 1}
    BY <1>2, <1>3, <1>10
  <2>2. \A k \in StatusIn(t) : DOMAIN t[k] = {"status"}
    BY <1>1, <1>5, <1>8, <1>10, <2>1
  <2>3. StartsMarked(t)
    BY <1>5, <1>7, <2>1 DEF StartsMarked
  <2>4. StopsBetween(t)
    BY <1>2, <1>5, <2>1 DEF StopsBetween
  <2>5. StopsShadow(env2, t)
    <3>1. CASE e.status = 2 /\ env.st = "idle" /\ env2.st = "marked"
      BY <1>1, <1>2, <1>4, <1>6, <2>1, <3>1 DEF StopsShadow
    <3>2. CASE e.status # 2 /\ env2.st = "idle"
      <4>1. n + 1 \in StopsIn(t)
        BY <1>2, <1>10, <3>2
      <4> QED BY <1>9, <2>1, <3>2, <4>1 DEF StopsShadow
    <3> QED BY <1>10, <3>1, <3>2 DEF StatusStep, Changes
  <2> QED BY <1>a, <2>2, <2>3, <2>4, <2>5 DEF StopsLog
<1>11. CASE DOMAIN e = {"nss"}
  <2>1. /\ StartsIn(t) = StartsIn(log) \cup {n + 1} /\ StatusIn(t) = StatusIn(log)
        /\ StopsIn(t) = StopsIn(log)
    BY <1>2, <1>3, <1>11
  <2>2. env.st = "marked" /\ env2.st = "running"
    BY <1>11 DEF StatusStep, Changes
  <2>3. \A k \in StatusIn(t) : DOMAIN t[k] = {"status"}
    BY <1>5, <1>8, <2>1
  <2>4. StartsMarked(t)
    <3>1. n + 1 - 1 = n /\ n \in StatusIn(t) /\ t[n].status = 2
      BY <1>6, <1>8, <2>1, <2>2
    <3>2. DOMAIN t[n + 1] = {"nss"} /\ n + 1 - 1 \in StatusIn(t) /\ t[n + 1 - 1].status = 2
      BY <1>1, <1>11, <3>1
    <3>3. \A i \in StartsIn(log) :
            DOMAIN t[i] = {"nss"} /\ i - 1 \in StatusIn(t) /\ t[i - 1].status = 2
      BY <1>5, <1>7, <2>1
    <3>4. \A i \in StartsIn(t) : i \in StartsIn(log) \/ i = n + 1
      BY <2>1
    <3> QED BY <3>2, <3>3, <3>4, SMTT(30) DEF StartsMarked
  <2>5. StopsBetween(t)
    <3> SUFFICES ASSUME NEW i \in StartsIn(t), NEW k \in StartsIn(t), i < k
                 PROVE  \E j \in StopsIn(t) : i < j /\ j < k
      BY DEF StopsBetween
    <3>1. i \in StartsIn(log)
      <4>1. k \in Int /\ k <= n + 1
        BY <1>2, <2>1
      <4> QED BY <2>1, <4>1
    <3>2. CASE k = n + 1
      <4>1. PICK j \in StopsIn(log) : i < j
        BY <1>6, <2>2, <3>1
      <4> QED BY <1>2, <1>8, <2>1, <3>2, <4>1
    <3> QED BY <1>5, <2>1, <3>1, <3>2
  <2>6. StopsShadow(env2, t)
    BY <2>2 DEF StopsShadow
  <2> QED BY <1>a, <2>3, <2>4, <2>5, <2>6 DEF StopsLog
<1>12. CASE ~Changes(e)
  <2>1. StartsIn(t) = StartsIn(log) /\ StatusIn(t) = StatusIn(log) /\ StopsIn(t) = StopsIn(log)
    BY <1>2, <1>3, <1>12 DEF Changes
  <2>2. env2.st # "marked" /\ (env2.st = "idle" => env.st = "idle")
    BY <1>12 DEF StatusStep, Changes
  <2>3. \A k \in StatusIn(t) : DOMAIN t[k] = {"status"}
    BY <1>5, <1>8, <2>1
  <2>4. StartsMarked(t) /\ StopsBetween(t)
    BY <1>5, <1>7, <2>1 DEF StartsMarked, StopsBetween
  <2>5. StopsShadow(env2, t)
    BY <1>6, <2>1, <2>2 DEF StopsShadow
  <2> QED BY <1>a, <2>3, <2>4, <2>5 DEF StopsLog
<1> QED BY <1>10, <1>11, <1>12 DEF StatusStep

LEMMA StatusParts ==
    ASSUME NEW log, LogInv(log), StopsLog(log)
    PROVE  /\ Len(log) \in Nat /\ DOMAIN log = 1..Len(log)
           /\ StartsIn(log) \subseteq 1..Len(log) /\ StatusIn(log) \subseteq 1..Len(log)
           /\ StopsIn(log) \subseteq StatusIn(log)
           /\ \A i \in StartsIn(log) : log[i].nss \in Nat /\ log[i].nss # 0
           /\ \A i \in StartsIn(log) : i \notin StatusIn(log)
PROOF
<1>1. IsSequence(log)
  BY DEF LogInv
<1>2. /\ StatusIn(log) \subseteq 1..Len(log) /\ StopsIn(log) \subseteq StatusIn(log)
  BY <1>1, StatusAfter
<1>3. \A i \in StartsIn(log) : log[i].nss # 0
  BY DEF LogInv, LogEntry, StartsIn
<1>4. \A i \in StartsIn(log) : i \notin StatusIn(log)
  BY DEF StopsLog, StatusIn, StartsIn
<1> QED BY <1>2, <1>3, <1>4, LogParts

LEMMA StatusGrows ==
    ASSUME NEW log, LogInv(log), StopsLog(log), NEW e, NEW n \in Nat, n <= Len(log), NEW x,
           StatusIs(log, n, x)
    PROVE  StatusIs(Append(log, e), n, x)
PROOF
<1>a. PICK t : t = Append(log, e)
  OBVIOUS
<1>1. /\ Len(log) \in Nat /\ StatusIn(log) \subseteq 1..Len(log)
  BY StatusParts
<1>2. /\ \A i \in 1..Len(log) : t[i] = log[i]
      /\ StatusIn(t) = StatusIn(log) \cup (IF "status" \in DOMAIN e THEN {Len(log) + 1} ELSE {})
  BY <1>a, AppendSequence, StatusAfter DEF LogInv
<1>3. \A k \in StatusIn(t) : k \in StatusIn(log) \/ n < k
  BY <1>1, <1>2
<1>4. \A k \in StatusIn(log) : t[k] = log[k] /\ k \in StatusIn(t) /\ k \in Int
  BY <1>1, <1>2
<1>5. \A k \in StatusIn(t) : k \in Int
  BY <1>1, <1>2
<1>6. CASE x = 1 /\ \A k \in StatusIn(log) : n < k
  BY <1>a, <1>3, <1>6 DEF StatusIs
<1>7. ASSUME NEW m \in StatusIn(log), m <= n, x = log[m].status,
             \A k \in StatusIn(log) : k <= n => k <= m
      PROVE  StatusIs(t, n, x)
  <2>1. \A k \in StatusIn(t) : k <= n => k <= m
    BY <1>3, <1>5, <1>7
  <2> QED BY <1>4, <1>7, <2>1 DEF StatusIs
<1> QED BY <1>a, <1>6, <1>7 DEF StatusIs

\* Entries that are no change of state leave the status alone.
LEMMA StatusRewinds ==
    ASSUME NEW log, LogInv(log), StopsLog(log), NEW a \in Nat, NEW b \in Nat, a <= b,
           NoChange(log, a, b), NEW x
    PROVE  StatusIs(log, a, x) <=> StatusIs(log, b, x)
PROOF
<1>1. StatusIn(log) \subseteq 1..Len(log) /\ Len(log) \in Nat
  BY StatusParts
<1>2. \A k \in StatusIn(log) : k \in Int /\ (k <= a \/ b < k)
  BY <1>1 DEF NoChange, Changes, StatusIn
<1> QED BY <1>2 DEF StatusIs

\* The status that a row has once it has read an entry: a run that is counted was
\* marked as running.
LEMMA StatusReads ==
    ASSUME NEW log, LogInv(log), StopsLog(log), NEW row, NEW at \in Nat, NEW kept, at < Len(log),
           RowInv(log, row, at, kept), RowStatus(log, row, at, kept),
           NEW r, r = RowRead(log, row, at)
    PROVE  StatusIs(log, at + 1, r.status)
PROOF
<1>a. PICK e : e = log[at + 1]
  OBVIOUS
<1>b. PICK n \in Nat : n = at + 1
  OBVIOUS
<1>1. /\ StatusIn(log) \subseteq 1..Len(log) /\ Len(log) \in Nat /\ DOMAIN log = 1..Len(log)
  BY StatusParts
<1>2. r.status = IF "status" \in DOMAIN e THEN e.status ELSE row.status
  BY <1>a DEF RowRead, Merged, RowInv
<1>3. n \in 1..Len(log)
  BY <1>1, <1>b
<1>4. CASE "status" \in DOMAIN e
  <2>1. n \in StatusIn(log)
    BY <1>a, <1>b, <1>1, <1>3, <1>4 DEF StatusIn
  <2> QED BY <1>a, <1>b, <1>2, <1>4, <2>1 DEF StatusIs
<1>5. CASE "status" \notin DOMAIN e
  <2>1. n \notin StatusIn(log)
    BY <1>a, <1>b, <1>5 DEF StatusIn
  <2>2. \A k \in StatusIn(log) : k \in Int /\ (k <= at <=> k <= n)
    BY <1>b, <1>1, <2>1
  <2>3. StatusIs(log, at, row.status) => StatusIs(log, n, row.status)
    BY <1>b, <2>2 DEF StatusIs
  <2> QED BY <1>b, <1>2, <1>5, <2>3 DEF RowStatus
<1> QED BY <1>4, <1>5

\* Where no stop was read since a run was counted, the job executes.
LEMMA StatusOfRun ==
    ASSUME NEW log, LogInv(log), StopsLog(log), NEW i \in StartsIn(log), NEW n \in Nat, i <= n,
           ~StopRead(log, i, n), NEW x, StatusIs(log, n, x)
    PROVE  x = 2
PROOF
<1>1. /\ StatusIn(log) \subseteq 1..Len(log) /\ Len(log) \in Nat
      /\ StartsIn(log) \subseteq 1..Len(log) /\ i \notin StatusIn(log)
  BY StatusParts
<1>2. i - 1 \in StatusIn(log) /\ log[i - 1].status = 2
  BY DEF StopsLog, StartsMarked
<1>3. i \in Int /\ i - 1 <= n
  BY <1>1
<1>4. PICK m \in StatusIn(log) : m <= n /\ x = log[m].status /\ i - 1 <= m
  BY <1>1, <1>2, <1>3 DEF StatusIs
<1>5. m \in Int /\ m # i
  BY <1>1
<1>6. CASE m = i - 1
  BY <1>2, <1>4, <1>6
<1>7. CASE i < m
  BY <1>4, <1>7 DEF StopRead, StopsIn
<1> QED BY <1>3, <1>4, <1>5, <1>6, <1>7

\* Then the row is of that run, unless it is about to count the next.
LEMMA RowOfRun ==
    ASSUME NEW log, LogInv(log), StopsLog(log), NEW i \in StartsIn(log), NEW at \in Nat, i <= at,
           ~StopRead(log, i, at), NEW row, NEW kept, RowInv(log, row, at, kept),
           at + 1 \notin StartsIn(log)
    PROVE  row.nss = log[i].nss
PROOF
<1>1. /\ StartsIn(log) \subseteq 1..Len(log) /\ Len(log) \in Nat
      /\ \A k \in StartsIn(log) : log[k].nss \in Nat /\ log[k].nss # 0
      /\ StatusIn(log) \subseteq 1..Len(log) /\ StopsIn(log) \subseteq StatusIn(log)
  BY StatusParts
<1>2. row.nss \in Nat /\ log[i].nss <= row.nss
  BY DEF RowInv, RowRun
<1>3. PICK k \in StartsIn(log) : log[k].nss = row.nss /\ k <= at
  <2>1. row.nss # 0
    BY <1>1, <1>2
  <2> QED BY <2>1 DEF RowInv, RowRun
<1>4. ~(k < i)
  BY <1>1, <1>2, <1>3 DEF LogInv, StartsInOrder
<1>5. ~(i < k)
  <2> SUFFICES ASSUME i < k PROVE FALSE
    OBVIOUS
  <2>1. PICK j \in StopsIn(log) : i < j /\ j < k
    BY DEF StopsLog, StopsBetween
  <2>2. j <= at
    BY <1>1, <1>3, <2>1
  <2> QED BY <2>1, <2>2 DEF StopRead
<1>6. i = k
  BY <1>1, <1>4, <1>5
<1> QED BY <1>3, <1>6

LEMMA RunReadGrows ==
    ASSUME NEW log, LogInv(log), NEW e, NEW env, NEW env2, env.runs \in Nat,
           StatusStep(env, env2, e), NEW at, NEW r, RunRead(env.runs, log, at, r)
    PROVE  RunRead(env2.runs, Append(log, e), at, r)
PROOF
<1>a. PICK t : t = Append(log, e)
  OBVIOUS
<1>1. /\ Len(log) \in Nat /\ StartsIn(log) \subseteq 1..Len(log)
  BY LogParts
<1>2. /\ t[Len(log) + 1] = e /\ \A i \in 1..Len(log) : t[i] = log[i]
      /\ StartsIn(t) = StartsIn(log) \cup (IF "nss" \in DOMAIN e THEN {Len(log) + 1} ELSE {})
  BY <1>a, AppendSequence, EntriesAfter DEF LogInv
<1>3. /\ "nss" \in DOMAIN e => e.nss = env.runs + 1
      /\ env2.runs \in Nat /\ env.runs <= env2.runs
  BY DEF StatusStep, Changes
<1>4. r \in Int /\ r < env.runs /\ \A i \in StartsIn(log) : at < i => r + 1 < log[i].nss
  BY DEF RunRead
<1>5. ASSUME NEW i \in StartsIn(t), at < i
      PROVE  r + 1 < t[i].nss
  <2>1. CASE i \in StartsIn(log)
    BY <1>1, <1>2, <1>4, <1>5, <2>1
  <2>2. CASE i = Len(log) + 1 /\ "nss" \in DOMAIN e
    BY <1>2, <1>3, <1>4, <2>2
  <2> QED BY <1>2, <2>1, <2>2
<1>6. r \in Int /\ r < env2.runs
  BY <1>3, <1>4
<1>7. RunRead(env2.runs, t, at, r)
  BY <1>5, <1>6 DEF RunRead
<1> QED BY <1>a, <1>7

\* Reading on, and going back over no change of state.
LEMMA RunReadMoves ==
    ASSUME NEW log, LogInv(log), NEW runs, NEW at \in Nat, NEW at2 \in Nat, NEW r,
           at <= at2 \/ NoChange(log, at2, at), RunRead(runs, log, at, r)
    PROVE  RunRead(runs, log, at2, r)
PROOF
<1>1. /\ Len(log) \in Nat /\ StartsIn(log) \subseteq 1..Len(log)
  BY LogParts
<1>2. \A i \in StartsIn(log) : at2 < i => at < i
  BY <1>1 DEF NoChange, Changes, StartsIn
<1> QED BY <1>2 DEF RunRead

\* The run of a row that was read.
LEMMA RowRunRead ==
    ASSUME NEW log, LogInv(log), NEW env, ShadowInv(env, log), NEW row, NEW at \in Nat, NEW kept,
           RowInv(log, row, at, kept), row.nss # 0, kept < at
    PROVE  RunRead(env.runs, log, at, row.nss - 1)
PROOF
<1>1. /\ Len(log) \in Nat /\ StartsIn(log) \subseteq 1..Len(log)
      /\ \A i \in StartsIn(log) : log[i].nss \in Nat
  BY LogParts
<1>2. row.nss \in Nat /\ env.runs \in Nat /\ row.nss <= env.runs
  BY RowOfRuns
<1>3. PICK k \in StartsIn(log) : log[k].nss = row.nss /\ k <= at
  BY DEF RowInv, RowRun
<1>4. \A i \in StartsIn(log) : at < i => row.nss < log[i].nss
  BY <1>1, <1>3 DEF LogInv, StartsInOrder
<1> QED BY <1>1, <1>2, <1>4 DEF RunRead

LEMMA NoteOfChange ==
    ASSUME NEW e, DOMAIN e = {"status"} \/ DOMAIN e = {"nss"}
    PROVE  Note(e) = 4
PROOF
<1>1. TriggerFor("status") = 4 /\ TriggerFor("nss") = 4
  BY DEF TriggerFor
<1>2. \A a \in DOMAIN e : TriggerFor(a) = 4
  BY <1>1
<1>3. \E a \in DOMAIN e : TriggerFor(a) = 4
  BY <1>1
<1>4. \A t \in 0..6 :
        (\E a \in DOMAIN e : TriggerFor(a) = t) /\ (\A a \in DOMAIN e : TriggerFor(a) <= t) <=> t = 4
  BY <1>2, <1>3
<1>5. \E t \in 0..6 : t = 4
  OBVIOUS
<1> QED BY <1>4, <1>5 DEF Note

\* What a sample of the row says of its run, and when there must be one: at a
\* change of state, of a run that has not ended and executes or was observed.
SaysOfRun(b, row, trig, prev, ended) ==
    \/ /\ b[1] = NoSample
       /\ ~(/\ trig = 4 /\ row.nss # 0 /\ ~(row.nss - 1 <= ended)
            /\ row.status = 2 \/ prev # NoObservation)
    \/ /\ b[1] # NoSample /\ b[1].run = row.nss - 1
       /\ row.nss # 0 /\ ~(row.nss - 1 <= ended)
       /\ \/ row.status # 2 /\ b[1].trigger = Terminal /\ b[2].ended = row.nss - 1
          \/ /\ row.status = 2 /\ b[1].trigger # Terminal
             /\ b[2].prev # NoObservation /\ b[2].ended = ended

LEMMA BuildEnds ==
    ASSUME NEW log, LogInv(log), NEW row, NEW at \in Nat, NEW kept, RowInv(log, row, at, kept),
           ObservedInv(log, mprev, row), NEW trig, NEW soon
    PROVE  SaysOfRun(Build(row, trig, soon), row, trig, mprev, mended)
PROOF
<1>a. PICK o : o = Observe(row)
  OBVIOUS
<1>b. PICK t : t = SampleTrigger(row, trig)
  OBVIOUS
<1>c. PICK rate : rate = DeriveRate(o)
  OBVIOUS
<1>d. PICK pos : pos = Position
  OBVIOUS
<1>e. PICK from : from = IF rate THEN Sources(o) ELSE {}
  OBVIOUS
<1>f. PICK prev : prev = IF t = Terminal THEN NoObservation ELSE o
  OBVIOUS
<1>g. PICK ended : ended = IF t = Terminal THEN o.run ELSE mended
  OBVIOUS
<1>h. PICK b : b = Build(row, trig, soon)
  OBVIOUS
<1>1. IF t = 0 \/ Throttled(row, t, soon)
      THEN b = <<NoSample, NoUpdate>>
      ELSE b = <<[pos |-> pos, run |-> o.run, trigger |-> t, rate |-> rate, from |-> from],
                 [prev |-> prev, ended |-> ended]>>
  BY <1>a, <1>b, <1>c, <1>d, <1>e, <1>f, <1>g, <1>h DEF Build
<1>2. CASE t = 0 \/ Throttled(row, t, soon)
  <2>1. b[1] = NoSample
    BY <1>1, <1>2
  <2>2. ASSUME trig = 4, row.nss # 0, ~(row.nss - 1 <= mended), row.status = 2 \/ mprev # NoObservation
        PROVE  FALSE
    <3>1. t = IF row.status = 2 THEN 4 ELSE 6
      BY <1>b, <2>2 DEF SampleTrigger, RunInstanceOf, IsExecuting, Terminal
    <3>2. t # 0 /\ ~(t <= 3)
      BY <3>1
    <3> QED BY <1>2, <3>2 DEF Throttled
  <2> QED BY <1>h, <2>1, <2>2 DEF SaysOfRun
<1>3. CASE ~(t = 0 \/ Throttled(row, t, soon))
  <2>1. PICK s : s = [pos |-> pos, run |-> o.run, trigger |-> t, rate |-> rate, from |-> from]
    OBVIOUS
  <2>2. PICK u : u = [prev |-> prev, ended |-> ended]
    OBVIOUS
  <2>3. b[1] = s /\ b[2] = u
    BY <1>1, <1>3, <2>1, <2>2
  <2>4. s.run = o.run /\ s.trigger = t /\ DOMAIN s = {"pos", "run", "trigger", "rate", "from"}
    BY <2>1
  <2>5. u.prev = prev /\ u.ended = ended
    BY <2>2
  <2>6. s # NoSample
    <3>1. DOMAIN NoSample = {"none"}
      BY DEF NoSample
    <3>2. "none" \notin DOMAIN s
      BY <2>4
    <3> QED BY <3>1, <3>2
  <2>7. row.nss # 0 /\ ~(row.nss - 1 <= mended)
    BY <1>b, <1>3 DEF SampleTrigger, RunInstanceOf
  <2>8. o.run = row.nss - 1 /\ o # NoObservation
    BY <1>a, <2>7, Observes DEF PrevInv
  <2>9. CASE row.status = 2
    <3>1. t # Terminal
      BY <1>b, <2>7, <2>9 DEF SampleTrigger, RunInstanceOf, IsExecuting, Terminal
    <3> QED BY <1>f, <1>g, <1>h, <2>3, <2>4, <2>5, <2>6, <2>7, <2>8, <2>9, <3>1 DEF SaysOfRun
  <2>10. CASE row.status # 2
    <3>1. t = Terminal
      BY <1>b, <1>3, <2>7, <2>10 DEF SampleTrigger, RunInstanceOf, IsExecuting
    <3> QED BY <1>g, <1>h, <2>3, <2>4, <2>5, <2>6, <2>7, <2>8, <2>10, <3>1 DEF SaysOfRun
  <2> QED BY <2>9, <2>10
<1> QED BY <1>2, <1>3

\* The tailer from sync to sync2 reads one entry, of which b was built.
Reads(sync, sync2, b) ==
    /\ sync.pc = "read" /\ sync2.at = sync.at + 1
    /\ sync2.sample = b[1] /\ sync2.update = b[2]
    /\ sync2.pc = IF b[1] = NoSample THEN "read" ELSE "flush"

LEMMA RunFollowedReads ==
    ASSUME NEW log, LogInv(log), StopsLog(log), NEW row, NEW at \in Nat, NEW kept, at < Len(log),
           RowInv(log, row, at, kept), RowStatus(log, row, at, kept),
           NEW r, r = RowRead(log, row, at), NEW b, NEW prev, NEW ended,
           SaysOfRun(b, r, Note(log[at + 1]), prev, ended),
           NEW sync, NEW sync2, sync.at = at, Reads(sync, sync2, b),
           NEW mark, Changes(log[at + 1]) /\ b[1] # NoSample => After(b[1].pos, mark),
           NEW arch, NEW lost, NEW runs, RunRead(runs, log, at, ended),
           \A x \in DOMAIN arch : RunRead(runs, log, at, arch[x].run),
           \A x \in lost : RunRead(runs, log, at, x),
           NEW i \in StartsIn(log), i <= at + 1,
           i <= at => RunFollowed(log, i, sync, prev, ended, mark, arch, lost)
    PROVE  RunFollowed(log, i, sync2, prev, ended, mark, arch, lost)
PROOF
<1>a. PICK e : e = log[at + 1]
  OBVIOUS
<1>b. PICK n \in Nat : n = at + 1
  OBVIOUS
<1>1. /\ Len(log) \in Nat /\ DOMAIN log = 1..Len(log)
      /\ StartsIn(log) \subseteq 1..Len(log) /\ StatusIn(log) \subseteq 1..Len(log)
      /\ StopsIn(log) \subseteq StatusIn(log)
      /\ \A k \in StartsIn(log) : log[k].nss \in Nat /\ log[k].nss # 0
  BY StatusParts
<1>c. PICK q \in Nat : q = log[i].nss - 1
  BY <1>1
<1>2. /\ r.nss \in Nat /\ ("nss" \in DOMAIN e => r.nss = e.nss)
      /\ ("nss" \notin DOMAIN e => r.nss = row.nss)
  BY <1>a, RowReadIs
<1>3. StatusIs(log, n, r.status)
  BY <1>b, StatusReads
<1>4. /\ ended \in Int /\ \A k \in StartsIn(log) : at < k => ended + 1 < log[k].nss
  BY DEF RunRead
<1>5. \/ /\ b[1] = NoSample
         /\ ~(/\ Note(e) = 4 /\ r.nss # 0 /\ ~(r.nss - 1 <= ended)
              /\ r.status = 2 \/ prev # NoObservation)
      \/ /\ b[1] # NoSample /\ b[1].run = r.nss - 1 /\ ~(r.nss - 1 <= ended)
         /\ \/ r.status # 2 /\ b[1].trigger = Terminal /\ b[2].ended = r.nss - 1
            \/ /\ r.status = 2 /\ b[1].trigger # Terminal
               /\ b[2].prev # NoObservation /\ b[2].ended = ended
  BY <1>a DEF SaysOfRun
<1>6. /\ sync.pc = "read" /\ sync2.at = n
      /\ sync2.sample = b[1] /\ sync2.update = b[2]
      /\ (b[1] = NoSample => sync2.pc = "read") /\ (b[1] # NoSample => sync2.pc = "flush")
  BY <1>b DEF Reads
<1>7. i \in Int /\ (i <= at \/ i = n)
  BY <1>1, <1>b
<1>8. CASE i = n
  <2>1. ~StopRead(log, i, n)
    BY <1>1, <1>8 DEF StopRead
  <2>2. DOMAIN e = {"nss"} /\ Note(e) = 4
    <3>1. DOMAIN e = {"nss"}
      BY <1>a, <1>b, <1>8 DEF StopsLog, StartsMarked
    <3> QED BY <3>1, NoteOfChange
  <2>3. r.status = 2
    BY <1>3, <1>8, <2>1, StatusOfRun
  <2>4. r.nss = q + 1 /\ ended < q
    BY <1>a, <1>b, <1>c, <1>1, <1>2, <1>4, <1>8, <2>2
  <2>5. /\ b[1] # NoSample /\ b[1].trigger # Terminal
        /\ b[2].prev # NoObservation /\ b[2].ended = ended
    BY <1>4, <1>5, <2>2, <2>3, <2>4
  <2>6. NoEndpoint(arch, lost, q)
    <3>1. \A x \in DOMAIN arch : arch[x].run \in Int /\ arch[x].run + 1 < log[i].nss
      BY <1>b, <1>8 DEF RunRead
    <3>2. \A x \in DOMAIN arch : arch[x].run # q
      BY <1>c, <1>1, <3>1
    <3>3. \A x \in lost : x \in Int /\ x + 1 < log[i].nss
      BY <1>b, <1>8 DEF RunRead
    <3>4. q \notin lost
      BY <1>c, <1>1, <3>3
    <3> QED BY <3>2, <3>4 DEF EndpointsOf, NoEndpoint
  <2>7. RunGoesOn(sync2, prev, ended, arch, lost, q)
    BY <1>6, <2>4, <2>5, <2>6 DEF RunGoesOn, PrevAfter, EndedAt, EndpointComes
  <2> QED BY <1>c, <1>6, <1>8, <2>1, <2>7 DEF RunFollowed
<1>9. CASE i <= at /\ StopRead(log, i, at)
  <2>1. q <= ended /\ OneEndpoint(arch, lost, q)
    BY <1>c, <1>6, <1>9 DEF RunFollowed, RunEnded, EndedAt, EndpointComes
  <2>2. StopRead(log, i, n)
    <3>1. PICK k \in StopsIn(log) : i < k /\ k <= at
      BY <1>9 DEF StopRead
    <3>2. k <= n
      BY <1>b, <1>1, <3>1
    <3> QED BY <3>1, <3>2 DEF StopRead
  <2>3. ~EndpointComes(sync2, q)
    BY <1>2, <1>4, <1>5, <1>6, <2>1 DEF EndpointComes
  <2>4. q <= EndedAt(sync2, ended)
    BY <1>2, <1>4, <1>5, <1>6, <2>1 DEF EndedAt
  <2>5. RunEnded(sync2, ended, mark, arch, lost, q)
    BY <2>1, <2>3, <2>4 DEF RunEnded
  <2> QED BY <1>c, <1>6, <2>2, <2>5 DEF RunFollowed
<1>10. CASE i <= at /\ ~StopRead(log, i, at)
  <2>1. prev # NoObservation /\ ended < q /\ NoEndpoint(arch, lost, q)
    BY <1>c, <1>6, <1>10 DEF RunFollowed, RunGoesOn, PrevAfter, EndedAt
  <2>2. n \notin StartsIn(log)
    <3> SUFFICES ASSUME n \in StartsIn(log) PROVE FALSE
      OBVIOUS
    <3>1. i < n
      BY <1>b, <1>7, <1>10
    <3>2. PICK j \in StopsIn(log) : i < j /\ j < n
      BY <3>1 DEF StopsLog, StopsBetween
    <3>3. j <= at
      BY <1>b, <1>1, <3>2
    <3> QED BY <1>10, <3>2, <3>3 DEF StopRead
  <2>3. r.nss = q + 1 /\ r.nss # 0
    <3>1. row.nss = log[i].nss
      BY <1>b, <1>10, <2>2, RowOfRun
    <3>2. "nss" \notin DOMAIN e
      BY <1>a, <1>b, <1>1, <2>2 DEF StartsIn
    <3> QED BY <1>c, <1>1, <1>2, <3>1, <3>2
  <2>4. CASE StopRead(log, i, n)
    <3>1. n \in StopsIn(log)
      <4>1. PICK k \in StopsIn(log) : i < k /\ k <= n
        BY <2>4 DEF StopRead
      <4>2. ~(k <= at)
        BY <1>10, <4>1 DEF StopRead
      <4>3. k = n
        BY <1>b, <1>1, <4>1, <4>2
      <4> QED BY <4>1, <4>3
    <3>2. DOMAIN e = {"status"} /\ e.status # 2
      BY <1>a, <1>b, <3>1 DEF StopsLog, StopsIn
    <3>3. r.status # 2
      <4>1. r.status = IF "status" \in DOMAIN e THEN e.status ELSE row.status
        BY <1>a DEF RowRead, Merged, RowInv
      <4> QED BY <3>2, <4>1
    <3>4. Note(e) = 4
      BY <3>2, NoteOfChange
    <3>5. b[1] # NoSample /\ b[1].run = q /\ b[1].trigger = Terminal /\ b[2].ended = q
      BY <1>4, <1>5, <2>1, <2>3, <3>3, <3>4
    <3>6. After(b[1].pos, mark)
      BY <1>a, <3>2, <3>5 DEF Changes
    <3>7. RunEnded(sync2, ended, mark, arch, lost, q)
      BY <1>6, <2>1, <3>5, <3>6 DEF RunEnded, EndedAt, EndpointComes
    <3> QED BY <1>c, <1>6, <2>4, <3>7 DEF RunFollowed
  <2>5. CASE ~StopRead(log, i, n)
    <3>1. r.status = 2
      BY <1>3, <1>b, <1>10, <1>7, <2>5, StatusOfRun
    <3>2. RunGoesOn(sync2, prev, ended, arch, lost, q)
      BY <1>5, <1>6, <2>1, <3>1 DEF RunGoesOn, PrevAfter, EndedAt, EndpointComes
    <3> QED BY <1>c, <1>6, <2>5, <3>2 DEF RunFollowed
  <2> QED BY <2>4, <2>5
<1> QED BY <1>7, <1>8, <1>9, <1>10

LEMMA EndpointInitInv ==
    ASSUME MetricsInit
    PROVE  EndpointInv
PROOF
<1>1. /\ mlog = <<>> /\ mrow = NoJobRow /\ mended = -1 /\ march = <<>> /\ mlife = 0
      /\ msync = [at |-> 0, saved |-> 0, gen |-> 0, base |-> 0, pc |-> "read",
                  sample |-> NoSample, update |-> NoUpdate]
      /\ menv = [st |-> "idle", runs |-> 0, life |-> 0, cpu |-> 0, clocked |-> FALSE,
                 bare |-> FALSE, dated |-> FALSE]
      /\ mmark = [seq |-> 0, offset |-> 0] /\ mstored = mmark
      /\ mlapse = [marks |-> {}, ends |-> {}]
  BY DEF MetricsInit, MetricsStart, NoMark
<1>2. /\ DOMAIN mlog = {} /\ Len(mlog) = 0 /\ DOMAIN march = {}
      /\ msync.at = 0 /\ msync.base = 0 /\ msync.pc = "read" /\ mmark.offset = 0
      /\ msync.gen = 0 /\ mstored.seq = 0 /\ mstored.offset = 0 /\ mlapse.ends = {}
      /\ menv.st = "idle" /\ menv.runs = 0 /\ mrow.status = 1
  BY <1>1 DEF NoJobRow
<1>3. StartsIn(mlog) = {} /\ StatusIn(mlog) = {}
  BY <1>2 DEF StartsIn, StatusIn
<1>4. StopsLog(mlog) /\ StopsShadow(menv, mlog)
  BY <1>2, <1>3 DEF StopsLog, StartsMarked, StopsBetween, StopsShadow
<1>5. RowStatus(mlog, mrow, msync.at, msync.saved)
  BY <1>2, <1>3 DEF RowStatus, StatusIs
<1>6. RereadInv(mlog, msync, mmark) /\ StoredInv(mlog, msync, mstored)
  BY <1>2 DEF RereadInv, StoredInv, NoChange
<1>7. UnreadInv(menv, mlog, msync, mended, march, mlapse.ends)
  BY <1>1, <1>2, <1>3 DEF UnreadInv, RunRead
<1>8. FollowedInv(mlog, msync, mprev, mended, mmark, march, mlapse.ends, mlife)
  BY <1>3 DEF FollowedInv
<1> QED BY <1>1, <1>4, <1>5, <1>6, <1>7, <1>8, MetricsInitInv DEF EndpointInv

\* What follows a run looks at nothing beyond what was read.
LEMMA RunFollowedGrows ==
    ASSUME NEW log, LogInv(log), NEW e, NEW i \in StartsIn(log), NEW sync, NEW prev, NEW ended,
           NEW mark, NEW arch, NEW lost, sync.at \in Nat, sync.at <= Len(log),
           RunFollowed(log, i, sync, prev, ended, mark, arch, lost)
    PROVE  RunFollowed(Append(log, e), i, sync, prev, ended, mark, arch, lost)
PROOF
<1>a. PICK t : t = Append(log, e)
  OBVIOUS
<1>b. IsSequence(log)
  BY DEF LogInv
<1>1. /\ Len(log) \in Nat /\ StartsIn(log) \subseteq 1..Len(log)
      /\ StopsIn(log) \subseteq StatusIn(log) /\ StatusIn(log) \subseteq 1..Len(log)
  BY <1>b, LogParts, StatusAfter
<1>c. \A k \in 1..Len(log) : t[k] = log[k]
  BY <1>a, <1>b, AppendSequence
<1>d. StopsIn(t) =
        StopsIn(log) \cup (IF "status" \in DOMAIN e /\ e.status # 2 THEN {Len(log) + 1} ELSE {})
  BY <1>a, <1>b, StatusAfter, Zenon
<1>2. /\ \A k \in 1..Len(log) : t[k] = log[k]
      /\ \A k \in StopsIn(t) : k \in StopsIn(log) \/ k = Len(log) + 1
      /\ StopsIn(log) \subseteq StopsIn(t)
  BY <1>c, <1>d
<1>3. StopRead(t, i, sync.at) <=> StopRead(log, i, sync.at)
  BY <1>1, <1>2 DEF StopRead
<1>4. t[i] = log[i]
  BY <1>1, <1>2
<1> QED BY <1>a, <1>3, <1>4 DEF RunFollowed

LEMMA ScheddCommitFollows ==
    ASSUME SamplerFaults = {}, EndpointInv, ScheddCommit
    PROVE  EndpointInv'
PROOF
<1>1. /\ MetricsInv /\ MetricsInv'
      /\ LogInv(mlog) /\ ShadowInv(menv, mlog) /\ TailerInv(mlog, msync)
      /\ DOMAIN menv = ShadowFields /\ ArchivedInv(march, mmark, mstored, mlapse.marks, msync)
      /\ StopsLog(mlog) /\ StopsShadow(menv, mlog)
      /\ RowStatus(mlog, mrow, msync.at, msync.saved) /\ RereadInv(mlog, msync, mmark)
      /\ StoredInv(mlog, msync, mstored)
      /\ UnreadInv(menv, mlog, msync, mended, march, mlapse.ends) /\ mlife \in Nat
      /\ FollowedInv(mlog, msync, mprev, mended, mmark, march, mlapse.ends, mlife)
  BY ScheddCommitKeeps DEF EndpointInv, MetricsInv
<1>2. /\ mrow' = mrow /\ msync' = msync /\ mprev' = mprev /\ mended' = mended /\ mmark' = mmark
      /\ march' = march /\ mlife' = mlife /\ mstored' = mstored /\ mlapse' = mlapse
      /\ msync.pc = "read"
  BY DEF ScheddCommit
<1>3. PICK e : mlog' = Append(mlog, e) /\ StatusStep(menv, menv', e)
  BY <1>1, ScheddMarks
<1>a. PICK t : t = mlog'
  OBVIOUS
<1>4. /\ msync.at \in Nat /\ msync.at <= Len(mlog) /\ Len(mlog) \in Nat /\ msync.base \in Int
      /\ DOMAIN mlog = 1..Len(mlog) /\ menv.runs \in Nat /\ mmark.offset \in Int
      /\ StartsIn(mlog) \subseteq 1..Len(mlog)
  BY <1>1, LogParts DEF TailerInv, ShadowInv, ArchivedInv
<1>5. /\ DOMAIN t = 1..Len(mlog) + 1 /\ IsSequence(t) /\ \A i \in 1..Len(mlog) : t[i] = mlog[i]
      /\ StartsIn(t) = StartsIn(mlog) \cup (IF "nss" \in DOMAIN e THEN {Len(mlog) + 1} ELSE {})
  BY <1>1, <1>3, <1>a, AppendSequence, EntriesAfter DEF LogInv
<1>6. Len(t) = Len(mlog) + 1
  BY <1>4, <1>5, AppendSequence
<1>7. StopsLog(t) /\ StopsShadow(menv', t)
  BY <1>1, <1>3, <1>a, StopsLogGrows DEF LogInv
<1>8. RowStatus(t, mrow, msync.at, msync.saved)
  <2>1. ASSUME NEW n \in Nat, n <= Len(mlog), NEW x, StatusIs(mlog, n, x)
        PROVE  StatusIs(t, n, x)
    BY <1>1, <1>3, <1>a, <2>1, StatusGrows
  <2>2. CASE StatusIs(mlog, msync.at, mrow.status)
    BY <1>4, <2>1, <2>2 DEF RowStatus
  <2>3. CASE msync.saved = msync.at /\ msync.at < Len(mlog) /\ StatusIs(mlog, msync.at + 1, mrow.status)
    <3>1. msync.at + 1 \in Nat /\ msync.at + 1 <= Len(mlog) /\ msync.at < Len(t)
      BY <1>4, <1>6, <2>3
    <3>2. StatusIs(t, msync.at + 1, mrow.status)
      BY <2>1, <2>3, <3>1
    <3> QED BY <2>3, <3>1, <3>2 DEF RowStatus
  <2> QED BY <1>1, <2>2, <2>3 DEF RowStatus
<1>9. ASSUME NEW mark, mark.offset \in Int, RereadInv(mlog, msync, mark)
      PROVE  RereadInv(t, msync, mark)
  <2> SUFFICES ASSUME mark.seq = msync.gen
               PROVE  /\ mark.offset + msync.base <= Len(t)
                      /\ NoChange(t, msync.at, mark.offset + msync.base)
    BY DEF RereadInv
  <2>1. PICK m \in Int : m = mark.offset + msync.base
    BY <1>4, <1>9
  <2>2. m <= Len(mlog) /\ NoChange(mlog, msync.at, m)
    BY <1>9, <2>1 DEF RereadInv
  <2>3. NoChange(t, msync.at, m)
    BY <1>4, <1>5, <2>2 DEF NoChange
  <2> QED BY <1>4, <1>6, <2>1, <2>2, <2>3
<1>12. RereadInv(t, msync, mmark) /\ StoredInv(t, msync, mstored)
  BY <1>1, <1>4, <1>9 DEF StoredInv
<1>10. UnreadInv(menv', t, msync, mended, march, mlapse.ends)
  <2>1. ASSUME NEW r, RunRead(menv.runs, mlog, msync.at, r)
        PROVE  RunRead(menv'.runs, t, msync.at, r)
    BY <1>1, <1>3, <1>4, <1>a, <2>1, RunReadGrows
  <2> QED BY <1>1, <1>2, <2>1 DEF UnreadInv
<1>11. FollowedInv(t, msync, mprev, mended, mmark, march, mlapse.ends, mlife)
  <2> SUFFICES ASSUME NEW i \in StartsIn(t), mlife < i, i <= msync.at
               PROVE  RunFollowed(t, i, msync, mprev, mended, mmark, march, mlapse.ends)
    BY DEF FollowedInv
  <2>1. i \in StartsIn(mlog)
    BY <1>4, <1>5
  <2>2. RunFollowed(mlog, i, msync, mprev, mended, mmark, march, mlapse.ends)
    BY <1>1, <2>1 DEF FollowedInv
  <2> QED BY <1>1, <1>3, <1>4, <1>a, <2>1, <2>2, RunFollowedGrows
<1> QED BY <1>1, <1>2, <1>a, <1>7, <1>8, <1>10, <1>11, <1>12 DEF EndpointInv

\* Going back over entries that are no change of state.
Rewinds(log, sync, sync2) ==
    /\ sync2.at \in Nat /\ sync2.at <= sync.at /\ NoChange(log, sync2.at, sync.at)
    /\ sync2.gen = sync.gen /\ sync2.base = sync.base /\ sync2.pc = "read"

LEMMA RereadRewinds ==
    ASSUME NEW log, LogInv(log), NEW sync, NEW sync2, TailerInv(log, sync),
           Rewinds(log, sync, sync2), NEW mark, mark.offset \in Int, RereadInv(log, sync, mark)
    PROVE  RereadInv(log, sync2, mark)
PROOF
<1>1. /\ DOMAIN log = 1..Len(log) /\ Len(log) \in Nat /\ sync.at \in Nat /\ sync2.at \in Nat
      /\ sync.base \in Int /\ sync2.base = sync.base /\ sync2.gen = sync.gen
      /\ NoChange(log, sync2.at, sync.at)
  BY LogParts DEF TailerInv, Rewinds
<1> SUFFICES ASSUME mark.seq = sync.gen
             PROVE  /\ mark.offset + sync.base <= Len(log)
                    /\ NoChange(log, sync2.at, mark.offset + sync.base)
  BY <1>1 DEF RereadInv
<1>2. PICK m \in Int : m = mark.offset + sync.base
  BY <1>1
<1>3. m <= Len(log) /\ NoChange(log, sync.at, m)
  BY <1>2 DEF RereadInv
<1>4. NoChange(log, sync2.at, m)
  <2> SUFFICES ASSUME NEW k \in DOMAIN log, sync2.at < k, k <= m
               PROVE  ~Changes(log[k])
    BY DEF NoChange
  <2>1. CASE k <= sync.at
    BY <1>1, <2>1 DEF NoChange
  <2>2. CASE sync.at < k
    BY <1>3, <2>2 DEF NoChange
  <2> QED BY <1>1, <2>1, <2>2
<1> QED BY <1>2, <1>3, <1>4

LEMMA FollowedRewinds ==
    ASSUME NEW log, LogInv(log), NEW sync, NEW sync2, TailerInv(log, sync),
           Rewinds(log, sync, sync2), sync.pc = "read", NEW prev, NEW ended, NEW mark, NEW arch,
           NEW lost, NEW life, FollowedInv(log, sync, prev, ended, mark, arch, lost, life)
    PROVE  FollowedInv(log, sync2, prev, ended, mark, arch, lost, life)
PROOF
<1> SUFFICES ASSUME NEW i \in StartsIn(log), life < i, i <= sync2.at
             PROVE  RunFollowed(log, i, sync2, prev, ended, mark, arch, lost)
  BY DEF FollowedInv
<1>1. /\ DOMAIN log = 1..Len(log) /\ Len(log) \in Nat /\ sync.at \in Nat /\ sync2.at \in Nat
      /\ StartsIn(log) \subseteq 1..Len(log) /\ sync2.pc = "read" /\ sync2.at <= sync.at
      /\ NoChange(log, sync2.at, sync.at)
  BY LogParts DEF TailerInv, Rewinds
<1>2. RunFollowed(log, i, sync, prev, ended, mark, arch, lost)
  BY <1>1 DEF FollowedInv
<1>3. StopRead(log, i, sync2.at) <=> StopRead(log, i, sync.at)
  <2>1. \A k \in StopsIn(log) : k \in Int /\ (k <= sync2.at \/ sync.at < k)
    BY <1>1 DEF NoChange, Changes, StopsIn, StatusIn
  <2> QED BY <1>1, <2>1 DEF StopRead
<1>4. /\ RunEnded(sync, ended, mark, arch, lost, log[i].nss - 1) =>
           RunEnded(sync2, ended, mark, arch, lost, log[i].nss - 1)
      /\ RunGoesOn(sync, prev, ended, arch, lost, log[i].nss - 1) =>
           RunGoesOn(sync2, prev, ended, arch, lost, log[i].nss - 1)
  BY <1>1 DEF RunEnded, RunGoesOn, PrevAfter, EndedAt, EndpointComes
<1> QED BY <1>2, <1>3, <1>4 DEF RunFollowed

LEMMA CommitAllFollows ==
    ASSUME SamplerFaults = {}, EndpointInv, CommitAll
    PROVE  EndpointInv'
PROOF
<1>1. /\ MetricsInv /\ MetricsInv'
      /\ LogInv(mlog) /\ ShadowInv(menv, mlog) /\ TailerInv(mlog, msync)
      /\ DOMAIN msync = TailerFields /\ ArchivedInv(march, mmark, mstored, mlapse.marks, msync)
      /\ RowInv(mlog, mrow, msync.at, msync.saved) /\ ObservedInv(mlog, mprev, mrow)
      /\ StopsLog(mlog) /\ StopsShadow(menv, mlog)
      /\ RowStatus(mlog, mrow, msync.at, msync.saved) /\ RereadInv(mlog, msync, mmark)
      /\ StoredInv(mlog, msync, mstored)
      /\ UnreadInv(menv, mlog, msync, mended, march, mlapse.ends) /\ mlife \in Nat
      /\ FollowedInv(mlog, msync, mprev, mended, mmark, march, mlapse.ends, mlife)
  BY CommitAllKeeps DEF EndpointInv, MetricsInv
<1>2. /\ msync.pc = "read" /\ msync.at < Len(mlog) /\ menv' = menv /\ mlog' = mlog
      /\ mmark' = mmark /\ march' = march /\ mlife' = mlife
      /\ mstored' = mstored /\ mlapse' = mlapse
  BY DEF CommitAll
<1>3. /\ msync.at \in Nat /\ msync.saved \in Nat /\ msync.saved <= msync.at
      /\ msync.gen \in Nat /\ msync.base \in Int /\ Len(mlog) \in Nat
      /\ DOMAIN mlog = 1..Len(mlog) /\ StartsIn(mlog) \subseteq 1..Len(mlog)
      /\ mmark.seq \in Nat /\ mmark.offset \in Int
  BY <1>1, LogParts DEF TailerInv, ArchivedInv
<1>a. PICK row : row = RowRead(mlog, mrow, msync.at)
  BY ZenonT(30)
<1>b. PICK trig : trig = Note(mlog[msync.at + 1])
  OBVIOUS
<1>4. PICK soon \in BOOLEAN :
        LET built == IF trig = 0 THEN <<NoSample, NoUpdate>> ELSE Build(row, trig, soon)
        IN  \/ /\ mrow' = row
               /\ msync' = [msync EXCEPT !.at = @ + 1, !.sample = built[1], !.update = built[2],
                               !.pc = IF built[1] = NoSample THEN "read" ELSE "flush"]
               /\ UNCHANGED <<mprev, mended, mleft>>
            \/ /\ SpendFault /\ Rereads(msync.at)
               /\ \/ mrow' = mrow
                  \/ mrow' = row /\ (Rereads(msync.at + 1) \/ msync.saved = msync.at)
               /\ msync' = [msync EXCEPT !.at = msync.saved]
               /\ Cached(built[2], FALSE)
  BY <1>a, <1>b DEF CommitAll, RowRead
<1>c. PICK b : b = IF trig = 0 THEN <<NoSample, NoUpdate>> ELSE Build(row, trig, soon)
  OBVIOUS
<1>5. StatusIs(mlog, msync.at + 1, row.status)
  BY <1>1, <1>2, <1>3, <1>a, StatusReads
<1>6. CASE /\ mrow' = row
           /\ msync' = [msync EXCEPT !.at = @ + 1, !.sample = b[1], !.update = b[2],
                           !.pc = IF b[1] = NoSample THEN "read" ELSE "flush"]
           /\ UNCHANGED <<mprev, mended, mleft>>
  <2>a. PICK n \in Nat : n = msync.at + 1
    BY <1>3
  <2>b. PICK sync2 : sync2 = msync'
    OBVIOUS
  <2>1. RowInv(mlog, row, n, msync.saved) /\ ObservedInv(mlog, mprev, row)
    BY <1>a, <1>1, <1>2, <1>3, <2>a, RowAdvances, PrevRead
  <2>2. Sampled(b, Position, mlog, row) /\ SaysOfRun(b, row, trig, mprev, mended)
    <3>1. CASE trig = 0
      BY <1>c, <3>1 DEF Sampled, SaysOfRun
    <3>2. CASE trig # 0
      <4>1. /\ Sampled(Build(row, trig, soon), Position, mlog, row)
            /\ SaysOfRun(Build(row, trig, soon), row, trig, mprev, mended)
        BY <1>1, <2>1, Builds, BuildEnds
      <4> QED BY <1>c, <3>2, <4>1
    <3> QED BY <3>1, <3>2
  <2>3. /\ sync2.at = n /\ sync2.saved = msync.saved
        /\ sync2.gen = msync.gen /\ sync2.base = msync.base
        /\ sync2.sample = b[1] /\ sync2.update = b[2]
        /\ sync2.pc = IF b[1] = NoSample THEN "read" ELSE "flush"
    BY <1>1, <1>6, <2>a, <2>b DEF TailerFields
  <2>4. Reads(msync, sync2, b)
    BY <1>2, <2>a, <2>3 DEF Reads
  <2>5. b[1] # NoSample => b[1].pos.seq = msync.gen /\ b[1].pos.offset = n - msync.base
    <3>1. Position.seq = msync.gen /\ Position.offset = msync.at + 1 - msync.base
      BY DEF Position
    <3>2. Position.offset = n - msync.base
      BY <1>3, <2>a, <3>1
    <3>3. b[1] # NoSample => b[1].pos = Position
      BY <2>2 DEF Sampled
    <3> QED BY <3>1, <3>2, <3>3, Zenon
  <2>6. RowStatus(mlog, row, n, msync.saved)
    BY <1>5, <2>a DEF RowStatus
  <2>7. RereadInv(mlog, sync2, mmark) /\ StoredInv(mlog, sync2, mstored)
    <3>1. RereadInv(mlog, sync2, mmark)
      BY <1>1, <1>3, <2>a, <2>3 DEF RereadInv, NoChange
    <3>2. mstored.offset \in Int /\ RereadInv(mlog, msync, mstored) /\ mstored.seq <= sync2.gen
      BY <1>1, <2>3 DEF StoredInv
    <3>3. RereadInv(mlog, sync2, mstored)
      BY <1>3, <2>a, <2>3, <3>2 DEF RereadInv, NoChange
    <3> QED BY <3>1, <3>2, <3>3 DEF StoredInv
  <2>8. /\ RunRead(menv.runs, mlog, msync.at, mended)
        /\ \A x \in DOMAIN march : RunRead(menv.runs, mlog, msync.at, march[x].run)
        /\ \A x \in mlapse.ends : RunRead(menv.runs, mlog, msync.at, x)
    BY <1>1 DEF UnreadInv
  <2>9. ASSUME NEW r, RunRead(menv.runs, mlog, msync.at, r)
        PROVE  RunRead(menv.runs, mlog, n, r)
    BY <1>1, <1>3, <2>a, <2>9, RunReadMoves
  <2>10. UnreadInv(menv, mlog, sync2, mended, march, mlapse.ends)
    <3>1. ASSUME sync2.pc # "read"
          PROVE  /\ RunRead(menv.runs, mlog, n, sync2.sample.run)
                 /\ sync2.update.ended \in {mended, sync2.sample.run}
                 /\ sync2.sample.pos.offset = n - sync2.base
      <4>1. b[1] # NoSample
        BY <2>3, <3>1
      <4>2. b[1].run = row.nss - 1 /\ row.nss # 0 /\ b[2].ended \in {mended, row.nss - 1}
        BY <2>2, <4>1 DEF SaysOfRun
      <4>3. RunRead(menv.runs, mlog, n, row.nss - 1)
        BY <1>1, <1>3, <2>a, <2>1, <4>2, RowRunRead
      <4> QED BY <2>3, <2>5, <4>1, <4>2, <4>3
    <3> QED BY <2>3, <2>8, <2>9, <3>1 DEF UnreadInv
  <2>11. FollowedInv(mlog, sync2, mprev, mended, mmark, march, mlapse.ends, mlife)
    <3> SUFFICES ASSUME NEW i \in StartsIn(mlog), mlife < i, i <= n
                 PROVE  RunFollowed(mlog, i, sync2, mprev, mended, mmark, march, mlapse.ends)
      BY <2>3 DEF FollowedInv
    <3>1. i <= msync.at => RunFollowed(mlog, i, msync, mprev, mended, mmark, march, mlapse.ends)
      BY <1>1 DEF FollowedInv
    <3>2. ASSUME Changes(mlog[msync.at + 1]), b[1] # NoSample
          PROVE  After(b[1].pos, mmark)
      <4>1. mmark.seq = msync.gen => ~(n <= mmark.offset + msync.base)
        BY <1>1, <1>2, <1>3, <2>a, <3>2 DEF RereadInv, NoChange
      <4>2. mmark.seq = msync.gen => n - msync.base > mmark.offset
        BY <1>3, <4>1
      <4> QED BY <2>5, <3>2, <4>2 DEF After
    <3>3. Changes(mlog[msync.at + 1]) /\ b[1] # NoSample => After(b[1].pos, mmark)
      BY <3>2
    <3>4. i <= msync.at + 1 /\ SaysOfRun(b, row, Note(mlog[msync.at + 1]), mprev, mended)
      BY <1>b, <2>a, <2>2
    <3> QED
      BY <1>1, <1>2, <1>3, <1>a, <2>4, <2>8, <3>1, <3>3, <3>4, RunFollowedReads, ZenonT(60)
  <2> QED BY <1>1, <1>2, <1>6, <2>b, <2>3, <2>6, <2>7, <2>10, <2>11 DEF EndpointInv
<1>7. CASE /\ Rereads(msync.at)
           /\ \/ mrow' = mrow
              \/ mrow' = row /\ (Rereads(msync.at + 1) \/ msync.saved = msync.at)
           /\ msync' = [msync EXCEPT !.at = msync.saved]
           /\ Cached(b[2], FALSE)
  <2>b. PICK sync2 : sync2 = msync'
    OBVIOUS
  <2>1. /\ sync2.at = msync.saved /\ sync2.saved = msync.saved
        /\ sync2.gen = msync.gen /\ sync2.base = msync.base /\ sync2.pc = "read"
    BY <1>1, <1>2, <1>7, <2>b DEF TailerFields
  <2>2. mprev' = mprev /\ mended' = mended
    BY <1>7 DEF Cached, CacheMoves
  <2>3. ASSUME NEW n \in Nat, Rereads(n)
        PROVE  NoChange(mlog, msync.saved, n)
    BY <1>3, <2>3 DEF Rereads, NoChange, Changes
  <2>4. Rewinds(mlog, msync, sync2)
    BY <1>3, <1>7, <2>1, <2>3 DEF Rewinds
  <2>5. RowStatus(mlog, mrow', msync.saved, msync.saved)
    <3>1. CASE mrow' = mrow
      <4>1. CASE StatusIs(mlog, msync.at, mrow.status)
        <5>1. StatusIs(mlog, msync.saved, mrow.status)
          BY <1>1, <1>3, <1>7, <2>3, <4>1, StatusRewinds
        <5> QED BY <3>1, <5>1 DEF RowStatus
      <4>2. CASE msync.saved = msync.at /\ StatusIs(mlog, msync.at + 1, mrow.status)
        BY <1>2, <3>1, <4>2 DEF RowStatus
      <4> QED BY <1>1, <4>1, <4>2 DEF RowStatus
    <3>2. CASE mrow' = row /\ Rereads(msync.at + 1)
      <4>1. msync.at + 1 \in Nat /\ msync.saved <= msync.at + 1
        BY <1>3
      <4>2. NoChange(mlog, msync.saved, msync.at + 1)
        BY <2>3, <3>2, <4>1
      <4>3. StatusIs(mlog, msync.saved, row.status)
        BY <1>1, <1>3, <1>5, <4>1, <4>2, StatusRewinds
      <4> QED BY <3>2, <4>3 DEF RowStatus
    <3>3. CASE mrow' = row /\ msync.saved = msync.at
      BY <1>2, <1>5, <3>3 DEF RowStatus
    <3> QED BY <1>7, <3>1, <3>2, <3>3
  <2>6. RereadInv(mlog, sync2, mmark) /\ StoredInv(mlog, sync2, mstored)
    <3>1. RereadInv(mlog, sync2, mmark)
      BY <1>1, <1>3, <2>4, RereadRewinds
    <3>2. mstored.offset \in Int /\ RereadInv(mlog, msync, mstored) /\ mstored.seq <= sync2.gen
      BY <1>1, <2>1 DEF StoredInv
    <3>3. RereadInv(mlog, sync2, mstored)
      BY <1>1, <2>4, <3>2, RereadRewinds
    <3> QED BY <3>1, <3>2, <3>3 DEF StoredInv
  <2>7. UnreadInv(menv, mlog, sync2, mended, march, mlapse.ends)
    <3>1. ASSUME NEW r, RunRead(menv.runs, mlog, msync.at, r)
          PROVE  RunRead(menv.runs, mlog, msync.saved, r)
      BY <1>1, <1>3, <1>7, <2>3, <3>1, RunReadMoves
    <3> QED BY <1>1, <2>1, <3>1 DEF UnreadInv
  <2>8. FollowedInv(mlog, sync2, mprev, mended, mmark, march, mlapse.ends, mlife)
    BY <1>1, <1>2, <2>4, FollowedRewinds
  <2> QED BY <1>1, <1>2, <2>b, <2>1, <2>2, <2>5, <2>6, <2>7, <2>8 DEF EndpointInv
<1> QED BY <1>c, <1>4, <1>6, <1>7

\* The cache moves to what the flush brings.
LEMMA CacheIs ==
    ASSUME MetricsInv, msync.pc # "read", Cached(msync.update, TRUE)
    PROVE  mprev' = msync.update.prev /\ mended' = msync.update.ended
PROOF
BY DEF MetricsInv, Cached, CacheMoves

LEMMA FlushSamplesFollows ==
    ASSUME EndpointInv, FlushSamples
    PROVE  EndpointInv'
PROOF
<1>1. /\ MetricsInv /\ MetricsInv'
      /\ LogInv(mlog) /\ TailerInv(mlog, msync)
      /\ DOMAIN msync = TailerFields /\ ArchivedInv(march, mmark, mstored, mlapse.marks, msync)
      /\ StopsLog(mlog) /\ StopsShadow(menv, mlog)
      /\ RowStatus(mlog, mrow, msync.at, msync.saved) /\ RereadInv(mlog, msync, mmark)
      /\ StoredInv(mlog, msync, mstored)
      /\ UnreadInv(menv, mlog, msync, mended, march, mlapse.ends) /\ mlife \in Nat
      /\ FollowedInv(mlog, msync, mprev, mended, mmark, march, mlapse.ends, mlife)
  BY FlushSamplesKeeps DEF EndpointInv, MetricsInv
<1>2. /\ msync.pc = "flush" /\ menv' = menv /\ mlog' = mlog /\ mrow' = mrow
      /\ march' = march /\ mlife' = mlife
  BY DEF FlushSamples
<1>3. /\ msync.at \in Nat /\ msync.at <= Len(mlog) /\ Len(mlog) \in Nat /\ msync.base \in Int
      /\ DOMAIN mlog = 1..Len(mlog)
  BY <1>1, LogParts DEF TailerInv
<1>a. PICK sync2 : sync2 = msync'
  OBVIOUS
<1>4. CASE After(msync.sample.pos, mmark)
  <2>1. /\ mmark' = msync.sample.pos /\ mprev' = mprev /\ mended' = mended
        /\ msync' = [msync EXCEPT !.pc = "append"]
    BY <1>4 DEF FlushSamples
  <2>2. /\ sync2.at = msync.at /\ sync2.saved = msync.saved
        /\ sync2.gen = msync.gen /\ sync2.base = msync.base /\ sync2.pc = "append"
        /\ sync2.sample = msync.sample /\ sync2.update = msync.update
    BY <1>1, <1>a, <2>1 DEF TailerFields
  <2>3. mmark'.offset + sync2.base = msync.at
    <3>1. mmark'.offset = msync.at - msync.base
      BY <1>1, <1>2, <2>1 DEF UnreadInv
    <3> QED BY <1>3, <2>2, <3>1
  <2>4. RereadInv(mlog, sync2, mmark')
    BY <1>3, <2>2, <2>3 DEF RereadInv, NoChange
  <2>7. StoredInv(mlog, sync2, mstored')
    <3>1. mstored' = mstored \/ mstored' = mmark'
      BY <1>4, <2>1 DEF FlushSamples
    <3>2. StoredInv(mlog, sync2, mstored)
      BY <1>1, <2>2 DEF StoredInv, RereadInv
    <3>3. StoredInv(mlog, sync2, mmark')
      BY <1>1, <1>2, <2>1, <2>2, <2>4 DEF StoredInv, TailerInv
    <3> QED BY <3>1, <3>2, <3>3
  <2>8. mlapse'.ends = mlapse.ends
    BY <1>1, <1>4 DEF FlushSamples, MetricsInv, LapseFields
  <2>5. UnreadInv(menv, mlog, sync2, mended, march, mlapse.ends)
    BY <1>1, <1>2, <2>2 DEF UnreadInv
  <2>6. FollowedInv(mlog, sync2, mprev, mended, mmark', march, mlapse.ends, mlife)
    <3>1. \A r : /\ RunEnded(msync, mended, mmark, march, mlapse.ends, r) =>
                      RunEnded(sync2, mended, mmark', march, mlapse.ends, r)
                 /\ RunGoesOn(msync, mprev, mended, march, mlapse.ends, r) =>
                      RunGoesOn(sync2, mprev, mended, march, mlapse.ends, r)
      BY <1>2, <2>2 DEF RunEnded, RunGoesOn, PrevAfter, EndedAt, EndpointComes
    <3> QED BY <1>1, <2>2, <3>1 DEF FollowedInv, RunFollowed
  <2> QED BY <1>1, <1>2, <1>a, <2>1, <2>2, <2>4, <2>5, <2>6, <2>7, <2>8 DEF EndpointInv
<1>5. CASE ~After(msync.sample.pos, mmark)
  <2>1. /\ mmark' = mmark /\ mstored' = mstored /\ mlapse' = mlapse /\ Cached(msync.update, TRUE)
        /\ msync' = [msync EXCEPT !.pc = "read", !.sample = NoSample, !.update = NoUpdate]
    BY <1>5 DEF FlushSamples
  <2>2. /\ sync2.at = msync.at /\ sync2.saved = msync.saved
        /\ sync2.gen = msync.gen /\ sync2.base = msync.base /\ sync2.pc = "read"
    BY <1>1, <1>a, <2>1 DEF TailerFields
  <2>3. mprev' = msync.update.prev /\ mended' = msync.update.ended
    BY <1>1, <1>2, <2>1, CacheIs
  <2>4. RereadInv(mlog, sync2, mmark) /\ StoredInv(mlog, sync2, mstored)
    BY <1>1, <2>2 DEF RereadInv, StoredInv
  <2>5. UnreadInv(menv, mlog, sync2, mended', march, mlapse.ends)
    BY <1>1, <1>2, <2>2, <2>3 DEF UnreadInv
  <2>6. FollowedInv(mlog, sync2, mprev', mended', mmark, march, mlapse.ends, mlife)
    <3>1. \A r : /\ RunEnded(msync, mended, mmark, march, mlapse.ends, r) =>
                      RunEnded(sync2, mended', mmark, march, mlapse.ends, r)
                 /\ RunGoesOn(msync, mprev, mended, march, mlapse.ends, r) =>
                      RunGoesOn(sync2, mprev', mended', march, mlapse.ends, r)
      BY <1>2, <1>5, <2>2, <2>3 DEF RunEnded, RunGoesOn, PrevAfter, EndedAt, EndpointComes
    <3> QED BY <1>1, <2>2, <3>1 DEF FollowedInv, RunFollowed
  <2> QED BY <1>1, <1>2, <1>a, <2>1, <2>2, <2>4, <2>5, <2>6 DEF EndpointInv
<1> QED BY <1>4, <1>5

LEMMA AppendSampleFollows ==
    ASSUME EndpointInv, AppendSample
    PROVE  EndpointInv'
PROOF
<1>1. /\ MetricsInv /\ MetricsInv' /\ DOMAIN mlapse = LapseFields
      /\ DOMAIN msync = TailerFields /\ ArchivedInv(march, mmark, mstored, mlapse.marks, msync)
      /\ StopsLog(mlog) /\ StopsShadow(menv, mlog)
      /\ RowStatus(mlog, mrow, msync.at, msync.saved) /\ RereadInv(mlog, msync, mmark)
      /\ StoredInv(mlog, msync, mstored)
      /\ UnreadInv(menv, mlog, msync, mended, march, mlapse.ends) /\ mlife \in Nat
      /\ FollowedInv(mlog, msync, mprev, mended, mmark, march, mlapse.ends, mlife)
  BY AppendSampleKeeps DEF EndpointInv, MetricsInv
<1>2. /\ msync.pc = "append" /\ menv' = menv /\ mlog' = mlog /\ mrow' = mrow /\ mmark' = mmark
      /\ mlife' = mlife /\ mstored' = mstored /\ Cached(msync.update, TRUE)
      /\ msync' = [msync EXCEPT !.pc = "read", !.sample = NoSample, !.update = NoUpdate]
  BY DEF AppendSample
<1>a. PICK sync2 : sync2 = msync'
  OBVIOUS
<1>b. PICK t : t = march'
  OBVIOUS
<1>c. PICK n \in Nat : n = Len(march)
  BY <1>1, AppendSequence DEF ArchivedInv
<1>d. PICK lost : lost = mlapse'.ends
  OBVIOUS
<1>e. PICK terminal : terminal = (msync.sample.trigger = Terminal)
  OBVIOUS
<1>f. PICK old : old = mlapse.ends
  OBVIOUS
<1>3. DOMAIN march = 1..n
  <2>1. IsSequence(march)
    BY <1>1 DEF ArchivedInv
  <2> QED BY <1>c, <2>1, AppendSequence
<1>10. \/ /\ DOMAIN t = 1..n + 1 /\ lost = old
          /\ t[n + 1] = msync.sample /\ \A x \in 1..n : t[x] = march[x]
       \/ /\ t = march
          /\ lost = old \cup (IF terminal THEN {msync.sample.run} ELSE {})
  <2>1. CASE march' = Append(march, msync.sample) /\ mlapse' = mlapse
    <3>1. IsSequence(march)
      BY <1>1 DEF ArchivedInv
    <3> QED BY <1>b, <1>c, <1>d, <1>f, <2>1, <3>1, AppendSequence
  <2>2. CASE /\ march' = march
             /\ mlapse' = [mlapse EXCEPT !.ends =
                   IF msync.sample.trigger = Terminal
                   THEN mlapse.ends \cup {msync.sample.run} ELSE mlapse.ends]
    <3>1. lost = IF terminal THEN old \cup {msync.sample.run} ELSE old
      BY <1>1, <1>d, <1>e, <1>f, <2>2 DEF LapseFields
    <3> QED BY <1>b, <2>2, <3>1
  <2> QED BY <2>1, <2>2 DEF AppendSample
<1>4. /\ sync2.at = msync.at /\ sync2.saved = msync.saved
      /\ sync2.gen = msync.gen /\ sync2.base = msync.base /\ sync2.pc = "read"
  BY <1>1, <1>2, <1>a DEF TailerFields
<1>5. mprev' = msync.update.prev /\ mended' = msync.update.ended
  BY <1>1, <1>2, CacheIs
<1>6. RereadInv(mlog, sync2, mmark) /\ StoredInv(mlog, sync2, mstored)
  BY <1>1, <1>4 DEF RereadInv, StoredInv
<1>7. UnreadInv(menv, mlog, sync2, mended', t, lost)
  <2>0. /\ RunRead(menv.runs, mlog, msync.at, mended)
        /\ RunRead(menv.runs, mlog, msync.at, msync.sample.run)
        /\ msync.update.ended \in {mended, msync.sample.run}
        /\ \A x \in 1..n : RunRead(menv.runs, mlog, msync.at, march[x].run)
        /\ \A r \in old : RunRead(menv.runs, mlog, msync.at, r)
    BY <1>1, <1>2, <1>3, <1>f DEF UnreadInv
  <2>1. RunRead(menv.runs, mlog, msync.at, mended')
    BY <1>5, <2>0
  <2>2. \A x \in DOMAIN t : RunRead(menv.runs, mlog, msync.at, t[x].run)
    BY <1>3, <1>10, <2>0
  <2>3. \A r \in lost : RunRead(menv.runs, mlog, msync.at, r)
    BY <1>10, <2>0
  <2> QED BY <1>4, <2>1, <2>2, <2>3 DEF UnreadInv
<1>8. ASSUME NEW r
      PROVE  /\ ~EndpointComes(msync, r) =>
                  EndpointsOf(t, r) = EndpointsOf(march, r) /\ (r \in lost <=> r \in old)
             /\ EndpointComes(msync, r) =>
                  \/ EndpointsOf(t, r) = EndpointsOf(march, r) \cup {n + 1} /\ n + 1 \in DOMAIN t
                       /\ (r \in lost <=> r \in old)
                  \/ EndpointsOf(t, r) = EndpointsOf(march, r) /\ r \in lost
  <2>1. EndpointComes(msync, r) <=> msync.sample.run = r /\ terminal
    BY <1>2, <1>e DEF EndpointComes
  <2>2. CASE /\ DOMAIN t = 1..n + 1 /\ lost = old
             /\ t[n + 1] = msync.sample /\ \A x \in 1..n : t[x] = march[x]
    <3>1. EndpointsOf(t, r) =
            EndpointsOf(march, r) \cup (IF EndpointComes(msync, r) THEN {n + 1} ELSE {})
      <4>1. \A x : x \in DOMAIN march => x \in DOMAIN t /\ t[x] = march[x]
        BY <1>3, <2>2
      <4>2. \A x : x \in DOMAIN t <=> x \in DOMAIN march \/ x = n + 1
        BY <1>3, <2>2
      <4>3. n + 1 \in EndpointsOf(t, r) <=> EndpointComes(msync, r)
        BY <1>2, <2>2, <4>2 DEF EndpointsOf, EndpointComes
      <4>4. n + 1 \notin DOMAIN march
        BY <1>3
      <4>5. \A x : x # n + 1 => (x \in EndpointsOf(t, r) <=> x \in EndpointsOf(march, r))
        BY <4>1, <4>2 DEF EndpointsOf
      <4>6. n + 1 \notin EndpointsOf(march, r)
        BY <4>4 DEF EndpointsOf
      <4> HIDE DEF EndpointsOf, EndpointComes
      <4> QED BY <4>3, <4>5, <4>6
    <3>2. n + 1 \in DOMAIN t
      BY <2>2
    <3> QED BY <2>2, <3>1, <3>2
  <2>3. CASE /\ t = march
             /\ lost = old \cup (IF terminal THEN {msync.sample.run} ELSE {})
    BY <2>1, <2>3
  <2> QED BY <1>10, <2>2, <2>3
<1>9. FollowedInv(mlog, sync2, mprev', mended', mmark, t, lost, mlife)
  <2>1. ASSUME NEW r, RunEnded(msync, mended, mmark, march, old, r)
        PROVE  RunEnded(sync2, mended', mmark, t, lost, r)
    <3>1. r <= EndedAt(sync2, mended') /\ ~EndpointComes(sync2, r)
      BY <1>2, <1>4, <1>5, <2>1 DEF RunEnded, EndedAt, EndpointComes
    <3>2. OneEndpoint(t, lost, r)
      <4>1. CASE ~EndpointComes(msync, r)
        <5>1. OneEndpoint(march, old, r)
          BY <2>1, <4>1 DEF RunEnded
        <5>2. DOMAIN march \subseteq DOMAIN t
          BY <1>3, <1>10
        <5> QED BY <1>8, <4>1, <5>1, <5>2 DEF OneEndpoint
      <4>2. CASE EndpointComes(msync, r)
        <5>1. EndpointsOf(march, r) = {} /\ r \notin old
          BY <2>1, <4>2 DEF RunEnded, NoEndpoint
        <5> QED BY <1>8, <4>2, <5>1 DEF OneEndpoint
      <4> QED BY <4>1, <4>2
    <3> QED BY <3>1, <3>2 DEF RunEnded
  <2>2. ASSUME NEW r, RunGoesOn(msync, mprev, mended, march, old, r)
        PROVE  RunGoesOn(sync2, mprev', mended', t, lost, r)
    <3>1. NoEndpoint(t, lost, r)
      BY <1>8, <2>2 DEF RunGoesOn, NoEndpoint
    <3> QED BY <1>2, <1>4, <1>5, <2>2, <3>1 DEF RunGoesOn, PrevAfter, EndedAt, EndpointComes
  <2> QED BY <1>1, <1>4, <1>f, <2>1, <2>2 DEF FollowedInv, RunFollowed
<1> QED BY <1>1, <1>2, <1>a, <1>b, <1>d, <1>4, <1>6, <1>7, <1>9 DEF EndpointInv

LEMMA SaveOffsetFollows ==
    ASSUME EndpointInv, SaveOffset
    PROVE  EndpointInv'
PROOF
<1>1. /\ MetricsInv /\ MetricsInv' /\ TailerInv(mlog, msync)
      /\ DOMAIN msync = TailerFields
      /\ StopsLog(mlog) /\ StopsShadow(menv, mlog)
      /\ RowStatus(mlog, mrow, msync.at, msync.saved) /\ RereadInv(mlog, msync, mmark)
      /\ StoredInv(mlog, msync, mstored)
      /\ UnreadInv(menv, mlog, msync, mended, march, mlapse.ends) /\ mlife \in Nat
      /\ FollowedInv(mlog, msync, mprev, mended, mmark, march, mlapse.ends, mlife)
  BY SaveOffsetKeeps DEF EndpointInv, MetricsInv
<1>2. /\ msync.pc = "read" /\ msync.saved < msync.at
      /\ msync' = [msync EXCEPT !.saved = msync.at]
      /\ menv' = menv /\ mlog' = mlog /\ mrow' = mrow /\ mprev' = mprev /\ mmark' = mmark
      /\ march' = march /\ mended' = mended /\ mlife' = mlife
      /\ mstored' = mstored /\ mlapse' = mlapse
  BY DEF SaveOffset
<1>a. PICK sync2 : sync2 = msync'
  OBVIOUS
<1>3. /\ sync2.at = msync.at /\ sync2.saved = msync.at
      /\ sync2.gen = msync.gen /\ sync2.base = msync.base /\ sync2.pc = "read"
  BY <1>1, <1>2, <1>a DEF TailerFields
<1>4. RowStatus(mlog, mrow, msync.at, msync.at)
  <2>1. msync.saved # msync.at
    BY <1>1, <1>2 DEF TailerInv
  <2> QED BY <1>1, <2>1 DEF RowStatus
<1>5. RereadInv(mlog, sync2, mmark) /\ StoredInv(mlog, sync2, mstored)
  BY <1>1, <1>3 DEF RereadInv, StoredInv
<1>6. UnreadInv(menv, mlog, sync2, mended, march, mlapse.ends)
  BY <1>1, <1>3 DEF UnreadInv
<1>7. FollowedInv(mlog, sync2, mprev, mended, mmark, march, mlapse.ends, mlife)
  <2>1. \A r : /\ RunEnded(msync, mended, mmark, march, mlapse.ends, r) => RunEnded(sync2, mended, mmark, march, mlapse.ends, r)
               /\ RunGoesOn(msync, mprev, mended, march, mlapse.ends, r) => RunGoesOn(sync2, mprev, mended, march, mlapse.ends, r)
    BY <1>2, <1>3 DEF RunEnded, RunGoesOn, PrevAfter, EndedAt, EndpointComes
  <2> QED BY <1>1, <1>3, <2>1 DEF FollowedInv, RunFollowed
<1> QED BY <1>1, <1>2, <1>a, <1>3, <1>4, <1>5, <1>6, <1>7 DEF EndpointInv

LEMMA SamplerRestartFollows ==
    ASSUME SamplerFaults = {}, EndpointInv, SamplerRestart
    PROVE  EndpointInv'
PROOF
<1>1. /\ MetricsInv /\ MetricsInv' /\ TailerInv(mlog, msync) /\ LogInv(mlog) /\ ShadowInv(menv, mlog)
      /\ DOMAIN msync = TailerFields /\ ArchivedInv(march, mmark, mstored, mlapse.marks, msync)
      /\ StopsLog(mlog) /\ StopsShadow(menv, mlog)
      /\ RowStatus(mlog, mrow, msync.at, msync.saved) /\ RereadInv(mlog, msync, mmark)
      /\ StoredInv(mlog, msync, mstored)
      /\ UnreadInv(menv, mlog, msync, mended, march, mlapse.ends)
  BY SamplerRestartKeeps DEF EndpointInv, MetricsInv
<1>2. /\ Rereads(msync.at) /\ mprev' = NoObservation /\ mended' = -1 /\ mlife' = Len(mlog)
      /\ msync' = [msync EXCEPT !.at = msync.saved, !.pc = "read", !.sample = NoSample,
                      !.update = NoUpdate]
      /\ menv' = menv /\ mlog' = mlog /\ mrow' = mrow /\ mmark' = mstored /\ march' = march
      /\ mstored' = mstored /\ mlapse' = mlapse
  BY DEF SamplerRestart
<1>a. PICK sync2 : sync2 = msync'
  OBVIOUS
<1>3. /\ sync2.at = msync.saved /\ sync2.saved = msync.saved
      /\ sync2.gen = msync.gen /\ sync2.base = msync.base /\ sync2.pc = "read"
  BY <1>1, <1>2, <1>a DEF TailerFields
<1>4. /\ msync.at \in Nat /\ msync.saved \in Nat /\ msync.saved <= msync.at /\ msync.at <= Len(mlog)
      /\ Len(mlog) \in Nat /\ DOMAIN mlog = 1..Len(mlog) /\ StartsIn(mlog) \subseteq 1..Len(mlog)
      /\ \A i \in StartsIn(mlog) : mlog[i].nss \in Nat /\ mlog[i].nss # 0
      /\ mstored.offset \in Int /\ menv.runs \in Nat
  BY <1>1, StatusParts DEF TailerInv, ArchivedInv, ShadowInv
<1>5. NoChange(mlog, msync.saved, msync.at)
  BY <1>2, <1>4 DEF Rereads, NoChange, Changes
<1>6. RowStatus(mlog, mrow, msync.saved, msync.saved)
  <2>1. StatusIs(mlog, msync.at, mrow.status) => StatusIs(mlog, msync.saved, mrow.status)
    BY <1>1, <1>4, <1>5, StatusRewinds
  <2> QED BY <1>1, <2>1 DEF RowStatus
<1>7. RereadInv(mlog, sync2, mstored) /\ StoredInv(mlog, sync2, mstored)
  <2>1. Rewinds(mlog, msync, sync2)
    BY <1>3, <1>4, <1>5 DEF Rewinds
  <2>2. RereadInv(mlog, msync, mstored) /\ mstored.seq <= sync2.gen
    BY <1>1, <1>3 DEF StoredInv
  <2>3. RereadInv(mlog, sync2, mstored)
    BY <1>1, <1>4, <2>1, <2>2, RereadRewinds
  <2> QED BY <1>4, <2>2, <2>3 DEF StoredInv
<1>8. UnreadInv(menv, mlog, sync2, mended', march, mlapse.ends)
  <2>1. ASSUME NEW r, RunRead(menv.runs, mlog, msync.at, r)
        PROVE  RunRead(menv.runs, mlog, msync.saved, r)
    BY <1>1, <1>4, <1>5, <2>1, RunReadMoves
  <2>2. RunRead(menv.runs, mlog, msync.saved, -1)
    BY <1>4 DEF RunRead
  <2> QED BY <1>1, <1>2, <1>3, <2>1, <2>2 DEF UnreadInv
<1>9. FollowedInv(mlog, sync2, mprev', mended', mstored, march, mlapse.ends, Len(mlog))
  BY <1>4 DEF FollowedInv
<1> QED BY <1>1, <1>2, <1>a, <1>3, <1>4, <1>6, <1>7, <1>8, <1>9 DEF EndpointInv

LEMMA ResampleReloadFollows ==
    ASSUME EndpointInv, ResampleReload
    PROVE  EndpointInv'
PROOF
<1>1. /\ MetricsInv /\ MetricsInv' /\ TailerInv(mlog, msync) /\ LogInv(mlog)
      /\ DOMAIN msync = TailerFields
      /\ StopsLog(mlog) /\ StopsShadow(menv, mlog)
      /\ UnreadInv(menv, mlog, msync, mended, march, mlapse.ends)
      /\ StoredInv(mlog, msync, mstored) /\ ArchivedInv(march, mmark, mstored, mlapse.marks, msync)
  BY ResampleReloadKeeps DEF EndpointInv, MetricsInv
<1>2. /\ msync.pc = "read" /\ mrow' = Reconcile(mlog) /\ mmark' = NoMark
      /\ mstored' \in {NoMark, mstored} /\ mlapse' = mlapse
      /\ msync' = [msync EXCEPT !.at = Len(mlog), !.saved = Len(mlog), !.base = Len(mlog),
                      !.gen = @ + 1]
      /\ menv' = menv /\ mlog' = mlog /\ mprev' = mprev /\ march' = march /\ mended' = mended
      /\ mlife' = Len(mlog)
  BY DEF ResampleReload, Reconcile
<1>a. PICK sync2 : sync2 = msync'
  OBVIOUS
<1>3. /\ sync2.at = Len(mlog) /\ sync2.saved = Len(mlog)
      /\ sync2.gen = msync.gen + 1 /\ sync2.pc = "read"
  BY <1>1, <1>2, <1>a DEF TailerFields
<1>4. /\ Len(mlog) \in Nat /\ DOMAIN mlog = 1..Len(mlog) /\ StartsIn(mlog) \subseteq 1..Len(mlog)
      /\ StatusIn(mlog) \subseteq 1..Len(mlog)
      /\ msync.gen \in Nat /\ msync.at \in Nat /\ msync.at <= Len(mlog)
  BY <1>1, StatusParts DEF TailerInv
<1>5. RowStatus(mlog, mrow', Len(mlog), Len(mlog))
  <2>1. LastSet(mlog, "status", mrow'.status)
    BY <1>1, <1>2, ReconcileIs
  <2>2. \A k \in StatusIn(mlog) : k <= Len(mlog)
    BY <1>4
  <2>3. StatusIs(mlog, Len(mlog), mrow'.status)
    BY <2>1, <2>2 DEF LastSet, StatusIs, StatusIn, NoJobRow
  <2> QED BY <2>3 DEF RowStatus
<1>6. RereadInv(mlog, sync2, mmark') /\ StoredInv(mlog, sync2, mstored')
  <2>1. NoMark.seq = 0 /\ NoMark.offset = 0
    BY DEF NoMark
  <2>2. mstored.seq <= msync.gen /\ mstored.offset \in Int /\ mstored.seq \in Nat
    BY <1>1 DEF StoredInv, ArchivedInv
  <2>3. mstored'.seq <= msync.gen /\ mstored'.offset \in Int /\ mstored'.seq \in Nat
    BY <1>2, <1>4, <2>1, <2>2
  <2>4. mstored'.seq # sync2.gen /\ mmark'.seq # sync2.gen /\ mstored'.seq <= sync2.gen
    BY <1>2, <1>3, <1>4, <2>1, <2>3
  <2> QED BY <2>3, <2>4 DEF RereadInv, StoredInv
<1>7. UnreadInv(menv, mlog, sync2, mended, march, mlapse.ends)
  <2>1. ASSUME NEW r, RunRead(menv.runs, mlog, msync.at, r)
        PROVE  RunRead(menv.runs, mlog, Len(mlog), r)
    BY <1>1, <1>4, <2>1, RunReadMoves
  <2> QED BY <1>1, <1>3, <2>1 DEF UnreadInv
<1>8. FollowedInv(mlog, sync2, mprev, mended, mmark', march, mlapse.ends, Len(mlog))
  BY <1>4 DEF FollowedInv
<1> QED BY <1>1, <1>2, <1>a, <1>3, <1>4, <1>5, <1>6, <1>7, <1>8 DEF EndpointInv

LEMMA EndpointInvKept ==
    ASSUME EndpointInv
    PROVE  EndpointKept
PROOF
<1> SUFFICES ASSUME msync.pc = "read", NEW r \in 0..MaxRun - 1, NEW i \in SpawnedIn(r), EndedAfter(i)
             PROVE  Cardinality(Endpoints(r)) = IF r \in mlapse.ends THEN 0 ELSE 1
  BY DEF EndpointKept
<1>1. /\ LogInv(mlog) /\ StopsLog(mlog) /\ TailerInv(mlog, msync) /\ mlife \in Nat
      /\ FollowedInv(mlog, msync, mprev, mended, mmark, march, mlapse.ends, mlife)
  BY DEF EndpointInv, MetricsInv
<1>2. msync.at \in Nat /\ msync.at <= Len(mlog) /\ Len(mlog) \in Nat /\ DOMAIN mlog = 1..Len(mlog)
  BY <1>1, StatusParts DEF TailerInv
<1>3. /\ i \in Int /\ mlife < i /\ i <= msync.at
      /\ "nss" \in DOMAIN mlog[i] /\ mlog[i].nss = r + 1
  BY <1>1, <1>2 DEF SpawnedIn
<1>4. i \in StartsIn(mlog) /\ mlog[i].nss - 1 = r
  BY <1>1, <1>2, <1>3 DEF StartsIn
<1>5. StopRead(mlog, i, msync.at)
  <2>1. PICK k \in i + 1..msync.at : "status" \in DOMAIN mlog[k] /\ mlog[k].status # 2
    BY DEF EndedAfter
  <2>2. k \in StopsIn(mlog) /\ i < k /\ k <= msync.at
    BY <1>1, <1>2, <1>3, <2>1 DEF StopsIn, StatusIn
  <2> QED BY <2>2 DEF StopRead
<1>6. RunEnded(msync, mended, mmark, march, mlapse.ends, r)
  BY <1>1, <1>3, <1>4, <1>5 DEF FollowedInv, RunFollowed
<1>7. OneEndpoint(march, mlapse.ends, r)
  BY <1>6 DEF RunEnded, EndpointComes
<1>8. Endpoints(r) = EndpointsOf(march, r)
  BY DEF EndpointsOf, Endpoints
<1>9. CASE r \in mlapse.ends
  BY <1>7, <1>8, <1>9, FS_EmptySet DEF OneEndpoint
<1>10. CASE r \notin mlapse.ends
  <2>1. PICK x : EndpointsOf(march, r) = {x}
    BY <1>7, <1>10 DEF OneEndpoint
  <2> QED BY <1>8, <1>10, <2>1, FS_Singleton
<1> QED BY <1>9, <1>10

\* Property EndpointKept: a run that began and ended while the sampler followed
\* the log has exactly one terminal sample, or none if the archive refused it.
\* What collect builds is dropped with a conflict and built again from the same
\* row and cache; no entry between the saved offset and the mark, stored or not, is
\* a change of state, so the endpoint is never among what is read twice.
THEOREM EndpointsAreKept ==
    ASSUME SamplerFaults = {}
    PROVE  MetricsSpec => []EndpointKept
PROOF
<1>1. MetricsInit => EndpointInv
  BY EndpointInitInv
<1>2. EndpointInv /\ [MetricsNext]_metricsvars => EndpointInv'
  <2> SUFFICES ASSUME EndpointInv, [MetricsNext]_metricsvars
               PROVE  EndpointInv'
    OBVIOUS
  <2>1. CASE ScheddCommit
    BY <2>1, ScheddCommitFollows
  <2>2. CASE CommitAll
    BY <2>2, CommitAllFollows
  <2>3. CASE FlushSamples
    BY <2>3, FlushSamplesFollows
  <2>4. CASE AppendSample
    BY <2>4, AppendSampleFollows
  <2>5. CASE SaveOffset
    BY <2>5, SaveOffsetFollows
  <2>6. CASE SamplerRestart
    BY <2>6, SamplerRestartFollows
  <2>7. CASE ResampleReload
    BY <2>7, ResampleReloadFollows
  <2>8. CASE UNCHANGED metricsvars
    BY <2>8 DEF metricsvars, EndpointInv, MetricsInv
  <2> QED BY <2>1, <2>2, <2>3, <2>4, <2>5, <2>6, <2>7, <2>8 DEF MetricsNext
<1>3. EndpointInv => EndpointKept
  BY EndpointInvKept
<1> QED BY <1>1, <1>2, <1>3, PTL DEF MetricsSpec
=============================================================================
