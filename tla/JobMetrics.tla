----------------------------- MODULE JobMetrics -----------------------------
(***************************************************************************)
(* scheddsync/metrics.go: the sampler of job resource usage that rides on  *)
(* the job_queue.log tailer (module JobSync).  Jobs do not interact, so    *)
(* the module follows one job through its runs.  One counter stands for    *)
(* all that are cumulative within a run; ratios, gauges, configured        *)
(* columns and the counters of the status are left out.  Times that only   *)
(* decide a comparison are a choice.                                       *)
(*                                                                         *)
(* A reported value is [v, by]: the number, and the run whose starter      *)
(* reported it, which the code cannot see.                                 *)
(***************************************************************************)
EXTENDS Integers, Sequences, FiniteSets

CONSTANTS
    SamplerFaults,     \* of {"reread_runs", "old_clock", "no_stats"}: a tailer may read
                       \* again over a change of state; a starter that reports its clock
                       \* may follow one whose clock is still in the job ad; one that
                       \* reports neither clock nor uptime may follow another
    SamplerBudgets,    \* bounds: the transactions of the schedd and the conflicts,
                       \*   restarts, reloads and failed writes that a behaviour has,
    MaxLag,            \*   transactions that the tailer has not read,
    MaxRun,            \*   runs of the job,
    MaxUptime          \*   the uptime a run may reach

VARIABLES
    menv,     \* the schedd and the shadow: state, runs started, the starter's report,
              \* whether it carries the starter's clock or is bare of clock and uptime,
              \* whether the job ad holds a clock
    mlog,     \* the transactions of job_queue.log: the attributes each sets
    mrow,     \* the job's row in the jobs table
    msync,    \* the tailer: where it reads, persistedOffset, the generation of the log
              \* and the entry it begins at, and what commitAll is at
    mprev,    \* m.prev[key], or NoObservation
    mended,   \* m.ended[key], or -1
    mmark,    \* the flush position,
    mstored,  \*   and as stored
    march,    \* the job_metrics archive
    mlife,    \* history: the entry at which this life of the sampler began
    mlapse,   \* history: the positions that were not stored, the runs whose endpoint
              \*   could not be appended
    mleft

metricsvars == <<menv, mlog, mrow, msync, mprev, mended, mmark, mstored, march, mlife, mlapse, mleft>>

Absent == [v |-> -1, by |-> -1]
NoObservation == [none |-> TRUE]
NoSample == [none |-> TRUE]
NoUpdate == [none |-> TRUE]
NoMark == [seq |-> 0, offset |-> 0]
NoJobRow == [status |-> 1, nss |-> 0, life |-> Absent, clock |-> Absent, cpu |-> Absent]

MetricsStart(budget) ==
    /\ menv = [st |-> "idle", runs |-> 0, life |-> 0, cpu |-> 0, clocked |-> FALSE,
               bare |-> FALSE, dated |-> FALSE]
    /\ mlog = <<>> /\ mrow = NoJobRow
    /\ msync = [at |-> 0, saved |-> 0, gen |-> 0, base |-> 0, pc |-> "read",
                sample |-> NoSample, update |-> NoUpdate]
    /\ mprev = NoObservation /\ mended = -1
    /\ mmark = NoMark /\ mstored = NoMark /\ march = <<>>
    /\ mlife = 0 /\ mlapse = [marks |-> {}, ends |-> {}]
    /\ mleft = budget
MetricsInit == \E budget \in SamplerBudgets : MetricsStart(budget)

-----------------------------------------------------------------------------
(***************************************************************************)
(* The schedd and the shadow (external, as metrics.go describes them): a   *)
(* run starts in two transactions, the second counts it; the shadow zeroes *)
(* the counter or goes on to the starter's reports, which it may repeat;   *)
(* exit attributes come before the status changes; an evicted job has      *)
(* none; an idle one may be held or go back from a start that failed.      *)
(* Only some starters report their clock with the rest, and some jobs carry*)
(* no starter stats at all; a report without them removes from the job ad  *)
(* what an earlier starter left.                                           *)
(* What the tailer does with a sample does not read the log: the schedd    *)
(* writes between.                                                         *)
(***************************************************************************)
Writes(entry) ==
    /\ Len(mlog) < mleft.commits /\ Len(mlog) < msync.at + MaxLag
    /\ mlog' = Append(mlog, entry)
Value(n) == [v |-> n, by |-> menv.runs - 1]
Reported(life, cpu) ==
    CASE menv.bare /\ menv.runs = 1 -> [cpu |-> Value(cpu)]
      [] menv.bare /\ menv.runs > 1 -> [life |-> Absent, clock |-> Absent, cpu |-> Value(cpu)]
      [] menv.clocked -> [life |-> Value(life), clock |-> Value(Len(mlog) + 1), cpu |-> Value(cpu)]
      [] menv.dated /\ ~menv.clocked /\ ~menv.bare ->
            [life |-> Value(life), clock |-> Absent, cpu |-> Value(cpu)]
      [] OTHER -> [life |-> Value(life), cpu |-> Value(cpu)]

ScheddCommit ==
    /\ msync.pc = "read"
    /\ \/ /\ menv.st = "idle" /\ menv.runs < MaxRun
          /\ menv' = [menv EXCEPT !.st = "marked"] /\ Writes([status |-> 2])
       \/ /\ menv.st = "marked"
          /\ \/ /\ \E clocked, bare \in BOOLEAN :
                     /\ ~(clocked /\ bare)
                     /\ clocked /\ menv.dated => "old_clock" \in SamplerFaults
                     /\ bare /\ menv.runs > 0 => "no_stats" \in SamplerFaults
                     /\ menv' = [st |-> "running", runs |-> menv.runs + 1, life |-> 0, cpu |-> 0,
                                 clocked |-> clocked, bare |-> bare, dated |-> menv.dated]
                /\ Writes([nss |-> menv.runs + 1])
             \/ menv' = [menv EXCEPT !.st = "idle"] /\ Writes([status |-> 1])
       \/ /\ menv.st = "running"
          /\ \/ menv.life = 0 /\ menv' = menv /\ Writes([cpu |-> Value(0)])
             \/ menv.life > 0 /\ menv' = [menv EXCEPT !.dated = menv.clocked]
                              /\ Writes(Reported(menv.life, menv.cpu))
             \/ \E d \in {1, 2} :
                  /\ menv.life + d <= MaxUptime
                  /\ menv' = [menv EXCEPT !.life = @ + d, !.cpu = @ + d, !.dated = menv.clocked]
                  /\ Writes(Reported(menv'.life, menv'.cpu))
             \/ menv' = [menv EXCEPT !.st = "exiting"] /\ Writes([exit |-> TRUE])
             \/ menv' = [menv EXCEPT !.st = "idle"] /\ Writes([status |-> 1])
       \/ menv.st = "exiting" /\ menv' = [menv EXCEPT !.st = "idle"] /\ Writes([status |-> 4])
       \/ menv.st = "idle" /\ menv.runs > 0 /\ menv' = menv /\ Writes([exit |-> TRUE])
    /\ UNCHANGED <<mrow, msync, mprev, mended, mmark, mstored, march, mlife, mlapse, mleft>>

-----------------------------------------------------------------------------
\* triggerFor and note: the strongest trigger among the attributes of the
\* transaction; 0 is none.  StatsLifetimeStarter is context, not usage.
TriggerFor(a) ==
    CASE a = "exit"               -> 6
      [] a \in {"status", "nss"}  -> 4
      [] a = "clock"              -> 3
      [] a = "cpu"                -> 2
      [] OTHER                    -> 0
Note(entry) ==
    CHOOSE t \in 0..6 : /\ \E a \in DOMAIN entry : TriggerFor(a) = t
                        /\ \A a \in DOMAIN entry : TriggerFor(a) <= t
Terminal == 6

Merged(row, entry) == [a \in DOMAIN row |-> IF a \in DOMAIN entry THEN entry[a] ELSE row[a]]

RunInstanceOf(row) == row.nss - 1
IsExecuting(row) == row.status = 2

\* The trigger a sample is taken under, 0 when none is: a job that never ran, a
\* run whose endpoint was emitted, an idle job that was not being sampled.  A run
\* ends when a job being sampled no longer executes.
SampleTrigger(row, trig) ==
    IF row.nss = 0 \/ RunInstanceOf(row) <= mended THEN 0
    ELSE IF IsExecuting(row) THEN (IF trig = Terminal THEN 4 ELSE trig)
    ELSE IF mprev # NoObservation THEN Terminal ELSE 0

\* observe: the interval clock is the starter's timestamp, else its uptime, else
\* the ingest clock.
IntervalClock(row) ==
    IF row.clock.v > 0 THEN "starter" ELSE IF row.life.v >= 0 THEN "lifetime" ELSE "ingest"

Stale(o) ==
    /\ o.clock = "lifetime"
    /\ \/ mprev = NoObservation \/ mprev.run # o.run
       \/ mprev.clock = "lifetime" /\ mprev.stale /\ mprev.life.v = o.life.v

Observe(row) ==
    LET o == [run |-> RunInstanceOf(row), status |-> row.status, clock |-> IntervalClock(row),
              time |-> row.clock, life |-> row.life, cpu |-> row.cpu, stale |-> FALSE]
    IN  [o EXCEPT !.stale = Stale(o)]

(***************************************************************************)
(* deriveRates and sumDelta: a rate needs a predecessor of the same run on *)
(* the same clock, an interval that advanced and is not based on a stale   *)
(* uptime, and the counter present in both and not gone backwards.  The    *)
(* ingest clock is taken to have advanced, and no time to be suspended.    *)
(***************************************************************************)
Advanced(p, o) ==
    CASE o.clock = "lifetime" -> o.life.v > p.life.v /\ ~p.stale
      [] o.clock = "starter"  -> o.time.v > p.time.v
      [] OTHER                -> TRUE
DeriveRate(o) ==
    /\ mprev # NoObservation /\ mprev.run = o.run /\ mprev.clock = o.clock
    /\ Advanced(mprev, o)
    /\ mprev.cpu.v >= 0 /\ o.cpu.v >= mprev.cpu.v

\* Whose reports a rate was made of; of one that is zero it does not matter.
Sources(o) ==
    IF o.cpu.v = mprev.cpu.v THEN {o.run}
    ELSE {mprev.cpu.by, o.cpu.by}
      \cup (CASE o.clock = "lifetime" -> {mprev.life.by, o.life.by}
              [] o.clock = "starter"  -> {mprev.time.by, o.time.by}
              [] OTHER                -> {})

Throttled(row, trig, soon) ==
    /\ soon /\ mprev # NoObservation /\ trig <= 3
    /\ mprev.run = RunInstanceOf(row) /\ mprev.status = row.status

Position == [seq |-> msync.gen, offset |-> msync.at + 1 - msync.base]

\* build: the sample of one row, and the change to the cache it implies.
Build(row, trig, soon) ==
    LET t == SampleTrigger(row, trig)
        o == Observe(row)
        rate == DeriveRate(o)
    IN  IF t = 0 \/ Throttled(row, t, soon) THEN <<NoSample, NoUpdate>>
        ELSE <<[pos |-> Position, run |-> o.run, trigger |-> t, rate |-> rate,
                from |-> IF rate THEN Sources(o) ELSE {}],
               [prev |-> IF t = Terminal THEN NoObservation ELSE o,
                ended |-> IF t = Terminal THEN o.run ELSE mended]>>

-----------------------------------------------------------------------------
\* After: whether a position was not flushed yet.  (Mutant: everything is new.)
AfterAlways(p, mark) == TRUE
After(p, mark) == p.seq # mark.seq \/ p.offset > mark.offset

\* When the cache moves: with the sample, after the commit.  (Mutant: as soon as
\* the sample is built.)
CacheMovesEarly(update, committed) == update # NoUpdate
CacheMoves(update, committed) == committed /\ update # NoUpdate

Cached(update, committed) ==
    /\ mprev' = IF CacheMoves(update, committed) THEN update.prev ELSE mprev
    /\ mended' = IF CacheMoves(update, committed) THEN update.ended ELSE mended

\* A rewind to the persisted offset.  Only under a fault does it go back over
\* usage of the run whose change of state is in the row already.
Rereads(upto) ==
    "reread_runs" \in SamplerFaults
      \/ ~\E i \in msync.saved + 1..upto :
            "status" \in DOMAIN mlog[i] \/ "nss" \in DOMAIN mlog[i]

SpendFault == mleft.faults > 0 /\ mleft' = [mleft EXCEPT !.faults = @ - 1]

(***************************************************************************)
(* commitAll: collect reads the merged row in the open transaction; then   *)
(* the tables commit.  A conflict drops samples and cache updates and      *)
(* rewinds the tailer; this table's own commit may have landed.            *)
(***************************************************************************)
CommitAll ==
    /\ msync.pc = "read" /\ msync.at < Len(mlog)
    /\ LET entry == mlog[msync.at + 1]
           row == Merged(mrow, entry)
       IN  \E soon \in BOOLEAN :
            LET built == IF Note(entry) = 0 THEN <<NoSample, NoUpdate>>
                         ELSE Build(row, Note(entry), soon)
            IN \/ /\ mrow' = row
                  /\ msync' = [msync EXCEPT !.at = @ + 1, !.sample = built[1], !.update = built[2],
                                  !.pc = IF built[1] = NoSample THEN "read" ELSE "flush"]
                  /\ UNCHANGED <<mprev, mended, mleft>>
               \/ /\ SpendFault /\ Rereads(msync.at)
                  /\ \/ mrow' = mrow
                     \/ mrow' = row /\ (Rereads(msync.at + 1) \/ msync.saved = msync.at)
                  /\ msync' = [msync EXCEPT !.at = msync.saved]
                  /\ Cached(built[2], FALSE)
    /\ UNCHANGED <<menv, mlog, mmark, mstored, march, mlife, mlapse>>

\* flush: the mark is stored before the samples are appended, or is not (the
\* error of saveMark is a warning); what was flushed before is not appended
\* again; commitPending follows in either case.
FlushSamples ==
    LET pos == msync.sample.pos IN
    /\ msync.pc = "flush"
    /\ IF After(pos, mmark)
         THEN /\ mmark' = pos
              /\ \/ mstored' = pos /\ UNCHANGED <<mlapse, mleft>>
                 \/ /\ SpendFault /\ UNCHANGED mstored
                    /\ mlapse' = [mlapse EXCEPT !.marks = @ \cup {pos}]
              /\ msync' = [msync EXCEPT !.pc = "append"]
              /\ UNCHANGED <<mprev, mended>>
         ELSE /\ msync' = [msync EXCEPT !.pc = "read", !.sample = NoSample, !.update = NoUpdate]
              /\ Cached(msync.update, TRUE) /\ UNCHANGED <<mmark, mstored, mlapse, mleft>>
    /\ UNCHANGED <<menv, mlog, mrow, march, mlife>>

\* archive.Append, whose error is counted and no more.
AppendSample ==
    /\ msync.pc = "append"
    /\ \/ march' = Append(march, msync.sample) /\ UNCHANGED <<mlapse, mleft>>
       \/ /\ SpendFault /\ UNCHANGED march
          /\ mlapse' = [mlapse EXCEPT !.ends =
                IF msync.sample.trigger = Terminal THEN @ \cup {msync.sample.run} ELSE @]
    /\ msync' = [msync EXCEPT !.pc = "read", !.sample = NoSample, !.update = NoUpdate]
    /\ Cached(msync.update, TRUE)
    /\ UNCHANGED <<menv, mlog, mrow, mmark, mstored, mlife>>

\* checkpoint; of no effect here once no fault is left to read again.
SaveOffset ==
    /\ mleft.faults > 0 /\ msync.pc = "read" /\ msync.saved < msync.at
    /\ msync' = [msync EXCEPT !.saved = msync.at]
    /\ UNCHANGED <<menv, mlog, mrow, mprev, mended, mmark, mstored, march, mlife, mlapse, mleft>>

\* A restart: the cache is gone, restoreMark has the mark that was stored last,
\* the tailer resumes.
SamplerRestart ==
    /\ SpendFault /\ Rereads(msync.at)
    /\ mprev' = NoObservation /\ mended' = -1 /\ mlife' = Len(mlog) /\ mmark' = mstored
    /\ msync' = [msync EXCEPT !.at = msync.saved, !.pc = "read", !.sample = NoSample,
                    !.update = NoUpdate]
    /\ UNCHANGED <<menv, mlog, mrow, mstored, march, mlapse>>

\* The log was compacted: resetMark, and the row reconciled without a sample.
ResampleReload ==
    /\ msync.pc = "read" /\ SpendFault
    /\ mrow' = [a \in DOMAIN NoJobRow |->
                  LET set == {i \in 1..Len(mlog) : a \in DOMAIN mlog[i]}
                  IN  IF set = {} THEN NoJobRow[a]
                      ELSE mlog[CHOOSE i \in set : \A j \in set : j <= i][a]]
    /\ mmark' = NoMark /\ mstored' \in {NoMark, mstored}
    /\ mlife' = Len(mlog)
    /\ msync' = [msync EXCEPT !.at = Len(mlog), !.saved = Len(mlog), !.base = Len(mlog),
                    !.gen = @ + 1]
    /\ UNCHANGED <<menv, mlog, mprev, mended, march, mlapse>>

MetricsNext ==
    \/ ScheddCommit \/ CommitAll \/ FlushSamples \/ AppendSample \/ SaveOffset
    \/ SamplerRestart \/ ResampleReload
MetricsSpec == MetricsInit /\ [][MetricsNext]_metricsvars

-----------------------------------------------------------------------------
(***************************************************************************)
(* Appends are not idempotent and the log is read again after a conflict   *)
(* or a restart: the archive never holds two samples of one transaction,   *)
(* unless the position that would tell could not be stored (saveMark warns *)
(* of that).  And a derived rate above zero is made only of what the       *)
(* starter of the sample's run reported: never of the counters or the      *)
(* uptime that a previous run left in the job ad.                          *)
(***************************************************************************)
SamplesSound ==
    /\ \A i, j \in DOMAIN march :
          i # j /\ march[i].pos = march[j].pos => march[i].pos \in mlapse.marks
    /\ \A i \in DOMAIN march : march[i].rate => march[i].from = {march[i].run}

(***************************************************************************)
(* A run that began and ended while the sampler was following the log has  *)
(* exactly one terminal sample, whatever conflicts made the tailer read    *)
(* again and whatever positions could not be stored (the comments of       *)
(* collect and MinInterval), or none if the archive refused it.            *)
(***************************************************************************)
SpawnedIn(r) == {i \in mlife + 1..msync.at : "nss" \in DOMAIN mlog[i] /\ mlog[i].nss = r + 1}
EndedAfter(i) ==
    \E k \in i + 1..msync.at : "status" \in DOMAIN mlog[k] /\ mlog[k].status # 2
Endpoints(r) == {i \in DOMAIN march : march[i].run = r /\ march[i].trigger = Terminal}
EndpointKept ==
    msync.pc = "read" =>
        \A r \in 0..MaxRun - 1 : \A i \in SpawnedIn(r) :
            EndedAfter(i) => Cardinality(Endpoints(r)) = IF r \in mlapse.ends THEN 0 ELSE 1
=============================================================================
