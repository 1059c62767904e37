--------------------------- MODULE HistoryProofs ---------------------------
(***************************************************************************)
(* The history tailer (HistorySync): no record is archived twice or out of *)
(* order, none is missing between two that are archived unless a gap was   *)
(* reported, and the saved position is covered by what is on disk.  For    *)
(* every number of files, records, crashes, resyncs and failures; without  *)
(* the named faults, without refused records, and with a schedd that keeps *)
(* at least one rotated file.  And, at the end, the history importer       *)
(* (HistoryImport), which shares no state with it: its stored cursor never *)
(* passes over a record, and it imports none twice but after a failure.    *)
(***************************************************************************)
EXTENDS HistorySync, HistoryImport, FiniteSetTheorems, WellFoundedInduction, TLAPS

-----------------------------------------------------------------------------
\* Least elements of sets of positions.
LEMMA LeastExists ==
    ASSUME NEW S \in SUBSET Nat, S # {}
    PROVE  \E x \in S : \A y \in S : x <= y
<1>1. IsWellFoundedOn(OpToRel(<, Nat), Nat)
    BY NatLessThanWellFounded
<1>2. PICK x \in S : \A y \in S : ~(<<y, x>> \in OpToRel(<, Nat))
    BY <1>1, WFMin
<1>3. ASSUME NEW y \in S, y < x PROVE FALSE
    <2>1. <<y, x>> \in Nat \X Nat /\ <<y, x>>[1] < <<y, x>>[2]
        BY <1>3
    <2>2. <<y, x>> \in OpToRel(<, Nat)
        BY <2>1 DEF OpToRel
    <2> QED BY <1>2, <2>2
<1> QED BY <1>3

LEMMA MinIs ==
    ASSUME NEW S \in SUBSET Nat, S # {}
    PROVE  Min(S) \in S /\ \A y \in S : Min(S) <= y
BY LeastExists DEF Min

LEMMA MinOfTwo ==
    ASSUME NEW m \in Nat, NEW n \in Nat
    PROVE  Min({m, n}) = IF m <= n THEN m ELSE n
<1>1. Min({m, n}) \in {m, n} /\ \A y \in {m, n} : Min({m, n}) <= y
    BY MinIs
<1> QED BY <1>1

LEMMA MaxOfTwo ==
    ASSUME NEW m \in Int, NEW n \in Int
    PROVE  Max({m, n}) = IF m >= n THEN m ELSE n
<1>1. \E x \in {m, n} : \A y \in {m, n} : x >= y
    OBVIOUS
<1>2. Max({m, n}) \in {m, n} /\ \A y \in {m, n} : Max({m, n}) >= y
    BY <1>1 DEF Max
<1> QED BY <1>2

-----------------------------------------------------------------------------
(***************************************************************************)
(* An archive a: its records are in order, and between the first and the   *)
(* last none is missing, but for those before low once a gap was reported. *)
(* A reader may go on at record n, deduping, if n is not before the first  *)
(* record and not beyond the one after the last, unless a gap g explains   *)
(* it.                                                                     *)
(***************************************************************************)
Members(a) == {a[i] : i \in 1..Len(a)}
Increasing(a) == \A i, j \in 1..Len(a) : i < j => a[i] < a[j]
Dense(a, g, low) ==
    a # <<>> => \A x \in a[1]..a[Len(a)] : ~g \/ x >= low => x \in Members(a)
Resumes(a, n, g, low) ==
    a # <<>> => a[1] <= n /\ (n <= a[Len(a)] + 1 \/ (g /\ n <= low))
InOrder(a, g, low) == a \in Seq(Nat) /\ Increasing(a) /\ Dense(a, g, low)

LEMMA Ends ==
    ASSUME NEW a \in Seq(Nat), Increasing(a), a # <<>>
    PROVE  /\ Len(a) \in Nat \ {0} /\ a[1] \in Nat /\ a[Len(a)] \in Nat
           /\ \A i \in 1..Len(a) : a[i] \in Nat /\ a[1] <= a[i] /\ a[i] <= a[Len(a)]
<1>1. Len(a) \in Nat /\ Len(a) # 0 /\ \A i \in 1..Len(a) : a[i] \in Nat
    OBVIOUS
<1>2. ASSUME NEW i \in 1..Len(a) PROVE a[1] <= a[i] /\ a[i] <= a[Len(a)]
    <2>1. 1 \in 1..Len(a) /\ Len(a) \in 1..Len(a) /\ a[1] \in Nat /\ a[i] \in Nat /\ a[Len(a)] \in Nat
        BY <1>1
    <2>2. 1 < i => a[1] < a[i]
        BY <2>1 DEF Increasing
    <2>3. i < Len(a) => a[i] < a[Len(a)]
        BY <2>1 DEF Increasing
    <2>4. (i = 1 \/ 1 < i) /\ (i = Len(a) \/ i < Len(a))
        BY <1>1
    <2> QED BY <2>1, <2>2, <2>3, <2>4
<1> QED BY <1>1, <1>2

\* A crash keeps a prefix.
Prefix(a, n, b) == b \in Seq(Nat) /\ Len(b) = n /\ \A i \in 1..n : b[i] = a[i]

LEMMA PrefixIs ==
    ASSUME NEW a \in Seq(Nat), NEW n \in 0..Len(a)
    PROVE  Prefix(a, n, SubSeq(a, 1, n))
BY DEF Prefix

LEMMA PrefixInOrder ==
    ASSUME NEW a, NEW g \in BOOLEAN, NEW low \in Nat, InOrder(a, g, low), NEW n \in 0..Len(a),
           NEW b, Prefix(a, n, b)
    PROVE  InOrder(b, g, low)
<1>1. a \in Seq(Nat) /\ Len(a) \in Nat
    BY DEF InOrder
<1>2. b \in Seq(Nat) /\ Len(b) = n /\ \A i \in 1..n : b[i] = a[i]
    BY DEF Prefix
<1>3. Increasing(b)
    <2>1. \A i, j \in 1..Len(a) : i < j => a[i] < a[j]
        BY DEF InOrder, Increasing
    <2>2. \A i \in 1..n : i \in 1..Len(a)
        BY <1>1
    <2> QED BY <1>2, <2>1, <2>2 DEF Increasing
<1>4. ASSUME b # <<>>, NEW x \in b[1]..b[Len(b)], ~g \/ x >= low PROVE x \in Members(b)
    <2>1. n > 0 /\ a # <<>> /\ n \in 1..Len(a)
        BY <1>1, <1>2, <1>4
    <2>2. a[1] \in Nat /\ a[n] \in Nat /\ a[Len(a)] \in Nat /\ a[n] <= a[Len(a)]
        BY <1>1, <2>1, Ends DEF InOrder
    <2>3. x \in a[1]..a[Len(a)] /\ x <= a[n]
        BY <1>2, <1>4, <2>1, <2>2
    <2>4. PICK i \in 1..Len(a) : x = a[i]
        BY <1>4, <2>1, <2>3 DEF InOrder, Dense, Members
    <2>5. ~(n < i)
        <3> SUFFICES ASSUME n < i PROVE FALSE
            OBVIOUS
        <3>1. a[n] < a[i]
            BY <2>1 DEF InOrder, Increasing
        <3> QED BY <2>2, <2>3, <2>4, <3>1
    <2>6. i \in 1..n
        BY <1>1, <2>5
    <2> QED BY <1>2, <2>4, <2>6 DEF Members
<1> QED BY <1>2, <1>3, <1>4 DEF InOrder, Dense

-----------------------------------------------------------------------------
(***************************************************************************)
(* Ingest.  The reader takes the k records from nx on.  Either the archive *)
(* has them all, or those from some r on are appended, and r is the record *)
(* after the last one, or the first after a gap.                           *)
(***************************************************************************)
Run(n, k) == [i \in 1..k |-> n + i - 1]
Reads(a, nx, d, g, low) ==
    /\ Resumes(a, nx, g, low)
    /\ ~d => a = <<>> \/ a[Len(a)] = nx - 1
Took(a, nx, k, d, b, e, g, low) ==
    \/ b = a /\ (e <=> d) /\ (k > 0 => d /\ nx..nx + k - 1 \subseteq Members(a))
    \/ ~e /\ \E r \in nx..nx + k - 1 :
          /\ b = a \o Run(r, nx + k - r)
          /\ a = <<>> => r = nx
          /\ a # <<>> => a[Len(a)] < r /\ (r = a[Len(a)] + 1 \/ (g /\ r <= low))
Ingests(a, recs, d, b, e) ==
    LET lacking == {i \in DOMAIN recs : d => recs[i] \notin Members(a)} IN
    IF lacking = {} THEN b = a /\ e = d
    ELSE b = a \o SubSeq(recs, Min(lacking), Len(recs)) /\ e = FALSE

LEMMA IngestTakes ==
    ASSUME NEW a, NEW g \in BOOLEAN, NEW low \in Nat, InOrder(a, g, low),
           NEW nx \in Nat \ {0}, low <= nx, NEW k \in Nat, NEW d \in BOOLEAN,
           Reads(a, nx, d, g, low), NEW b, NEW e, Ingests(a, Run(nx, k), d, b, e)
    PROVE  Took(a, nx, k, d, b, e, g, low)
<1> DEFINE recs == Run(nx, k)
           lacking == {i \in DOMAIN recs : d => recs[i] \notin Members(a)}
<1>1. recs \in Seq(Nat) /\ Len(recs) = k /\ DOMAIN recs = 1..k /\ \A i \in 1..k : recs[i] = nx + i - 1
    BY DEF Run
<1>2. a \in Seq(Nat) /\ Increasing(a)
    BY DEF InOrder
<1>3. IF lacking = {} THEN b = a /\ e = d
      ELSE b = a \o SubSeq(recs, Min(lacking), Len(recs)) /\ e = FALSE
    BY DEF Ingests
<1>4. lacking \in SUBSET Nat /\ lacking \subseteq 1..k
    BY <1>1
<1>l. \A i \in 1..k : (i \in lacking) <=> (d => nx + i - 1 \notin Members(a))
    BY <1>1
<1> HIDE DEF recs, lacking
<1>5. CASE lacking = {}
    <2>1. b = a /\ (e <=> d)
        BY <1>3, <1>5
    <2>2. ASSUME NEW x \in nx..nx + k - 1 PROVE d /\ x \in Members(a)
        <3>1. x - nx + 1 \in 1..k /\ nx + (x - nx + 1) - 1 = x
            OBVIOUS
        <3> QED BY <1>5, <1>l, <3>1
    <2>3. k > 0 => nx \in nx..nx + k - 1
        OBVIOUS
    <2> QED BY <2>1, <2>2, <2>3 DEF Took
<1>6. CASE lacking # {}
    <2> DEFINE m == Min(lacking)
               r == nx + m - 1
    <2>1. m \in lacking /\ \A y \in lacking : m <= y
        BY <1>4, <1>6, MinIs
    <2> HIDE DEF m
    <2>2. m \in 1..k /\ (d => r \notin Members(a)) /\ r \in nx..nx + k - 1
        BY <1>4, <1>l, <2>1
    <2>3. b = a \o SubSeq(recs, m, k) /\ ~e
        BY <1>1, <1>3, <1>6 DEF m
    <2>4. SubSeq(recs, m, k) = Run(r, nx + k - r)
        <3>1. SubSeq(recs, m, k) = [i \in 1..k - m + 1 |-> recs[i + m - 1]]
            BY <1>1, <2>2
        <3>2. nx + k - r = k - m + 1
            BY <2>2
        <3>3. \A i \in 1..k - m + 1 : recs[i + m - 1] = r + i - 1
            BY <1>1, <2>2
        <3> QED BY <3>1, <3>2, <3>3 DEF Run
    <2>5. ASSUME m > 1 PROVE d /\ r - 1 \in Members(a)
        <3>1. m - 1 \in 1..k /\ m - 1 \notin lacking /\ nx + (m - 1) - 1 = r - 1
            BY <2>1, <2>2, <2>5
        <3> QED BY <1>l, <3>1
    <2>6. a = <<>> => r = nx
        <3> SUFFICES ASSUME a = <<>> PROVE m = 1
            BY <2>2
        <3>1. Members(a) = {}
            BY DEF Members
        <3> QED BY <2>2, <2>5, <3>1
    <2>7. ASSUME a # <<>> PROVE a[Len(a)] < r /\ (r = a[Len(a)] + 1 \/ (g /\ r <= low))
        <3> DEFINE hi == a[Len(a)]
        <3>1. hi \in Nat /\ a[1] \in Nat /\ \A x \in Members(a) : x <= hi
            BY <1>2, <2>7, Ends DEF Members
        <3>2. a[1] <= nx /\ (nx <= hi + 1 \/ (g /\ nx <= low))
            BY <2>7 DEF Reads, Resumes
        <3>3. ~d => hi = nx - 1
            BY <2>7 DEF Reads
        <3>4. d /\ r <= hi => r \in Members(a)
            <4> SUFFICES ASSUME d, r <= hi PROVE r \in Members(a)
                OBVIOUS
            <4>1. r \in a[1]..hi /\ r >= low
                BY <2>2, <3>1, <3>2
            <4> QED BY <2>7, <4>1 DEF InOrder, Dense
        <3> HIDE DEF hi
        <3>5. hi < r
            BY <2>2, <3>1, <3>3, <3>4
        <3>6. m = 1 => r = hi + 1 \/ (g /\ r <= low)
            BY <2>2, <3>1, <3>2, <3>5
        <3>7. m > 1 => r = hi + 1
            <4> SUFFICES ASSUME m > 1 PROVE r = hi + 1
                OBVIOUS
            <4>1. r - 1 <= hi
                BY <2>5, <3>1
            <4> QED BY <2>2, <3>1, <3>5, <4>1
        <3> QED BY <2>2, <3>5, <3>6, <3>7 DEF hi
    <2> QED BY <2>2, <2>3, <2>4, <2>6, <2>7 DEF Took
<1> QED BY <1>5, <1>6

\* What is kept, and what is there afterwards.
Grew(a, b) ==
    /\ Len(a) <= Len(b) /\ \A i \in 1..Len(a) : b[i] = a[i]
    /\ a # <<>> => \A i \in Len(a)..Len(b) : a[Len(a)] <= b[i]

LEMMA TookKeeps ==
    ASSUME NEW a, NEW g \in BOOLEAN, NEW low \in Nat, InOrder(a, g, low),
           NEW nx \in Nat \ {0}, low <= nx, NEW k \in Nat, NEW d \in BOOLEAN,
           Reads(a, nx, d, g, low), NEW b, NEW e \in BOOLEAN, Took(a, nx, k, d, b, e, g, low)
    PROVE  /\ InOrder(b, g, low) /\ Reads(b, nx + k, e, g, low) /\ Grew(a, b)
           /\ k > 0 => nx + k - 1 \in Members(b)
           /\ a = <<>> /\ b # <<>> => b[1] = nx
<1>1. a \in Seq(Nat) /\ Increasing(a) /\ Dense(a, g, low) /\ Len(a) \in Nat
    BY DEF InOrder
<1>2. CASE b = a /\ (e <=> d) /\ (k > 0 => d /\ nx..nx + k - 1 \subseteq Members(a))
    <2>1. k > 0 => nx + k - 1 \in Members(a)
        BY <1>2
    <2>2. Grew(a, a)
        BY <1>1, Ends DEF Grew
    <2>3. Reads(a, nx + k, e, g, low)
        <3>1. CASE k = 0
            BY <1>2, <3>1
        <3>2. CASE k > 0 /\ a # <<>>
            <4>1. a[1] \in Nat /\ a[Len(a)] \in Nat /\ nx + k - 1 <= a[Len(a)]
                BY <1>1, <2>1, <3>2, Ends DEF Members
            <4>2. a[1] <= nx
                BY <3>2 DEF Reads, Resumes
            <4> QED BY <1>2, <3>2, <4>1, <4>2 DEF Reads, Resumes
        <3>3. CASE k > 0 /\ a = <<>>
            BY <1>2, <3>3 DEF Reads, Resumes
        <3> QED BY <3>1, <3>2, <3>3
    <2> QED BY <1>2, <2>1, <2>2, <2>3
<1>3. ASSUME ~e, NEW r \in nx..nx + k - 1, b = a \o Run(r, nx + k - r), a = <<>> => r = nx,
             a # <<>> => a[Len(a)] < r /\ (r = a[Len(a)] + 1 \/ (g /\ r <= low))
      PROVE  /\ InOrder(b, g, low) /\ Reads(b, nx + k, e, g, low) /\ Grew(a, b)
             /\ nx + k - 1 \in Members(b)
             /\ a = <<>> /\ b # <<>> => b[1] = nx
    <2> DEFINE c == nx + k - r
               n == Len(a)
    <2>1. c \in Nat \ {0} /\ n \in Nat
        BY <1>1
    <2>2. Run(r, c) \in Seq(Nat) /\ Len(Run(r, c)) = c /\ \A i \in 1..c : Run(r, c)[i] = r + i - 1
        BY <2>1 DEF Run
    <2>3. /\ b \in Seq(Nat) /\ Len(b) = n + c
          /\ \A i \in 1..n : b[i] = a[i]
          /\ \A i \in n + 1..n + c : b[i] = r + (i - n) - 1
        <3> DEFINE w == Run(r, c)
        <3>1. b = a \o w
            BY <1>3
        <3>2. w \in Seq(Nat) /\ Len(w) = c /\ \A i \in 1..c : w[i] = r + i - 1
            BY <2>2
        <3>n. a \in Seq(Nat) /\ Len(a) = n
            BY <1>1
        <3> HIDE DEF w, c, n
        <3>3. b \in Seq(Nat) /\ Len(b) = n + c
            <4>0. a \in Seq(Nat) /\ w \in Seq(Nat)
                BY <3>2, <3>n
            <4>1. a \o w \in Seq(Nat)
                BY <4>0
            <4>2. Len(a \o w) = Len(a) + Len(w)
                BY <4>0
            <4> QED BY <3>1, <3>2, <3>n, <4>1, <4>2
        <3>4. \A i \in 1..n : b[i] = a[i]
            BY <2>1, <3>1, <3>2, <3>n
        <3>5. ASSUME NEW i \in n + 1..n + c PROVE b[i] = r + (i - n) - 1
            <4>1. i - n \in 1..c /\ i \in 1..n + c /\ ~(i <= n)
                BY <2>1
            <4>2. b[i] = w[i - n]
                BY <2>1, <3>1, <3>2, <3>n, <4>1, SMTT(20)
            <4> QED BY <3>2, <4>1, <4>2
        <3> QED BY <3>3, <3>4, <3>5
    <2>4. a # <<>> => n > 0 /\ a[1] \in Nat /\ a[n] \in Nat /\ a[1] <= a[n]
                     /\ \A i \in 1..n : a[i] \in Nat /\ a[i] <= a[n]
        BY <1>1, Ends
    <2>5. a = <<>> <=> n = 0
        BY <1>1
    <2>h. a # <<>> => a[n] < r /\ (r = a[n] + 1 \/ (g /\ r <= low))
        BY <1>3
    <2>d. a # <<>> => \A x \in a[1]..a[n] : ~g \/ x >= low => x \in Members(a)
        BY <1>1 DEF Dense
    <2>e. nx + k = r + c
        OBVIOUS
    <2>l. b # <<>> /\ Len(b) = n + c
        BY <2>1, <2>3
    <2>s. \A i, j \in 1..n : i < j => a[i] < a[j]
        BY <1>1 DEF Increasing
    <2> HIDE DEF c, n
    <2>6. Increasing(b)
        <3> SUFFICES ASSUME NEW i \in 1..n + c, NEW j \in 1..n + c, i < j PROVE b[i] < b[j]
            BY <2>3 DEF Increasing
        <3>1. CASE j <= n
            BY <2>1, <2>3, <2>s, <3>1
        <3>2. CASE i > n
            BY <2>1, <2>3, <3>2
        <3>3. CASE i <= n /\ j > n
            <4>1. a # <<>> /\ a[i] <= a[n] /\ a[i] \in Nat /\ a[n] \in Nat /\ b[i] = a[i]
                BY <2>1, <2>3, <2>4, <2>5, <3>3
            <4>2. b[j] = r + (j - n) - 1 /\ j - n >= 1
                BY <2>1, <2>3, <3>3
            <4> QED BY <2>1, <2>h, <4>1, <4>2
        <3> QED BY <2>1, <3>1, <3>2, <3>3
    <2>7. b[n + c] = r + c - 1 /\ b[1] = IF n = 0 THEN r ELSE a[1]
        BY <2>1, <2>3
    <2>8. ASSUME NEW x \in b[1]..b[Len(b)], ~g \/ x >= low PROVE x \in Members(b)
        <3>1. x \in b[1]..r + c - 1 /\ b[1] \in Nat /\ x \in Nat
            BY <2>1, <2>3, <2>7, <2>8, <2>l, <2>4, <2>5
        <3>2. CASE x >= r
            <4>1. x - r + 1 + n \in n + 1..n + c /\ r + (x - r + 1 + n - n) - 1 = x
                BY <2>1, <3>1, <3>2
            <4>2. b[x - r + 1 + n] = x /\ x - r + 1 + n \in 1..Len(b)
                BY <2>1, <2>3, <4>1
            <4> QED BY <4>2 DEF Members
        <3>3. CASE x < r
            <4>1. a # <<>> /\ n > 0 /\ b[1] = a[1]
                BY <2>1, <2>5, <2>7, <3>1, <3>3
            <4>2. x <= a[n]
                BY <2>8, <2>4, <2>h, <3>1, <3>3, <4>1
            <4>3. x \in Members(a)
                BY <2>8, <2>d, <3>1, <4>1, <4>2, <2>4
            <4>4. PICK i \in 1..n : a[i] = x
                BY <4>3 DEF Members, n
            <4>5. b[i] = x /\ i \in 1..Len(b)
                BY <2>1, <2>3, <4>4
            <4> QED BY <4>5 DEF Members
        <3> QED BY <3>1, <3>2, <3>3
    <2>9. Reads(b, nx + k, e, g, low)
        <3>1. b[Len(b)] = (nx + k) - 1 /\ b[1] \in Nat /\ b[1] <= nx + k
            BY <2>1, <2>4, <2>5, <2>7, <2>h, <2>l, <2>e
        <3> QED BY <2>1, <3>1 DEF Reads, Resumes
    <2>10. Grew(a, b)
        <3>1. n <= Len(b) /\ \A i \in 1..n : b[i] = a[i]
            BY <2>1, <2>3
        <3>2. ASSUME a # <<>>, NEW i \in n..Len(b) PROVE a[n] <= b[i]
            <4>1. CASE i = n
                BY <2>3, <2>4, <3>2, <4>1
            <4>2. CASE i > n
                BY <2>1, <2>3, <2>4, <2>h, <3>2, <4>2, SMTT(20)
            <4> QED BY <2>1, <4>1, <4>2
        <3> QED BY <3>1, <3>2 DEF Grew, n
    <2>11. nx + k - 1 \in Members(b)
        <3>1. n + c \in 1..Len(b)
            BY <2>1, <2>l
        <3>2. b[n + c] = nx + k - 1
            BY <2>1, <2>7, <2>e
        <3> QED BY <3>1, <3>2 DEF Members
    <2>12. a = <<>> => b[1] = nx
        BY <1>3, <2>5, <2>7
    <2>13. InOrder(b, g, low)
        BY <2>3, <2>6, <2>8 DEF InOrder, Dense
    <2> QED BY <2>9, <2>10, <2>11, <2>12, <2>13
<1> QED BY <1>2, <1>3 DEF Took

-----------------------------------------------------------------------------
(***************************************************************************)
(* The invariant.  The reader of a running tailer stands at NextRecord: in *)
(* a restore, at the file to be drained next, or at the head of the current*)
(* one; afterwards, at the offset of the open file, or at the head of the  *)
(* file it will open.  Low is the first record that is still on disk.      *)
(***************************************************************************)
Low == IF files = <<>> THEN 1 ELSE files[oldest].first
HeadRecord == IF atPath THEN files[newest].first ELSE Written + 1
Active == started \/ pc = "restore"
NextBase ==
    IF pc = "restore" THEN IF todo # <<>> THEN files[Head(todo).file].first ELSE HeadRecord
    ELSE IF handle # 0 THEN files[handle].first ELSE HeadRecord
NextOff ==
    IF pc = "restore" THEN IF todo # <<>> THEN Head(todo).off ELSE startOff ELSE offset
NextRecord == NextBase + NextOff

\* The archive was emptied from outside and the tailer has not noticed yet.
Emptied == archive = <<>> /\ lastCount > 0

\* The files hold consecutive records; each has its own identity.
DiskOK ==
    /\ files \in Seq(File)
    /\ \A f, g \in 1..newest : f < g => files[f].first + files[f].size <= files[g].first
    /\ \A f \in 1..newest - 1 : files[f + 1].first = files[f].first + files[f].size
    /\ \A f \in 1..newest : f < newest \/ ~atPath => files[f].size > 0
    /\ \A f, g \in 1..newest : f # g => files[f].id # files[g].id
    /\ oldest \in 1..newest \/ (files = <<>> /\ oldest = 1)
    /\ atPath => files # <<>>
    /\ torn => atPath
    /\ atPath \in BOOLEAN /\ torn \in BOOLEAN

\* The archive begins with the first record of a file.
ArchiveOK ==
    /\ InOrder(archive, gap, Low) /\ durable \in 0..Len(archive)
    /\ archive # <<>> => \E f \in 1..newest : archive[1] = files[f].first

\* A rewind is due only while the current file is open, or none; a crash does
\* not come between the emptying of the archive and the rewind.
ControlOK ==
    /\ pc \in {"down", "idle", "restore", "stat", "saveold", "open", "drain", "save"}
    /\ started \in BOOLEAN /\ dedup \in BOOLEAN /\ resyncReq \in BOOLEAN /\ gap \in BOOLEAN
    /\ wiped \in BOOLEAN /\ lastCount \in Nat
    /\ pc \in {"down", "restore"} => ~started
    /\ pc \in {"stat", "saveold", "open", "drain", "save"} => started
    /\ ~started => ~wiped
    /\ RewindDue => started /\ (handle = 0 \/ (handle = newest /\ atPath))
    /\ Emptied => pc = "idle"
    /\ Emptied /\ pos.saved => wiped

\* The open file is the current one, or the one before it.
HandleOK ==
    /\ handle \in 0..newest /\ offset \in Nat
    /\ handle = 0 => offset = 0
    /\ handle # 0 =>
         /\ started /\ oldest <= handle /\ offset <= files[handle].size
         /\ handle = newest \/ (handle = newest - 1 /\ atPath)
    /\ pc \in {"drain", "save"} => handle # 0
    /\ pc = "saveold" => handle # 0 /\ handle # newest /\ offset = files[handle].size
    /\ pc = "open" => handle = 0

\* What a restore has still to drain ends with the file before the current one.
LastRotated == IF atPath THEN newest - 1 ELSE newest
TodoOK ==
    /\ pc # "restore" => todo = <<>> /\ startOff = 0
    /\ startOff \in Nat /\ todo \in Seq([file : Nat, off : Nat])
    /\ startOff > 0 => todo = <<>> /\ atPath /\ startOff <= files[newest].size
    /\ \A i \in 1..Len(todo) :
         /\ todo[i].file \in oldest..newest /\ todo[i].off <= files[todo[i].file].size
         /\ todo[i].file = LastRotated - (Len(todo) - i)
         /\ i > 1 => todo[i].off = 0

\* The reader may go on where it stands, and what it has consumed is archived.
ReaderOK ==
    Active =>
        /\ Reads(archive, NextRecord, dedup, gap, Low)
        /\ ~Emptied /\ NextOff > 0 => NextRecord - 1 \in Members(archive)

(***************************************************************************)
(* The saved position, record p of file f: if the archive is empty, the    *)
(* reader stands there; what is before p is durable; and if f is on disk, a*)
(* restart may resume at p whatever prefix of the archive a crash leaves.  *)
(***************************************************************************)
PositionRecord(f) == files[f].first + pos.off
Begins(a, p, low) == a # <<>> => a[1] <= p \/ a[1] <= low
Spans(a, dur, p, g, low) ==
    \A n \in dur..Len(a) : n > 0 => a[1] <= p /\ (p <= a[n] + 1 \/ (g /\ p <= low))
PosAt(f) ==
    /\ pos.off <= files[f].size
    /\ Begins(archive, PositionRecord(f), Low)
    /\ Active /\ archive = <<>> =>
          NextRecord = PositionRecord(f) \/ (f < oldest /\ NextRecord <= Low)
    /\ pos.off > 0 => \E i \in 1..durable : archive[i] = PositionRecord(f) - 1
    /\ f >= oldest => Spans(archive, durable, PositionRecord(f), gap, Low)

PosOK ==
    /\ pos \in Position
    /\ pos.saved => \E f \in 1..newest : files[f].id = pos.id
    /\ pos.saved /\ ~wiped => \A f \in 1..newest : files[f].id = pos.id => PosAt(f)
    /\ ~pos.saved /\ ~Active => Resumes(archive, Low, FALSE, Low)

IndInv == DiskOK /\ ArchiveOK /\ ControlOK /\ HandleOK /\ TodoOK /\ ReaderOK /\ PosOK

-----------------------------------------------------------------------------
LEMMA FileFacts ==
    DiskOK => /\ newest \in Nat /\ oldest \in Nat
              /\ \A f \in 1..newest : /\ files[f].first \in Nat \ {0} /\ files[f].size \in Nat
                                      /\ files[f].id \in Inode
<1> SUFFICES ASSUME DiskOK
    PROVE  /\ newest \in Nat /\ oldest \in Nat
           /\ \A f \in 1..newest : /\ files[f].first \in Nat \ {0} /\ files[f].size \in Nat
                                   /\ files[f].id \in Inode
    OBVIOUS
<1>1. files \in Seq(File) /\ newest \in Nat
    BY DEF DiskOK, newest
<1>2. \A f \in 1..newest : files[f] \in File
    BY <1>1 DEF newest
<1>3. oldest \in Nat
    BY <1>1 DEF DiskOK
<1> QED BY <1>1, <1>2, <1>3 DEF File

LEMMA LowFacts ==
    DiskOK => /\ Low \in Nat \ {0} /\ HeadRecord \in Nat \ {0} /\ Low <= HeadRecord
              /\ Written \in Nat
              /\ \A f \in 1..newest : f >= oldest => Low <= files[f].first
              /\ \A f \in 1..newest : f < oldest => files[f].first + files[f].size <= Low
<1> SUFFICES ASSUME DiskOK
    PROVE  /\ Low \in Nat \ {0} /\ HeadRecord \in Nat \ {0} /\ Low <= HeadRecord
           /\ Written \in Nat
           /\ \A f \in 1..newest : f >= oldest => Low <= files[f].first
           /\ \A f \in 1..newest : f < oldest => files[f].first + files[f].size <= Low
    OBVIOUS
<1>1. /\ newest \in Nat /\ oldest \in Nat
      /\ \A f \in 1..newest : files[f].first \in Nat \ {0} /\ files[f].size \in Nat
    BY FileFacts
<1>2. CASE files = <<>>
    <2>1. newest = 0 /\ ~atPath
        BY <1>2 DEF newest, DiskOK
    <2>2. Low = 1 /\ Written = 0 /\ HeadRecord = 1
        BY <1>2, <2>1 DEF Low, Written, HeadRecord
    <2> QED BY <2>1, <2>2
<1>3. CASE files # <<>>
    <2>1. oldest \in 1..newest /\ Low = files[oldest].first
          /\ Written = files[newest].first + files[newest].size - 1
        BY <1>3 DEF DiskOK, Low, Written
    <2>2. \A f, g \in 1..newest : f < g => files[f].first + files[f].size <= files[g].first
        BY DEF DiskOK
    <2>3. newest \in 1..newest
        BY <1>1, <2>1
    <2> HIDE DEF newest
    <2>4. ASSUME NEW f \in 1..newest, f >= oldest PROVE Low <= files[f].first
        <3>1. f = oldest \/ oldest < f
            BY <1>1, <2>4
        <3>2. oldest < f => files[oldest].first + files[oldest].size <= files[f].first
            BY <2>1, <2>2
        <3> QED BY <1>1, <2>1, <3>1, <3>2
    <2>5. \A f \in 1..newest : f < oldest => files[f].first + files[f].size <= Low
        BY <2>1, <2>2
    <2>6. Low <= files[newest].first
        BY <2>1, <2>3, <2>4
    <2>7. Low \in Nat \ {0} /\ files[newest].first \in Nat \ {0} /\ files[newest].size \in Nat
        BY <1>1, <2>1, <2>3
    <2>8. HeadRecord = files[newest].first \/ HeadRecord = Written + 1
        BY DEF HeadRecord
    <2> QED BY <2>1, <2>4, <2>5, <2>6, <2>7, <2>8
<1> QED BY <1>2, <1>3

LEMMA HeadIs ==
    ASSUME NEW S, NEW s \in Seq(S), s # <<>>
    PROVE  1 \in 1..Len(s) /\ Head(s) = s[1] /\ s[1] \in S
<1>1. Len(s) \in Nat /\ Len(s) # 0
    OBVIOUS
<1> QED BY <1>1

\* Where the reader can be.
LEMMA NextFacts ==
    IndInv /\ Active =>
        /\ NextBase \in Nat \ {0} /\ NextOff \in Nat /\ NextRecord \in Nat \ {0}
        /\ Low <= NextBase /\ Low <= NextRecord /\ NextRecord = NextBase + NextOff
<1> SUFFICES ASSUME IndInv, Active
    PROVE  /\ NextBase \in Nat \ {0} /\ NextOff \in Nat /\ NextRecord \in Nat \ {0}
           /\ Low <= NextBase /\ Low <= NextRecord /\ NextRecord = NextBase + NextOff
    OBVIOUS
<1>1. DiskOK /\ HandleOK /\ TodoOK
    BY DEF IndInv
<1>2. /\ newest \in Nat /\ oldest \in Nat
      /\ \A f \in 1..newest : files[f].first \in Nat \ {0} /\ files[f].size \in Nat
    BY <1>1, FileFacts
<1>3. /\ Low \in Nat \ {0} /\ HeadRecord \in Nat \ {0} /\ Low <= HeadRecord
      /\ \A f \in 1..newest : f >= oldest => Low <= files[f].first
    BY <1>1, LowFacts
<1>4. NextBase \in Nat \ {0} /\ Low <= NextBase /\ NextOff \in Nat
    <2>1. CASE pc = "restore" /\ todo # <<>>
        <3>0. todo \in Seq([file : Nat, off : Nat])
            BY <1>1 DEF TodoOK
        <3>a. 1 \in 1..Len(todo) /\ Head(todo) = todo[1] /\ todo[1] \in [file : Nat, off : Nat]
            BY <2>1, <3>0, HeadIs
        <3>1. 1 \in 1..Len(todo) /\ Head(todo) = todo[1] /\ todo[1].off \in Nat
            BY <3>a
        <3>2. todo[1].file \in oldest..newest
            BY <1>1, <3>1 DEF TodoOK
        <3>3. oldest >= 1
            BY <1>1 DEF DiskOK
        <3>4. todo[1].file \in 1..newest /\ todo[1].file >= oldest
            BY <1>2, <3>2, <3>3
        <3> QED BY <1>2, <1>3, <2>1, <3>1, <3>4 DEF NextBase, NextOff
    <2>2. CASE pc = "restore" /\ todo = <<>>
        BY <1>1, <1>3, <2>2 DEF NextBase, NextOff, TodoOK
    <2>3. CASE pc # "restore" /\ handle = 0
        BY <1>1, <1>3, <2>3 DEF NextBase, NextOff, HandleOK
    <2>4. CASE pc # "restore" /\ handle # 0
        <3>1. handle \in 1..newest /\ handle >= oldest /\ offset \in Nat
            BY <1>1, <1>2, <2>4 DEF HandleOK
        <3> QED BY <1>2, <1>3, <2>4, <3>1 DEF NextBase, NextOff
    <2> QED BY <2>1, <2>2, <2>3, <2>4
<1>5. NextRecord = NextBase + NextOff
    BY DEF NextRecord
<1> QED BY <1>3, <1>4, <1>5

LEMMA ArchiveFacts ==
    IndInv => /\ archive \in Seq(Nat) /\ Len(archive) \in Nat /\ Increasing(archive)
              /\ InOrder(archive, gap, Low) /\ durable \in Nat /\ durable <= Len(archive)
              /\ gap \in BOOLEAN /\ dedup \in BOOLEAN /\ wiped \in BOOLEAN /\ Low \in Nat \ {0}
              /\ Archived = Members(archive)
<1> SUFFICES ASSUME IndInv
    PROVE  /\ archive \in Seq(Nat) /\ Len(archive) \in Nat /\ Increasing(archive)
           /\ InOrder(archive, gap, Low) /\ durable \in Nat /\ durable <= Len(archive)
           /\ gap \in BOOLEAN /\ dedup \in BOOLEAN /\ wiped \in BOOLEAN /\ Low \in Nat \ {0}
           /\ Archived = Members(archive)
    OBVIOUS
<1>1. InOrder(archive, gap, Low) /\ durable \in 0..Len(archive)
    BY DEF IndInv, ArchiveOK
<1>2. archive \in Seq(Nat) /\ Len(archive) \in Nat /\ Increasing(archive)
    BY <1>1 DEF InOrder
<1>3. gap \in BOOLEAN /\ dedup \in BOOLEAN /\ wiped \in BOOLEAN
    BY DEF IndInv, ControlOK
<1>4. Low \in Nat \ {0}
    BY LowFacts DEF IndInv
<1>5. Archived = Members(archive)
    BY <1>2 DEF Archived, Members
<1> QED BY <1>1, <1>2, <1>3, <1>4, <1>5

-----------------------------------------------------------------------------
LEMMA InitOK == Init => IndInv
<1> SUFFICES ASSUME Init PROVE IndInv
    OBVIOUS
<1> USE DEF Init
<1>1. newest = 0 /\ Low = 1
    BY DEF newest, Low
<1>2. DiskOK
    <2>1. files \in Seq(File) /\ 1..newest = {} /\ 1..newest - 1 = {}
        BY <1>1
    <2> QED BY <2>1 DEF DiskOK
<1>3. ArchiveOK
    BY <1>1 DEF ArchiveOK, InOrder, Increasing, Dense, Members
<1>4. ControlOK
    <2>1. ~RewindDue /\ ~Emptied
        BY DEF RewindDue, Emptied
    <2> QED BY <2>1 DEF ControlOK
<1>5. HandleOK /\ TodoOK
    BY <1>1 DEF HandleOK, TodoOK
<1>6. ReaderOK
    BY DEF ReaderOK, Active
<1>7. PosOK
    BY DEF PosOK, NoPosition, Position, Resumes
<1> QED BY <1>2, <1>3, <1>4, <1>5, <1>6, <1>7 DEF IndInv

-----------------------------------------------------------------------------
(***************************************************************************)
(* Steps that leave the files, the archive, the position and the reader    *)
(* where they are.                                                         *)
(***************************************************************************)
SamePlace ==
    /\ UNCHANGED <<disk, archive, durable, pos, wiped, gap, dedup>>
    /\ Active' <=> Active
    /\ Active => NextRecord' = NextRecord /\ NextOff' = NextOff
    /\ Emptied => Emptied'

LEMMA DiskKept ==
    UNCHANGED disk => /\ files' = files /\ oldest' = oldest /\ atPath' = atPath /\ torn' = torn
                      /\ newest' = newest /\ Low' = Low /\ HeadRecord' = HeadRecord
                      /\ LastRotated' = LastRotated /\ (DiskOK => DiskOK')
BY SMTT(20) DEF disk, newest, Low, HeadRecord, Written, LastRotated, DiskOK

LEMMA SamePlaceKeeps ==
    IndInv /\ SamePlace => DiskOK' /\ ArchiveOK' /\ ReaderOK' /\ PosOK'
<1> SUFFICES ASSUME IndInv, SamePlace PROVE DiskOK' /\ ArchiveOK' /\ ReaderOK' /\ PosOK'
    OBVIOUS
<1>0. DiskOK /\ ArchiveOK /\ ReaderOK /\ PosOK
    BY DEF IndInv
<1>1. /\ files' = files /\ oldest' = oldest /\ newest' = newest /\ Low' = Low /\ DiskOK'
    BY <1>0, DiskKept DEF SamePlace
<1>2. /\ archive' = archive /\ durable' = durable /\ pos' = pos /\ wiped' = wiped /\ gap' = gap
      /\ dedup' = dedup /\ (Active' <=> Active) /\ (Emptied => Emptied')
      /\ Active => NextRecord' = NextRecord /\ NextOff' = NextOff
    BY DEF SamePlace
<1> HIDE DEF newest
<1>3. ArchiveOK'
    BY <1>0, <1>1, <1>2 DEF ArchiveOK
<1>4. ReaderOK'
    BY <1>0, <1>1, <1>2 DEF ReaderOK
<1>5. ASSUME NEW f \in 1..newest, PosAt(f) PROVE PosAt(f)'
    <2>1. PositionRecord(f)' = PositionRecord(f)
        BY <1>1, <1>2 DEF PositionRecord
    <2> QED BY <1>1, <1>2, <1>5, <2>1 DEF PosAt
<1>6. PosOK'
    BY <1>0, <1>1, <1>2, <1>5 DEF PosOK
<1> QED BY <1>1, <1>3, <1>4, <1>6

LEMMA StartOK == IndInv /\ Start => IndInv'
<1> SUFFICES ASSUME IndInv, Start PROVE IndInv'
    OBVIOUS
<1>0. DiskOK /\ ControlOK /\ HandleOK /\ TodoOK
    BY DEF IndInv
<1>1. /\ pc = "down" /\ pc' = "idle" /\ started' = started /\ todo' = todo /\ startOff' = startOff
      /\ handle' = handle /\ offset' = offset /\ lastCount' = lastCount /\ resyncReq' = resyncReq
      /\ UNCHANGED <<disk, archive, durable, pos, wiped, gap, dedup>>
    BY DEF Start, saved, reader, restoring
<1>2. files' = files /\ oldest' = oldest /\ atPath' = atPath /\ newest' = newest /\ LastRotated' = LastRotated
    BY <1>1, DiskKept
<1>3. ~started /\ ~Active /\ ~Active'
    BY <1>0, <1>1 DEF ControlOK, Active
<1>4. SamePlace
    BY <1>1, <1>3 DEF SamePlace, Emptied
<1>5. RewindDue' <=> RewindDue
    BY <1>1 DEF RewindDue
<1>6. Emptied' <=> Emptied
    BY <1>1 DEF Emptied
<1>7. ControlOK'
    BY <1>0, <1>1, <1>2, <1>3, <1>5, <1>6 DEF ControlOK
<1>8. HandleOK'
    BY <1>0, <1>1, <1>2 DEF HandleOK
<1>9. TodoOK'
    BY <1>0, <1>1, <1>2 DEF TodoOK
<1> QED BY <1>4, <1>7, <1>8, <1>9, SamePlaceKeeps DEF IndInv

LEMMA PollTailsOK == IndInv /\ PollTails => IndInv'
<1> SUFFICES ASSUME IndInv, PollTails PROVE IndInv'
    OBVIOUS
<1>0. DiskOK /\ ControlOK /\ HandleOK /\ TodoOK
    BY DEF IndInv
<1>1. /\ pc = "idle" /\ pc' = "stat" /\ started' = started /\ todo' = todo /\ startOff' = startOff
      /\ handle' = handle /\ offset' = offset /\ lastCount' = lastCount /\ resyncReq' = resyncReq
      /\ started /\ ~RewindDue
      /\ UNCHANGED <<disk, archive, durable, pos, wiped, gap, dedup>>
    BY DEF PollTails, saved, reader, restoring
<1>2. /\ files' = files /\ oldest' = oldest /\ atPath' = atPath /\ newest' = newest
      /\ LastRotated' = LastRotated /\ HeadRecord' = HeadRecord
    BY <1>1, DiskKept
<1>3. NextBase' = NextBase /\ NextOff' = NextOff /\ NextRecord' = NextRecord
    BY <1>1, <1>2 DEF NextBase, NextOff, NextRecord
<1>4. SamePlace
    BY <1>1, <1>3 DEF SamePlace, Emptied, Active
<1>5. ~RewindDue' /\ ~Emptied'
    BY <1>1 DEF RewindDue, Emptied
<1>7. ControlOK'
    BY <1>0, <1>1, <1>2, <1>5 DEF ControlOK
<1>8. HandleOK'
    BY <1>0, <1>1, <1>2 DEF HandleOK
<1>9. TodoOK'
    BY <1>0, <1>1, <1>2 DEF TodoOK
<1> QED BY <1>4, <1>7, <1>8, <1>9, SamePlaceKeeps DEF IndInv

LEMMA ResyncOK == IndInv /\ Faults = {} /\ Resync => IndInv'
<1> SUFFICES ASSUME IndInv, Faults = {}, Resync PROVE IndInv'
    OBVIOUS
<1>0. DiskOK /\ ControlOK /\ HandleOK /\ TodoOK
    BY DEF IndInv
<1>1. /\ pc # "down" /\ pc' = pc /\ started' = started /\ todo' = todo /\ startOff' = startOff
      /\ handle' = handle /\ offset' = offset /\ lastCount' = lastCount /\ resyncReq' = TRUE
      /\ AtHead
      /\ UNCHANGED <<disk, archive, durable, pos, wiped, gap, dedup>>
    BY DEF Resync, saved, reader, restoring
<1>2. /\ files' = files /\ oldest' = oldest /\ atPath' = atPath /\ newest' = newest
      /\ LastRotated' = LastRotated /\ HeadRecord' = HeadRecord
    BY <1>1, DiskKept
<1>3. NextBase' = NextBase /\ NextOff' = NextOff /\ NextRecord' = NextRecord
    BY <1>1, <1>2 DEF NextBase, NextOff, NextRecord
<1>4. SamePlace
    BY <1>1, <1>3 DEF SamePlace, Emptied, Active
<1>5. started /\ handle = newest /\ atPath
    BY <1>0, <1>1 DEF AtHead, HandleOK
<1>6. Emptied' <=> Emptied
    BY <1>1 DEF Emptied
<1>7. ControlOK'
    BY <1>0, <1>1, <1>2, <1>5, <1>6 DEF ControlOK
<1>8. HandleOK'
    BY <1>0, <1>1, <1>2 DEF HandleOK
<1>9. TodoOK'
    BY <1>0, <1>1, <1>2 DEF TodoOK
<1> QED BY <1>4, <1>7, <1>8, <1>9, SamePlaceKeeps DEF IndInv

LEMMA PollOpenOK == IndInv /\ PollOpen => IndInv'
<1> SUFFICES ASSUME IndInv, PollOpen PROVE IndInv'
    OBVIOUS
<1>0. DiskOK /\ ControlOK /\ HandleOK /\ TodoOK
    BY DEF IndInv
<1>1. /\ pc = "open" /\ started' = started /\ todo' = todo /\ startOff' = startOff
      /\ IF atPath THEN handle' = newest /\ pc' = "drain" ELSE handle' = 0 /\ pc' = "idle"
      /\ offset' = 0 /\ lastCount' = lastCount /\ resyncReq' = resyncReq
      /\ UNCHANGED <<disk, archive, durable, pos, wiped, gap, dedup>>
    BY DEF PollOpen, saved, restoring
<1>2. /\ files' = files /\ oldest' = oldest /\ atPath' = atPath /\ newest' = newest
      /\ LastRotated' = LastRotated /\ HeadRecord' = HeadRecord
    BY <1>1, DiskKept
<1>f. /\ newest \in Nat /\ oldest \in Nat
      /\ atPath => newest \in 1..newest /\ oldest <= newest /\ files[newest].size \in Nat
    <2>1. newest \in Nat /\ oldest \in Nat /\ \A f \in 1..newest : files[f].size \in Nat
        BY <1>0, FileFacts
    <2>2. atPath => oldest \in 1..newest
        BY <1>0 DEF DiskOK
    <2> QED BY <2>1, <2>2
<1>h. handle = 0 /\ offset = 0 /\ started
    BY <1>0, <1>1 DEF HandleOK, ControlOK
<1>3. NextBase' = NextBase /\ NextOff' = NextOff /\ NextRecord' = NextRecord
    <2>1. NextBase = HeadRecord /\ NextOff = 0
        BY <1>1, <1>h DEF NextBase, NextOff
    <2>2. NextOff' = 0
        BY <1>1 DEF NextOff
    <2>3. NextBase' = HeadRecord
        <3>1. CASE atPath
            BY <1>1, <1>2, <1>f, <3>1 DEF NextBase, HeadRecord
        <3>2. CASE ~atPath
            BY <1>1, <1>2, <3>2 DEF NextBase
        <3> QED BY <3>1, <3>2
    <2> QED BY <2>1, <2>2, <2>3 DEF NextRecord
<1>4. SamePlace
    BY <1>1, <1>h, <1>3 DEF SamePlace, Emptied, Active
<1>5. /\ RewindDue' <=> RewindDue
      /\ ~Emptied /\ ~Emptied'
    BY <1>0, <1>1 DEF RewindDue, Emptied, ControlOK
<1>7. ControlOK'
    BY <1>0, <1>1, <1>2, <1>5, <1>h DEF ControlOK
<1>8. HandleOK'
    <2>1. CASE atPath
        BY <1>0, <1>1, <1>2, <1>h, <1>f, <2>1 DEF HandleOK
    <2>2. CASE ~atPath
        BY <1>0, <1>1, <1>2, <1>h, <1>f, <2>2 DEF HandleOK
    <2> QED BY <2>1, <2>2
<1>9. TodoOK'
    BY <1>0, <1>1, <1>2 DEF TodoOK
<1> QED BY <1>4, <1>7, <1>8, <1>9, SamePlaceKeeps DEF IndInv

LEMMA RestoreOpenOK == IndInv /\ RestoreOpen => IndInv'
<1> SUFFICES ASSUME IndInv, RestoreOpen PROVE IndInv'
    OBVIOUS
<1>0. DiskOK /\ ControlOK /\ HandleOK /\ TodoOK
    BY DEF IndInv
<1>1. /\ pc = "restore" /\ pc' = "stat" /\ started' = TRUE /\ todo = <<>> /\ todo' = todo
      /\ startOff' = 0 /\ handle' = (IF atPath THEN newest ELSE 0)
      /\ offset' = (IF atPath THEN startOff ELSE 0)
      /\ lastCount' = lastCount /\ resyncReq' = resyncReq
      /\ UNCHANGED <<disk, archive, durable, pos, wiped, gap, dedup>>
    BY DEF RestoreOpen, saved, restoring
<1>2. /\ files' = files /\ oldest' = oldest /\ atPath' = atPath /\ newest' = newest
      /\ LastRotated' = LastRotated /\ HeadRecord' = HeadRecord
    BY <1>1, DiskKept
<1>f. /\ newest \in Nat /\ oldest \in Nat
      /\ atPath => newest \in 1..newest /\ oldest <= newest /\ files[newest].size \in Nat
    <2>1. newest \in Nat /\ oldest \in Nat /\ \A f \in 1..newest : files[f].size \in Nat
        BY <1>0, FileFacts
    <2>2. atPath => oldest \in 1..newest
        BY <1>0 DEF DiskOK
    <2> QED BY <2>1, <2>2
<1>h. startOff \in Nat /\ (startOff > 0 => atPath /\ startOff <= files[newest].size)
    BY <1>0 DEF TodoOK
<1>o. offset' = startOff
    BY <1>1, <1>h
<1>3. NextBase' = NextBase /\ NextOff' = NextOff /\ NextRecord' = NextRecord
    <2>1. NextBase = HeadRecord /\ NextOff = startOff
        BY <1>1, <1>h DEF NextBase, NextOff
    <2>2. NextOff' = startOff
        BY <1>1, <1>o DEF NextOff
    <2>3. NextBase' = HeadRecord
        <3>1. CASE atPath
            BY <1>1, <1>2, <1>f, <3>1 DEF NextBase, HeadRecord
        <3>2. CASE ~atPath
            BY <1>1, <1>2, <3>2 DEF NextBase
        <3> QED BY <3>1, <3>2
    <2> QED BY <2>1, <2>2, <2>3 DEF NextRecord
<1>4. SamePlace
    BY <1>1, <1>3 DEF SamePlace, Emptied, Active
<1>5. /\ RewindDue' <=> RewindDue
      /\ ~Emptied /\ ~Emptied' /\ ~RewindDue
    BY <1>0, <1>1 DEF RewindDue, Emptied, ControlOK
<1>7. ControlOK'
    BY <1>0, <1>1, <1>2, <1>5 DEF ControlOK
<1>8. HandleOK'
    <2>1. CASE atPath
        BY <1>0, <1>1, <1>2, <1>h, <1>f, <2>1 DEF HandleOK
    <2>2. CASE ~atPath
        BY <1>0, <1>1, <1>2, <1>h, <1>f, <2>2 DEF HandleOK
    <2> QED BY <2>1, <2>2
<1>9. TodoOK'
    <2>1. todo' = <<>> /\ 1..Len(todo') = {}
        BY <1>1
    <2>2. todo' \in Seq([file : Nat, off : Nat])
        BY <1>0, <1>1 DEF TodoOK
    <2> QED BY <1>1, <2>1, <2>2 DEF TodoOK
<1> QED BY <1>4, <1>7, <1>8, <1>9, SamePlaceKeeps DEF IndInv

-----------------------------------------------------------------------------
(***************************************************************************)
(* Steps that read on: the next k records are in the archive afterwards.   *)
(***************************************************************************)
LEMMA SpansGrow ==
    ASSUME NEW a \in Seq(Nat), NEW b \in Seq(Nat), Increasing(b), Grew(a, b),
           NEW dur \in Nat, dur <= Len(a), NEW p \in Nat, NEW g, NEW low \in Nat,
           Spans(a, dur, p, g, low), a = <<>> /\ b # <<>> => b[1] = p
    PROVE  Spans(b, dur, p, g, low)
<1> SUFFICES ASSUME NEW n \in dur..Len(b), n > 0
             PROVE  b[1] <= p /\ (p <= b[n] + 1 \/ (g /\ p <= low))
    BY DEF Spans
<1>1. Len(a) \in Nat /\ Len(b) \in Nat /\ n \in Nat /\ b # <<>> /\ n \in 1..Len(b)
    OBVIOUS
<1>2. b[1] \in Nat /\ b[n] \in Nat /\ b[1] <= b[n]
    BY <1>1, Ends
<1>3. CASE a = <<>>
    BY <1>1, <1>2, <1>3
<1>4. CASE a # <<>> /\ n <= Len(a)
    <2>1. n \in dur..Len(a) /\ 1 \in 1..Len(a) /\ n \in 1..Len(a)
        BY <1>1, <1>4
    <2>2. a[1] <= p /\ (p <= a[n] + 1 \/ (g /\ p <= low))
        BY <1>1, <2>1 DEF Spans
    <2>3. b[1] = a[1] /\ b[n] = a[n]
        BY <2>1 DEF Grew
    <2> QED BY <2>2, <2>3
<1>5. CASE a # <<>> /\ n > Len(a)
    <2> DEFINE m == Len(a)
    <2>1. m \in dur..m /\ m > 0 /\ 1 \in 1..m /\ m \in 1..m /\ n \in m..Len(b)
        BY <1>1, <1>5
    <2>2. a[1] <= p /\ (p <= a[m] + 1 \/ (g /\ p <= low))
        BY <2>1 DEF Spans
    <2>3. b[1] = a[1] /\ a[m] <= b[n] /\ a[m] \in Nat
        BY <1>5, <2>1 DEF Grew
    <2>4. PICK x, y : x = a[m] /\ y = b[n]
        OBVIOUS
    <2>5. x \in Nat /\ y \in Nat /\ x <= y
        BY <1>2, <2>3, <2>4
    <2>6. p <= x + 1 => p <= y + 1
        BY <2>5
    <2> QED BY <2>2, <2>3, <2>4, <2>6
<1> QED BY <1>1, <1>3, <1>4, <1>5

Advances(k) ==
    /\ UNCHANGED <<disk, durable, pos, wiped, gap>>
    /\ Active /\ Active' /\ ~Emptied
    /\ NextRecord' = NextRecord + k
    /\ NextOff' \in Nat /\ (NextOff' > 0 => k > 0 \/ NextOff > 0)
    /\ \E f \in 1..newest : NextBase = files[f].first
    /\ dedup' \in BOOLEAN
    /\ Took(archive, NextRecord, k, dedup, archive', dedup', gap, Low)

LEMMA AdvancesKeeps ==
    ASSUME IndInv, NEW k \in Nat, Advances(k)
    PROVE  DiskOK' /\ ArchiveOK' /\ ReaderOK' /\ PosOK' /\ ~(archive # <<>> /\ archive' = <<>>)
<1> DEFINE b == archive'
           nx == NextRecord
<1>0. DiskOK /\ ArchiveOK /\ ReaderOK /\ PosOK
    BY DEF IndInv
<1>1. /\ files' = files /\ oldest' = oldest /\ newest' = newest /\ Low' = Low /\ DiskOK'
    BY <1>0, DiskKept DEF Advances
<1>2. /\ durable' = durable /\ pos' = pos /\ wiped' = wiped /\ gap' = gap
      /\ Active /\ Active' /\ ~Emptied /\ NextRecord' = nx + k /\ dedup' \in BOOLEAN
      /\ NextOff' \in Nat /\ (NextOff' > 0 => k > 0 \/ NextOff > 0)
      /\ \E f \in 1..newest : NextBase = files[f].first
      /\ Took(archive, nx, k, dedup, b, dedup', gap, Low)
    BY DEF Advances
<1>3. /\ nx \in Nat \ {0} /\ Low <= nx /\ NextBase \in Nat /\ NextOff \in Nat
      /\ nx = NextBase + NextOff
    BY <1>2, NextFacts
<1>4. /\ archive \in Seq(Nat) /\ Len(archive) \in Nat /\ InOrder(archive, gap, Low)
      /\ durable \in Nat /\ durable <= Len(archive)
      /\ gap \in BOOLEAN /\ dedup \in BOOLEAN /\ Low \in Nat
    BY ArchiveFacts
<1>5. Reads(archive, nx, dedup, gap, Low) /\ (NextOff > 0 => nx - 1 \in Members(archive))
    BY <1>0, <1>2 DEF ReaderOK
<1> HIDE DEF newest, b, nx
<1>6. /\ InOrder(b, gap, Low) /\ Reads(b, nx + k, dedup', gap, Low) /\ Grew(archive, b)
      /\ k > 0 => nx + k - 1 \in Members(b)
      /\ archive = <<>> /\ b # <<>> => b[1] = nx
    <2>1. Took(archive, nx, k, dedup, b, dedup', gap, Low) /\ dedup' \in BOOLEAN
        BY <1>2
    <2>2. nx \in Nat \ {0} /\ Low <= nx
        BY <1>3
    <2>3. InOrder(archive, gap, Low) /\ gap \in BOOLEAN /\ dedup \in BOOLEAN /\ Low \in Nat
        BY <1>4
    <2>4. Reads(archive, nx, dedup, gap, Low)
        BY <1>5
    <2> QED BY <2>1, <2>2, <2>3, <2>4, TookKeeps
<1>7. b \in Seq(Nat) /\ Increasing(b) /\ Len(b) \in Nat /\ Len(archive) <= Len(b)
      /\ \A i \in 1..Len(archive) : b[i] = archive[i]
    BY <1>6 DEF InOrder, Grew
<1>8. /\ archive = <<>> => NextOff = 0
      /\ b = <<>> => archive = <<>> /\ k = 0
      /\ archive # <<>> => b # <<>> /\ b[1] = archive[1]
    <2>1. archive = <<>> => Members(archive) = {}
        BY DEF Members
    <2>2. b = <<>> => Members(b) = {}
        BY DEF Members
    <2>3. archive # <<>> => Len(archive) > 0
        BY <1>4
    <2>4. b = <<>> => Len(b) = 0
        OBVIOUS
    <2> QED BY <1>3, <1>4, <1>5, <1>6, <1>7, <2>1, <2>2, <2>3, <2>4
<1>9. ArchiveOK'
    <2>1. durable \in 0..Len(b)
        BY <1>4, <1>7
    <2>2. ASSUME b # <<>> PROVE \E f \in 1..newest : b[1] = files[f].first
        <3>1. CASE archive = <<>>
            BY <1>2, <1>3, <1>6, <1>8, <2>2, <3>1
        <3>2. CASE archive # <<>>
            BY <1>0, <1>8, <3>2 DEF ArchiveOK
        <3> QED BY <3>1, <3>2
    <2> QED BY <1>1, <1>2, <1>6, <2>1, <2>2 DEF ArchiveOK, b
<1>10. ReaderOK'
    <2>1. ASSUME NextOff' > 0 PROVE nx + k - 1 \in Members(b)
        <3>1. CASE k > 0
            BY <1>6, <3>1
        <3>2. CASE k = 0
            <4>1. nx - 1 \in Members(archive)
                BY <1>2, <1>5, <2>1, <3>2
            <4>2. PICK i \in 1..Len(archive) : archive[i] = nx - 1
                BY <4>1 DEF Members
            <4>3. i \in 1..Len(b) /\ b[i] = nx - 1 /\ nx + k - 1 = nx - 1
                BY <1>3, <1>4, <1>7, <3>2, <4>2
            <4> QED BY <4>3 DEF Members
        <3> QED BY <3>1, <3>2
    <2>2. Reads(archive', nx + k, dedup', gap', Low')
        BY <1>1, <1>2, <1>6 DEF b
    <2>3. NextRecord' = nx + k /\ NextOff' \in Nat
        BY <1>2
    <2>4. Reads(archive', NextRecord', dedup', gap', Low')
        BY <2>2, <2>3
    <2>5. ASSUME NextOff' > 0 PROVE NextRecord' - 1 \in Members(archive')
        <3>1. nx + k - 1 \in Members(archive')
            BY <2>1, <2>5 DEF b
        <3>2. NextRecord' - 1 = nx + k - 1
            BY <1>3, <2>3
        <3> QED BY <3>1, <3>2
    <2> QED BY <2>4, <2>5 DEF ReaderOK
<1>11. ASSUME NEW f \in 1..newest, PosAt(f) PROVE PosAt(f)'
    <2> DEFINE p == PositionRecord(f)
    <2>1. p \in Nat /\ PositionRecord(f)' = p
        <3>1. files[f].first \in Nat /\ pos.off \in Nat
            BY <1>0, FileFacts DEF PosOK, Position
        <3> QED BY <1>1, <1>2, <3>1 DEF PositionRecord
    <2>2. /\ pos.off <= files[f].size
          /\ Begins(archive, p, Low)
          /\ archive = <<>> => nx = p \/ (f < oldest /\ nx <= Low)
          /\ pos.off > 0 => \E i \in 1..durable : archive[i] = p - 1
          /\ f >= oldest => Spans(archive, durable, p, gap, Low)
        BY <1>2, <1>11 DEF PosAt, nx
    <2> HIDE DEF p
    <2>o. f \in Nat /\ oldest \in Nat
        BY <1>0, FileFacts DEF newest
    <2>3. Begins(b, p, Low)
        BY <1>6, <1>8, <1>3, <2>1, <2>2 DEF Begins
    <2>4. b = <<>> => nx + k = p \/ (f < oldest /\ nx + k <= Low)
        BY <1>3, <1>8, <2>2
    <2>5. pos.off > 0 => \E i \in 1..durable : b[i] = p - 1
        <3>1. \A i \in 1..durable : i \in 1..Len(archive)
            BY <1>4
        <3> QED BY <1>7, <2>2, <3>1
    <2>6. ASSUME f >= oldest PROVE Spans(b, durable, p, gap, Low)
        <3>1. archive = <<>> /\ b # <<>> => b[1] = p
            BY <1>6, <2>2, <2>6, <2>o
        <3> QED BY <1>4, <1>6, <1>7, <2>1, <2>2, <2>6, <3>1, SpansGrow
    <2> QED BY <1>1, <1>2, <2>1, <2>2, <2>3, <2>4, <2>5, <2>6 DEF PosAt, b, nx
<1>12. PosOK'
    BY <1>0, <1>1, <1>2, <1>11 DEF PosOK
<1> QED BY <1>1, <1>8, <1>9, <1>10, <1>12 DEF b

\* Reading a file to its end, from where the reader stands.
LEMMA ReadsOn ==
    ASSUME IndInv, Faults = {}, Refused = {}, Active, NEW f \in 1..newest, NEW off \in Nat,
           off <= files[f].size, files[f].first + off = NextRecord,
           Ingest(RecordsAfter(f, off))
    PROVE  /\ Took(archive, NextRecord, files[f].size - off, dedup, archive', dedup', gap, Low)
           /\ dedup' \in BOOLEAN /\ files[f].size - off \in Nat
<1> DEFINE recs == RecordsAfter(f, off)
           k == files[f].size - off
           nx == NextRecord
<1>1. files[f].first \in Nat /\ files[f].size \in Nat /\ k \in Nat
    BY FileFacts DEF IndInv
<1>2. recs = Run(nx, k)
    <2>1. recs = [i \in 1..k |-> files[f].first + (off + i) - 1]
        BY DEF RecordsAfter, Record
    <2>2. \A i \in 1..k : files[f].first + (off + i) - 1 = nx + i - 1
        BY <1>1
    <2> QED BY <2>1, <2>2 DEF Run
<1>3. /\ InOrder(archive, gap, Low) /\ gap \in BOOLEAN /\ dedup \in BOOLEAN /\ Low \in Nat
      /\ Archived = Members(archive)
    BY ArchiveFacts
<1>4. nx \in Nat \ {0} /\ Low <= nx
    BY NextFacts
<1>5. Reads(archive, nx, dedup, gap, Low)
    BY DEF IndInv, ReaderOK
<1>6. \A s : Taken(s) = {s}
    BY DEF Taken, Accepted
<1>7. Ingests(archive, recs, dedup, archive', dedup')
    BY <1>3, <1>6 DEF Ingest, Ingests
<1>8. dedup' \in BOOLEAN
    BY <1>3, <1>7 DEF Ingests
<1> HIDE DEF recs, k, nx
<1>9. Took(archive, nx, k, dedup, archive', dedup', gap, Low)
    BY <1>1, <1>2, <1>3, <1>4, <1>5, <1>7, IngestTakes
<1> QED BY <1>1, <1>8, <1>9 DEF k, nx

\* drainToEOF from the open file.
LEMMA ReadToEOFAdvances ==
    ASSUME IndInv, Faults = {}, Refused = {}, handle # 0, pc \in {"stat", "drain"}, ReadToEOF,
           pc' \in {"saveold", "save"}, UNCHANGED <<disk, saved, started, handle, gap>>
    PROVE  /\ Advances(files[handle].size - offset) /\ files[handle].size - offset \in Nat
           /\ handle \in 1..newest /\ offset' = files[handle].size /\ files[handle].size \in Nat
<1> DEFINE k == files[handle].size - offset
           f == handle
<1>0. DiskOK /\ ControlOK /\ HandleOK
    BY DEF IndInv
<1>1. f \in 1..newest /\ offset \in Nat /\ offset <= files[f].size /\ started
    <2>1. newest \in Nat
        BY <1>0, FileFacts
    <2> QED BY <1>0, <2>1 DEF HandleOK
<1>2. files[f].first \in Nat /\ files[f].size \in Nat
    BY <1>0, <1>1, FileFacts
<1>3. Active /\ Active' /\ ~Emptied
    BY <1>0, <1>1 DEF Active, ControlOK
<1>4. NextBase = files[f].first /\ NextOff = offset /\ NextRecord = files[f].first + offset
    BY DEF NextBase, NextOff, NextRecord
<1>5. offset' = files[f].size /\ Ingest(RecordsAfter(f, offset))
    BY DEF ReadToEOF
<1>6. files' = files /\ handle' = handle
    BY DiskKept
<1>7. NextBase' = files[f].first /\ NextOff' = files[f].size
    BY <1>5, <1>6 DEF NextBase, NextOff
<1>8. NextRecord' = files[f].first + files[f].size
    BY <1>7 DEF NextRecord
<1>9. /\ Took(archive, NextRecord, k, dedup, archive', dedup', gap, Low)
      /\ dedup' \in BOOLEAN /\ k \in Nat
    BY <1>1, <1>3, <1>4, <1>5, ReadsOn
<1>10. NextRecord' = NextRecord + k
    BY <1>1, <1>2, <1>4, <1>8
<1>11. NextOff' \in Nat /\ (NextOff' > 0 => k > 0 \/ NextOff > 0)
    BY <1>1, <1>2, <1>4, <1>7
<1>12. UNCHANGED <<disk, durable, pos, wiped, gap>>
    BY DEF saved
<1>13. Advances(k)
    BY <1>1, <1>3, <1>4, <1>9, <1>10, <1>11, <1>12 DEF Advances
<1> QED BY <1>1, <1>2, <1>5, <1>9, <1>13

LEMMA PollDrainOK == IndInv /\ Faults = {} /\ Refused = {} /\ PollDrain => IndInv'
<1> SUFFICES ASSUME IndInv, Faults = {}, Refused = {}, PollDrain PROVE IndInv'
    OBVIOUS
<1>0. DiskOK /\ ControlOK /\ HandleOK /\ TodoOK
    BY DEF IndInv
<1>1. /\ pc = "drain" /\ pc' = "save" /\ ReadToEOF /\ UNCHANGED <<disk, saved, started, handle, gap>>
      /\ UNCHANGED <<started, handle, gap, wiped, pos, todo, startOff, lastCount, resyncReq>>
    BY DEF PollDrain, saved, restoring
<1>2. handle # 0
    BY <1>0, <1>1 DEF HandleOK
<1>3. /\ Advances(files[handle].size - offset) /\ files[handle].size - offset \in Nat
      /\ handle \in 1..newest /\ offset' = files[handle].size /\ files[handle].size \in Nat
    BY <1>1, <1>2, ReadToEOFAdvances
<1>4. DiskOK' /\ ArchiveOK' /\ ReaderOK' /\ PosOK' /\ ~(archive # <<>> /\ archive' = <<>>)
    BY <1>3, AdvancesKeeps
<1>5. dedup' \in BOOLEAN
    BY <1>3 DEF Advances
<1>6. /\ files' = files /\ oldest' = oldest /\ atPath' = atPath /\ newest' = newest
      /\ LastRotated' = LastRotated
    BY <1>1, DiskKept
<1>7. (RewindDue' => RewindDue) /\ ~Emptied'
    BY <1>0, <1>1, <1>4 DEF RewindDue, Emptied, ControlOK
<1>8. ControlOK'
    BY <1>0, <1>1, <1>5, <1>6, <1>7 DEF ControlOK
<1>9. HandleOK'
    BY <1>0, <1>1, <1>2, <1>3, <1>6 DEF HandleOK
<1>10. TodoOK'
    BY <1>0, <1>1, <1>6 DEF TodoOK
<1> QED BY <1>4, <1>8, <1>9, <1>10 DEF IndInv

LEMMA PollStatOK == IndInv /\ Faults = {} /\ Refused = {} /\ PollStat => IndInv'
<1> SUFFICES ASSUME IndInv, Faults = {}, Refused = {}, PollStat PROVE IndInv'
    OBVIOUS
<1>0. DiskOK /\ ControlOK /\ HandleOK /\ TodoOK
    BY DEF IndInv
<1>1. /\ pc = "stat" /\ UNCHANGED <<disk, saved, started, handle, gap>>
      /\ UNCHANGED <<started, handle, gap, wiped, pos, durable, todo, startOff, lastCount, resyncReq>>
    BY DEF PollStat, saved, restoring
<1>6. /\ files' = files /\ oldest' = oldest /\ atPath' = atPath /\ newest' = newest
      /\ LastRotated' = LastRotated /\ HeadRecord' = HeadRecord
    BY <1>1, DiskKept
<1>20. CASE RotationSeen
    <2>1. ReadToEOF /\ pc' = "saveold" /\ handle # 0 /\ handle # newest
        BY <1>20 DEF PollStat, RotationSeen
    <2>3. /\ Advances(files[handle].size - offset) /\ files[handle].size - offset \in Nat
          /\ handle \in 1..newest /\ offset' = files[handle].size /\ files[handle].size \in Nat
        BY <1>1, <2>1, ReadToEOFAdvances
    <2>4. DiskOK' /\ ArchiveOK' /\ ReaderOK' /\ PosOK' /\ ~(archive # <<>> /\ archive' = <<>>)
        BY <2>3, AdvancesKeeps
    <2>5. dedup' \in BOOLEAN
        BY <2>3 DEF Advances
    <2>7. (RewindDue' => RewindDue) /\ ~Emptied'
        BY <1>0, <1>1, <2>4 DEF RewindDue, Emptied, ControlOK
    <2>8. ControlOK'
        BY <1>0, <1>1, <1>6, <2>1, <2>5, <2>7 DEF ControlOK
    <2>9. HandleOK'
        BY <1>0, <1>1, <1>6, <2>1, <2>3 DEF HandleOK
    <2>10. TodoOK'
        BY <1>0, <1>1, <1>6, <2>1 DEF TodoOK
    <2> QED BY <2>4, <2>8, <2>9, <2>10 DEF IndInv
<1>21. CASE ~RotationSeen
    <2>1. pc' = (IF handle = 0 THEN "open" ELSE "drain") /\ UNCHANGED <<archive, dedup, offset>>
        BY <1>21 DEF PollStat
    <2>2. started
        BY <1>0, <1>1 DEF ControlOK
    <2>3. NextBase' = NextBase /\ NextOff' = NextOff /\ NextRecord' = NextRecord
        BY <1>1, <1>6, <2>1 DEF NextBase, NextOff, NextRecord
    <2>4. SamePlace
        BY <1>1, <2>1, <2>2, <2>3 DEF SamePlace, Emptied, Active
    <2>5. (RewindDue' <=> RewindDue) /\ ~Emptied'
        BY <1>0, <1>1, <2>1 DEF RewindDue, Emptied, ControlOK
    <2>8. ControlOK'
        BY <1>0, <1>1, <1>6, <2>1, <2>2, <2>5 DEF ControlOK
    <2>9. HandleOK'
        BY <1>0, <1>1, <1>6, <2>1 DEF HandleOK
    <2>10. TodoOK'
        BY <1>0, <1>1, <1>6, <2>1 DEF TodoOK
    <2> QED BY <2>4, <2>8, <2>9, <2>10, SamePlaceKeeps DEF IndInv
<1> QED BY <1>20, <1>21

LEMMA TailIs ==
    ASSUME NEW S, NEW s \in Seq(S), s # <<>>
    PROVE  /\ Tail(s) \in Seq(S) /\ Len(s) \in Nat \ {0} /\ Len(Tail(s)) = Len(s) - 1
           /\ \A i \in 1..Len(s) - 1 : Tail(s)[i] = s[i + 1]
<1>1. Len(s) \in Nat /\ Len(s) # 0
    OBVIOUS
<1> QED BY <1>1

LEMMA RestoreDrainOK == IndInv /\ Faults = {} /\ Refused = {} /\ RestoreDrain => IndInv'
<1> SUFFICES ASSUME IndInv, Faults = {}, Refused = {}, RestoreDrain PROVE IndInv'
    OBVIOUS
<1> DEFINE f == Head(todo).file
           off == Head(todo).off
           k == files[f].size - off
           rest == Tail(todo)
           n == Len(todo)
<1>0. DiskOK /\ ControlOK /\ HandleOK /\ TodoOK /\ ReaderOK
    BY DEF IndInv
<1>1. /\ pc = "restore" /\ pc' = pc /\ todo # <<>> /\ todo' = rest
      /\ IF f < oldest \/ (dedup /\ off = 0 /\ FileFullyArchived(f))
         THEN UNCHANGED <<archive, dedup>> ELSE Ingest(RecordsAfter(f, off))
      /\ UNCHANGED <<disk, started, handle, offset, gap, wiped, pos, durable, startOff, lastCount, resyncReq>>
    BY DEF RestoreDrain, saved, reader
<1>2. /\ files' = files /\ oldest' = oldest /\ atPath' = atPath /\ newest' = newest /\ torn' = torn
      /\ LastRotated' = LastRotated /\ HeadRecord' = HeadRecord
    BY <1>1, DiskKept
<1>3. todo \in Seq([file : Nat, off : Nat])
    BY <1>0 DEF TodoOK
<1>4. /\ 1 \in 1..n /\ Head(todo) = todo[1] /\ n \in Nat \ {0} /\ rest \in Seq([file : Nat, off : Nat])
      /\ Len(rest) = n - 1 /\ \A i \in 1..n - 1 : rest[i] = todo[i + 1]
    BY <1>1, <1>3, HeadIs, TailIs
<1>5. /\ f \in oldest..newest /\ off <= files[f].size /\ f = LastRotated - (n - 1)
      /\ f \in Nat /\ off \in Nat
    <2>1. todo[1] \in [file : Nat, off : Nat]
        BY <1>1, <1>3, HeadIs
    <2> QED BY <1>0, <1>4, <2>1 DEF TodoOK
<1>6. /\ newest \in Nat /\ oldest \in Nat /\ oldest >= 1
      /\ \A g \in 1..newest : files[g].first \in Nat \ {0} /\ files[g].size \in Nat
    <2>1. /\ newest \in Nat /\ oldest \in Nat
          /\ \A g \in 1..newest : files[g].first \in Nat \ {0} /\ files[g].size \in Nat
        BY <1>0, FileFacts
    <2> QED BY <1>0, <2>1 DEF DiskOK
<1>7. f \in 1..newest /\ ~(f < oldest) /\ files[f].first \in Nat \ {0} /\ files[f].size \in Nat /\ k \in Nat
    BY <1>5, <1>6
<1>8. Active /\ Active' /\ ~Emptied
    BY <1>0, <1>1 DEF Active, ControlOK
<1>9. NextBase = files[f].first /\ NextOff = off /\ NextRecord = files[f].first + off
    BY <1>1 DEF NextBase, NextOff, NextRecord
<1>10. startOff = 0
    BY <1>0, <1>1 DEF TodoOK
<1>11. NextOff' = 0
    <2>1. CASE rest = <<>>
        BY <1>1, <1>10, <2>1 DEF NextOff
    <2>2. CASE rest # <<>>
        <3>1. Head(rest) = rest[1] /\ n > 1 /\ 2 \in 1..n /\ rest[1] = todo[2]
            <4>1. Head(rest) = rest[1] /\ 1 \in 1..Len(rest)
                BY <1>4, <2>2, HeadIs
            <4> QED BY <1>4, <4>1
        <3>2. todo[2].off = 0
            BY <1>0, <3>1 DEF TodoOK
        <3> QED BY <1>1, <2>2, <3>1, <3>2 DEF NextOff
    <2> QED BY <2>1, <2>2
<1>12. NextBase' = files[f].first + files[f].size
    <2>1. CASE rest = <<>>
        <3>1. NextBase' = HeadRecord /\ f = LastRotated
            <4>0. Len(rest) = 0
                <5>1. Len(<<>>) = 0
                    OBVIOUS
                <5> QED BY <2>1, <5>1
            <4>1. n = 1
                <5>1. n \in Nat /\ Len(rest) = n - 1
                    BY <1>4
                <5> HIDE DEF n, rest
                <5> QED BY <4>0, <5>1
            <4>2. f = LastRotated - 0
                BY <1>5, <4>1
            <4>3. LastRotated \in Int
                BY <1>6 DEF LastRotated
            <4> QED BY <1>1, <1>2, <2>1, <4>2, <4>3 DEF NextBase
        <3>2. CASE atPath
            <4>1. f = newest - 1 /\ f \in 1..newest - 1 /\ newest = f + 1
                BY <1>6, <1>7, <3>1, <3>2 DEF LastRotated
            <4>2. files[f + 1].first = files[f].first + files[f].size
                BY <1>0, <4>1 DEF DiskOK
            <4> QED BY <3>1, <3>2, <4>1, <4>2 DEF HeadRecord
        <3>3. CASE ~atPath
            <4>1. f = newest /\ files # <<>>
                BY <1>6, <1>7, <3>1, <3>3 DEF LastRotated, newest
            <4>2. HeadRecord = files[f].first + files[f].size - 1 + 1
                BY <3>3, <4>1 DEF HeadRecord, Written
            <4> QED BY <1>7, <3>1, <4>2
        <3> QED BY <3>2, <3>3
    <2>2. CASE rest # <<>>
        <3>1. Head(rest) = rest[1] /\ n > 1 /\ 2 \in 1..n /\ rest[1] = todo[2]
            <4>1. Head(rest) = rest[1] /\ 1 \in 1..Len(rest)
                BY <1>4, <2>2, HeadIs
            <4> QED BY <1>4, <4>1
        <3>2. todo[2].file = LastRotated - (n - 2) /\ todo[2].file \in oldest..newest
            BY <1>0, <3>1 DEF TodoOK
        <3>3. LastRotated \in Int
            BY <1>6 DEF LastRotated
        <3>4. todo[2].file = f + 1 /\ f \in 1..newest - 1
            <4>1. PICK x, y, l, m : x = f /\ y = todo[2].file /\ l = LastRotated /\ m = n
                OBVIOUS
            <4>2. /\ x \in Nat /\ l \in Int /\ m \in Nat /\ x = l - (m - 1) /\ y = l - (m - 2)
                  /\ y \in oldest..newest /\ x \in 1..newest /\ newest \in Nat
                BY <1>4, <1>5, <1>6, <1>7, <3>2, <3>3, <4>1
            <4>3. y = x + 1 /\ x \in 1..newest - 1
                BY <4>2
            <4> QED BY <4>1, <4>3
        <3>5. files[f + 1].first = files[f].first + files[f].size
            BY <1>0, <3>4 DEF DiskOK
        <3> QED BY <1>1, <1>2, <2>2, <3>1, <3>4, <3>5 DEF NextBase
    <2> QED BY <2>1, <2>2
<1>13. NextRecord' = NextRecord + k
    <2>1. NextRecord' = files[f].first + files[f].size + 0
        BY <1>11, <1>12 DEF NextRecord
    <2> QED BY <1>5, <1>7, <1>9, <2>1
<1>14. Took(archive, NextRecord, k, dedup, archive', dedup', gap, Low) /\ dedup' \in BOOLEAN
    <2>1. CASE ~(dedup /\ off = 0 /\ FileFullyArchived(f))
        <3>1. Ingest(RecordsAfter(f, off))
            BY <1>1, <1>7, <2>1
        <3> QED BY <1>5, <1>7, <1>8, <1>9, <3>1, ReadsOn
    <2>2. CASE dedup /\ off = 0 /\ FileFullyArchived(f)
        <3> DEFINE nx == NextRecord
                   a == archive
        <3>1. archive' = archive /\ dedup' = dedup
            BY <1>1, <2>2
        <3>2. /\ a \in Seq(Nat) /\ Increasing(a) /\ Dense(a, gap, Low) /\ Archived = Members(a)
              /\ gap \in BOOLEAN /\ dedup \in BOOLEAN /\ Low \in Nat
            BY ArchiveFacts DEF InOrder
        <3>3. nx \in Nat /\ Low <= nx /\ nx = files[f].first /\ k = files[f].size /\ k > 0
            <4>1. nx \in Nat /\ Low <= nx
                BY <1>8, NextFacts
            <4> QED BY <1>7, <1>9, <2>2, <4>1 DEF FileFullyArchived
        <3>4. nx + k - 1 \in Members(a)
            BY <2>2, <3>2, <3>3 DEF FileFullyArchived, Record
        <3>5. a # <<>>
            BY <3>4 DEF Members
        <3>6. a[1] <= nx
            BY <1>0, <1>8, <3>5 DEF ReaderOK, Reads, Resumes
        <3>7. a[1] \in Nat /\ a[Len(a)] \in Nat /\ nx + k - 1 <= a[Len(a)]
            BY <3>2, <3>4, <3>5, Ends DEF Members
        <3>8. ASSUME NEW x \in nx..nx + k - 1 PROVE x \in Members(a)
            <4>0. PICK y, z, j : y = a[1] /\ z = a[Len(a)] /\ j = nx + k - 1
                OBVIOUS
            <4>2. /\ y \in Nat /\ z \in Nat /\ j \in Int /\ y <= nx /\ j <= z /\ nx \in Nat
                  /\ Low \in Nat /\ Low <= nx /\ x \in nx..j
                BY <3>2, <3>3, <3>6, <3>7, <4>0, <1>7
            <4>3. x \in y..z /\ x >= Low
                BY <4>2
            <4>1. x \in a[1]..a[Len(a)] /\ x >= Low
                BY <4>0, <4>3
            <4> QED BY <3>2, <3>5, <4>1 DEF Dense
        <3> QED BY <2>2, <3>1, <3>2, <3>8 DEF Took
    <2> QED BY <2>1, <2>2
<1>15. Advances(k)
    <2>1. UNCHANGED <<disk, durable, pos, wiped, gap>>
        BY <1>1
    <2>2. NextOff' \in Nat /\ (NextOff' > 0 => k > 0 \/ NextOff > 0)
        BY <1>11
    <2> QED BY <1>7, <1>8, <1>9, <1>13, <1>14, <2>1, <2>2 DEF Advances
<1>16. DiskOK' /\ ArchiveOK' /\ ReaderOK' /\ PosOK' /\ ~(archive # <<>> /\ archive' = <<>>)
    BY <1>7, <1>15, AdvancesKeeps
<1>17. (RewindDue' => RewindDue) /\ ~Emptied'
    BY <1>0, <1>1, <1>16 DEF RewindDue, Emptied, ControlOK
<1>18. ControlOK'
    BY <1>0, <1>1, <1>2, <1>14, <1>17 DEF ControlOK
<1>19. HandleOK'
    BY <1>0, <1>1, <1>2 DEF HandleOK
<1>20. TodoOK'
    <2> SUFFICES ASSUME NEW i \in 1..Len(rest)
                 PROVE  /\ rest[i].file \in oldest..newest /\ rest[i].off <= files[rest[i].file].size
                        /\ rest[i].file = LastRotated - (Len(rest) - i)
                        /\ i > 1 => rest[i].off = 0
        BY <1>1, <1>2, <1>4, <1>10 DEF TodoOK
    <2>1. i + 1 \in 1..n /\ rest[i] = todo[i + 1] /\ i + 1 > 1 /\ n - (i + 1) = Len(rest) - i
        BY <1>4
    <2>2. /\ todo[i + 1].file \in oldest..newest /\ todo[i + 1].off <= files[todo[i + 1].file].size
          /\ todo[i + 1].file = LastRotated - (n - (i + 1)) /\ todo[i + 1].off = 0
        BY <1>0, <2>1 DEF TodoOK
    <2> QED BY <2>1, <2>2
<1> QED BY <1>16, <1>18, <1>19, <1>20 DEF IndInv

-----------------------------------------------------------------------------
(***************************************************************************)
(* Checkpoints: more of the archive becomes durable, and the position is   *)
(* kept, or all of it, and the position is where the reader stands.        *)
(***************************************************************************)
HandleSaved ==
    /\ durable' = Len(archive) /\ wiped' = FALSE /\ handle # 0
    /\ pos' = [saved |-> TRUE, id |-> files[handle].id, off |-> offset]
FlushedOnly == pos' = pos /\ (wiped' <=> wiped) /\ durable' \in {durable, Len(archive)}
Saves ==
    /\ UNCHANGED <<disk, archive, gap, dedup>>
    /\ pc \in {"save", "saveold"} /\ Active /\ Active' /\ NextRecord' = NextRecord
    /\ NextOff' \in Nat /\ (NextOff' > 0 => NextOff > 0)
    /\ wiped' \in BOOLEAN
    /\ FlushedOnly \/ HandleSaved

LEMMA SavesKeeps == IndInv /\ Saves => DiskOK' /\ ArchiveOK' /\ ReaderOK' /\ PosOK'
<1> SUFFICES ASSUME IndInv, Saves PROVE DiskOK' /\ ArchiveOK' /\ ReaderOK' /\ PosOK'
    OBVIOUS
<1>0. DiskOK /\ ArchiveOK /\ ReaderOK /\ PosOK /\ HandleOK /\ ControlOK
    BY DEF IndInv
<1>1. /\ files' = files /\ oldest' = oldest /\ newest' = newest /\ Low' = Low /\ DiskOK'
    BY <1>0, DiskKept DEF Saves
<1>2. /\ archive' = archive /\ gap' = gap /\ dedup' = dedup /\ Active /\ Active'
      /\ NextRecord' = NextRecord /\ NextOff' \in Nat /\ (NextOff' > 0 => NextOff > 0)
      /\ ~Emptied /\ pc # "restore" /\ pc # "down" /\ wiped' \in BOOLEAN
    BY <1>0 DEF Saves, ControlOK
<1>3. /\ archive \in Seq(Nat) /\ Len(archive) \in Nat /\ durable \in Nat /\ durable <= Len(archive)
      /\ Increasing(archive) /\ Low \in Nat
    BY ArchiveFacts
<1>4. durable' \in Nat /\ durable <= durable' /\ durable' <= Len(archive)
    BY <1>3 DEF Saves, FlushedOnly, HandleSaved
<1>5. NextRecord \in Nat \ {0} /\ NextOff \in Nat
    BY <1>2, NextFacts
<1>6. /\ Reads(archive, NextRecord, dedup, gap, Low)
      /\ NextOff > 0 => NextRecord - 1 \in Members(archive)
    BY <1>0, <1>2 DEF ReaderOK
<1> HIDE DEF newest
<1>7. ArchiveOK'
    BY <1>0, <1>1, <1>2, <1>3, <1>4 DEF ArchiveOK
<1>8. ReaderOK'
    BY <1>1, <1>2, <1>6 DEF ReaderOK
<1>9. CASE FlushedOnly
    <2>1. pos' = pos /\ (wiped' <=> wiped)
        BY <1>9 DEF FlushedOnly
    <2>2. ASSUME NEW f \in 1..newest, PosAt(f) PROVE PosAt(f)'
        <3> DEFINE p == PositionRecord(f)
        <3>1. PositionRecord(f)' = p
            BY <1>1, <2>1 DEF PositionRecord
        <3>2. /\ pos.off <= files[f].size
              /\ Begins(archive, p, Low)
              /\ archive = <<>> => NextRecord = p \/ (f < oldest /\ NextRecord <= Low)
              /\ pos.off > 0 => \E i \in 1..durable : archive[i] = p - 1
              /\ f >= oldest => Spans(archive, durable, p, gap, Low)
            BY <1>2, <2>2 DEF PosAt
        <3> HIDE DEF p
        <3>3. \A i \in 1..durable : i \in 1..durable'
            BY <1>3, <1>4
        <3>4. \A n \in durable'..Len(archive) : n \in durable..Len(archive)
            BY <1>3, <1>4
        <3>5. f >= oldest => Spans(archive, durable', p, gap, Low)
            BY <3>2, <3>4 DEF Spans
        <3>6. pos.off > 0 => \E i \in 1..durable' : archive[i] = p - 1
            BY <3>2, <3>3
        <3> QED BY <1>1, <1>2, <2>1, <3>1, <3>2, <3>5, <3>6 DEF PosAt
    <2>3. PosOK'
        BY <1>0, <1>1, <1>2, <2>1, <2>2 DEF PosOK
    <2> QED BY <1>1, <1>7, <1>8, <2>3
<1>10. CASE HandleSaved
    <2>0. PICK h : h = handle
        OBVIOUS
    <2>1. /\ durable' = Len(archive) /\ wiped' = FALSE /\ h # 0
          /\ pos'.saved = TRUE /\ pos'.id = files[h].id /\ pos'.off = offset
          /\ pos' = [saved |-> TRUE, id |-> files[h].id, off |-> offset]
        BY <1>10, <2>0 DEF HandleSaved
    <2>2. /\ h \in 1..newest /\ offset \in Nat /\ offset <= files[h].size /\ files[h].first \in Nat
          /\ files[h].id \in Inode
        <3>1. newest \in Nat
            BY <1>0, FileFacts
        <3>2. h \in 1..newest
            BY <1>0, <2>0, <2>1, <3>1 DEF HandleOK
        <3> QED BY <1>0, <2>0, <2>1, <3>2, FileFacts DEF HandleOK
    <2>3. NextRecord = files[h].first + offset /\ NextOff = offset
        BY <1>2, <2>0, <2>1 DEF NextRecord, NextBase, NextOff
    <2>4. PositionRecord(h)' = NextRecord
        BY <1>1, <2>1, <2>3 DEF PositionRecord
    <2>5. Begins(archive, NextRecord, Low)
        BY <1>6 DEF Begins, Reads, Resumes
    <2>6. offset > 0 => \E i \in 1..Len(archive) : archive[i] = NextRecord - 1
        BY <1>6, <2>3 DEF Members
    <2>7. Spans(archive, Len(archive), NextRecord, gap, Low)
        <3> SUFFICES ASSUME NEW n \in Len(archive)..Len(archive), n > 0
                     PROVE  /\ archive[1] <= NextRecord
                            /\ NextRecord <= archive[n] + 1 \/ (gap /\ NextRecord <= Low)
            BY DEF Spans
        <3>1. n = Len(archive) /\ archive # <<>>
            BY <1>3
        <3> QED BY <1>6, <3>1 DEF Reads, Resumes
    <2>8. PosAt(h)'
        BY <1>1, <1>2, <2>1, <2>2, <2>4, <2>5, <2>6, <2>7 DEF PosAt
    <2>9. pos' \in Position
        BY <2>1, <2>2 DEF Position
    <2>10. \A f \in 1..newest : files[f].id = files[h].id => f = h
        BY <1>0, <2>2 DEF DiskOK
    <2>11. PosOK'
        BY <1>1, <1>2, <2>1, <2>2, <2>8, <2>9, <2>10 DEF PosOK
    <2> QED BY <1>1, <1>7, <1>8, <2>11
<1> QED BY <1>9, <1>10 DEF Saves

\* What a failed, a flushing and a full checkpoint leave, the archive kept.
LEMMA CheckpointIs ==
    ASSUME IndInv, archive' = archive
    PROVE  /\ SaveFails => FlushedOnly /\ wiped' \in BOOLEAN
           /\ FlushArchive => FlushedOnly /\ wiped' \in BOOLEAN
           /\ UNCHANGED saved => FlushedOnly /\ wiped' \in BOOLEAN
           /\ handle # 0 /\ Checkpoint(HandlePosition(offset)) =>
                wiped' \in BOOLEAN /\ (FlushedOnly \/ HandleSaved)
<1>1. /\ Len(archive) \in Nat /\ durable \in Nat /\ durable <= Len(archive) /\ wiped \in BOOLEAN
    BY ArchiveFacts
<1>2. Min({durable, Len(archive)}) = durable
    BY <1>1, MinOfTwo
<1>3. SaveFails => FlushedOnly /\ wiped' \in BOOLEAN
    BY <1>1, <1>2 DEF SaveFails, FlushedOnly
<1>4. FlushArchive => FlushedOnly /\ wiped' \in BOOLEAN
    BY <1>1, <1>3 DEF FlushArchive, FlushedOnly
<1>5. UNCHANGED saved => FlushedOnly /\ wiped' \in BOOLEAN
    BY <1>1 DEF saved, FlushedOnly
<1>6. handle # 0 /\ Checkpoint(HandlePosition(offset)) =>
                wiped' \in BOOLEAN /\ (FlushedOnly \/ HandleSaved)
    BY <1>3 DEF Checkpoint, HandlePosition, HandleSaved
<1> QED BY <1>3, <1>4, <1>5, <1>6

LEMMA PollSaveOK == IndInv /\ PollSave => IndInv'
<1> SUFFICES ASSUME IndInv, PollSave PROVE IndInv'
    OBVIOUS
<1>0. DiskOK /\ ControlOK /\ HandleOK /\ TodoOK
    BY DEF IndInv
<1>1. /\ pc = "save" /\ pc' = "idle" /\ archive' = archive /\ lastCount' = Len(archive)
      /\ IF fresh THEN Checkpoint(HandlePosition(Consumed)) ELSE FlushArchive
      /\ UNCHANGED <<disk, started, handle, offset, dedup, todo, startOff, resyncReq, gap>>
    BY DEF PollSave, reader, restoring
<1>2. /\ files' = files /\ oldest' = oldest /\ atPath' = atPath /\ newest' = newest
      /\ LastRotated' = LastRotated /\ HeadRecord' = HeadRecord
    BY <1>1, DiskKept
<1>3. handle # 0 /\ started
    BY <1>0, <1>1 DEF HandleOK, ControlOK
<1>4. wiped' \in BOOLEAN /\ (FlushedOnly \/ HandleSaved)
    BY <1>1, <1>3, CheckpointIs DEF Consumed
<1>5. NextBase' = NextBase /\ NextOff' = NextOff /\ NextRecord' = NextRecord
    BY <1>1, <1>2 DEF NextBase, NextOff, NextRecord
<1>6. Saves
    <2>1. Active /\ Active'
        BY <1>1, <1>3 DEF Active
    <2>2. NextOff \in Nat
        BY <2>1, NextFacts
    <2> QED BY <1>1, <1>4, <1>5, <2>1, <2>2 DEF Saves
<1>7. (RewindDue' => RewindDue) /\ ~Emptied'
    <2>1. archive = <<>> => Len(archive) = 0
        OBVIOUS
    <2> QED BY <1>1, <2>1 DEF RewindDue, Emptied
<1>8. ControlOK'
    <2>1. Len(archive) \in Nat
        BY ArchiveFacts
    <2> QED BY <1>0, <1>1, <1>2, <1>3, <1>4, <1>7, <2>1 DEF ControlOK
<1>9. HandleOK'
    BY <1>0, <1>1, <1>2 DEF HandleOK
<1>10. TodoOK'
    BY <1>0, <1>1, <1>2 DEF TodoOK
<1> QED BY <1>6, <1>8, <1>9, <1>10, SavesKeeps DEF IndInv

LEMMA PollSaveOldOK == IndInv /\ PollSaveOld => IndInv'
<1> SUFFICES ASSUME IndInv, PollSaveOld PROVE IndInv'
    OBVIOUS
<1>0. DiskOK /\ ControlOK /\ HandleOK /\ TodoOK
    BY DEF IndInv
<1>1. /\ pc = "saveold" /\ pc' = "open" /\ archive' = archive /\ handle' = 0 /\ offset' = 0
      /\ IF fresh THEN Checkpoint(HandlePosition(Consumed)) ELSE UNCHANGED saved
      /\ UNCHANGED <<disk, started, dedup, lastCount, todo, startOff, resyncReq, gap>>
    BY DEF PollSaveOld, Close, restoring
<1>2. /\ files' = files /\ oldest' = oldest /\ atPath' = atPath /\ newest' = newest
      /\ LastRotated' = LastRotated /\ HeadRecord' = HeadRecord
    BY <1>1, DiskKept
<1>3. /\ handle # 0 /\ started /\ handle = newest - 1 /\ atPath /\ offset = files[handle].size
      /\ handle \in 0..newest
    BY <1>0, <1>1 DEF HandleOK, ControlOK
<1>4. wiped' \in BOOLEAN /\ (FlushedOnly \/ HandleSaved)
    BY <1>1, <1>3, CheckpointIs DEF Consumed
<1>5. NextOff' = 0 /\ NextRecord' = NextRecord
    <2>1. newest \in Nat
        BY <1>0, FileFacts
    <2>2. handle \in 1..newest - 1 /\ handle + 1 = newest /\ newest \in 1..newest
        BY <1>3, <2>1
    <2>3. files[handle + 1].first = files[handle].first + files[handle].size
        BY <1>0, <2>2 DEF DiskOK
    <2>4. NextRecord = files[handle].first + files[handle].size
        BY <1>1, <1>3 DEF NextRecord, NextBase, NextOff
    <2>5. NextBase' = files[newest].first /\ NextOff' = 0
        BY <1>1, <1>2, <1>3 DEF NextBase, NextOff, HeadRecord
    <2>6. files[newest].first \in Nat
        BY <1>0, <2>2, FileFacts
    <2>7. NextRecord' = files[newest].first + 0
        BY <2>5 DEF NextRecord
    <2> QED BY <2>2, <2>3, <2>4, <2>5, <2>6, <2>7
<1>6. Saves
    <2>1. Active /\ Active'
        BY <1>1, <1>3 DEF Active
    <2> QED BY <1>1, <1>4, <1>5, <2>1 DEF Saves
<1>7. (RewindDue' => RewindDue) /\ ~Emptied'
    BY <1>0, <1>1 DEF RewindDue, Emptied, ControlOK
<1>8. ControlOK'
    BY <1>0, <1>1, <1>2, <1>3, <1>4, <1>7 DEF ControlOK
<1>9. HandleOK'
    <2>1. newest \in Nat
        BY <1>0, FileFacts
    <2> QED BY <1>0, <1>1, <1>2, <2>1 DEF HandleOK
<1>10. TodoOK'
    BY <1>0, <1>1, <1>2 DEF TodoOK
<1> QED BY <1>6, <1>8, <1>9, <1>10, SavesKeeps DEF IndInv

-----------------------------------------------------------------------------
(***************************************************************************)
(* Rewinds to the head of the current file, with the archive kept or       *)
(* emptied.                                                                *)
(***************************************************************************)
Rewinds(keep) ==
    /\ UNCHANGED <<disk, started, todo, startOff>>
    /\ pc = "idle" /\ started /\ pc' \in {"idle", "stat"}
    /\ handle = 0 \/ (handle = newest /\ atPath)
    /\ resyncReq' \in BOOLEAN
    /\ \/ archive' = archive /\ gap' = gap /\ (keep \/ archive = <<>>)
       \/ archive' = <<>> /\ gap' = FALSE
    /\ RewindToHead(keep)

LEMMA RewindKeeps ==
    ASSUME IndInv, NEW keep \in BOOLEAN, Rewinds(keep)
    PROVE  IndInv'
<1>0. DiskOK /\ ArchiveOK /\ ReaderOK /\ PosOK /\ HandleOK /\ ControlOK /\ TodoOK
    BY DEF IndInv
<1>1. /\ files' = files /\ oldest' = oldest /\ newest' = newest /\ Low' = Low /\ DiskOK'
      /\ atPath' = atPath /\ HeadRecord' = HeadRecord /\ LastRotated' = LastRotated
    BY <1>0, DiskKept DEF Rewinds
<1>2. /\ pc = "idle" /\ started /\ started' = started /\ pc' \in {"idle", "stat"}
      /\ handle = 0 \/ (handle = newest /\ atPath)
      /\ todo' = todo /\ startOff' = startOff /\ resyncReq' \in BOOLEAN
      /\ \/ archive' = archive /\ gap' = gap /\ (keep \/ archive = <<>>)
         \/ archive' = <<>> /\ gap' = FALSE
      /\ dedup' = keep /\ lastCount' = Len(archive') /\ handle' = 0 /\ offset' = 0
      /\ \/ SaveFails
         \/ handle = 0 /\ durable' = Min({durable, Len(archive')}) /\ pos' = NoPosition /\ wiped' = FALSE
         \/ /\ handle # 0 /\ durable' = Len(archive') /\ wiped' = FALSE
            /\ pos' = [saved |-> TRUE, id |-> files[handle].id, off |-> 0]
    BY DEF Rewinds, RewindToHead, Close, Checkpoint, HandlePosition
<1>3. /\ archive \in Seq(Nat) /\ Len(archive) \in Nat /\ durable \in Nat /\ durable <= Len(archive)
      /\ Increasing(archive) /\ Low \in Nat \ {0} /\ wiped \in BOOLEAN /\ gap \in BOOLEAN
      /\ InOrder(archive, gap, Low)
    BY ArchiveFacts
<1>4. Active /\ Active'
    BY <1>2 DEF Active
<1>5. NextRecord \in Nat \ {0} /\ NextOff \in Nat /\ NextBase \in Nat /\ NextRecord = NextBase + NextOff
    BY <1>4, NextFacts
<1>6. HeadRecord \in Nat \ {0} /\ newest \in Nat
    BY <1>0, LowFacts, FileFacts
<1>7. NextOff' = 0 /\ NextBase' = HeadRecord /\ NextRecord' = HeadRecord
    <2>1. NextOff' = 0 /\ NextBase' = HeadRecord
        BY <1>1, <1>2 DEF NextOff, NextBase
    <2>2. NextRecord' = HeadRecord + 0
        BY <2>1 DEF NextRecord
    <2> QED BY <1>6, <2>1, <2>2
<1>8. NextBase = HeadRecord /\ (handle = 0 => NextOff = 0)
    BY <1>0, <1>2 DEF NextBase, NextOff, HeadRecord, HandleOK
<1>9. archive' \in Seq(Nat) /\ Len(archive') \in Nat /\ Len(archive') <= Len(archive) /\ gap' \in BOOLEAN
    <2>1. CASE archive' = archive /\ gap' = gap
        BY <1>3, <2>1
    <2>2. CASE archive' = <<>> /\ gap' = FALSE
        <3>1. <<>> \in Seq(Nat) /\ Len(<<>>) = 0
            OBVIOUS
        <3>2. archive' \in Seq(Nat) /\ Len(archive') = 0
            BY <2>2, <3>1
        <3>3. Len(archive) \in Nat
            BY <1>3
        <3>4. gap' \in BOOLEAN
            BY <2>2
        <3> QED BY <3>2, <3>3, <3>4
    <2> QED BY <1>2, <2>1, <2>2
<1>10. InOrder(archive', gap', Low)
    <2>1. CASE archive' = archive /\ gap' = gap
        BY <1>3, <2>1
    <2>2. CASE archive' = <<>>
        BY <1>9, <2>2 DEF InOrder, Increasing, Dense
    <2> QED BY <1>2, <2>1, <2>2
<1>11. /\ durable' \in Nat /\ durable' <= Len(archive')
       /\ archive' = archive => durable <= durable'
    <2>1. Min({durable, Len(archive')}) = IF durable <= Len(archive') THEN durable ELSE Len(archive')
        BY <1>3, <1>9, MinOfTwo
    <2>2. durable' \in {Min({durable, Len(archive')}), Len(archive')}
        BY <1>2 DEF SaveFails
    <2> QED BY <1>3, <1>9, <2>1, <2>2
<1>12. Reads(archive', HeadRecord, dedup', gap', Low)
    <2>1. CASE archive' = <<>>
        BY <2>1 DEF Reads, Resumes
    <2>2. CASE archive' # <<>>
        <3>1. archive' = archive /\ gap' = gap /\ keep /\ archive # <<>>
            BY <1>2, <2>2
        <3>2. Reads(archive, NextRecord, dedup, gap, Low)
            BY <1>0, <1>4 DEF ReaderOK
        <3>3. archive[1] <= NextRecord /\ (NextRecord <= archive[Len(archive)] + 1 \/ (gap /\ NextRecord <= Low))
            BY <3>1, <3>2 DEF Reads, Resumes
        <3>4. archive[1] \in Nat /\ archive[Len(archive)] \in Nat
            BY <1>3, <3>1, Ends
        <3>5. archive[1] <= HeadRecord
            <4>1. CASE handle = 0
                BY <1>5, <1>8, <3>3, <4>1
            <4>2. CASE handle = newest /\ atPath
                <5>1. PICK f \in 1..newest : archive[1] = files[f].first
                    BY <1>0, <3>1 DEF ArchiveOK
                <5>2. newest \in 1..newest /\ (f < newest \/ f = newest)
                    BY <1>6
                <5>3. f < newest => files[f].first + files[f].size <= files[newest].first
                    BY <1>0, <5>2 DEF DiskOK
                <5>4. files[f].first \in Nat /\ files[f].size \in Nat /\ files[newest].first \in Nat
                    BY <1>0, <5>2, FileFacts
                <5>5. HeadRecord = files[newest].first
                    BY <4>2 DEF HeadRecord
                <5> QED BY <5>1, <5>2, <5>3, <5>4, <5>5
            <4> QED BY <1>2, <4>1, <4>2
        <3>6. HeadRecord <= NextRecord
            BY <1>5, <1>6, <1>8
        <3>7. HeadRecord <= archive[Len(archive)] + 1 \/ (gap /\ HeadRecord <= Low)
            BY <1>3, <1>5, <1>6, <3>3, <3>4, <3>6
        <3> QED BY <1>2, <3>1, <3>5, <3>7 DEF Reads, Resumes
    <2> QED BY <2>1, <2>2
<1>13. ReaderOK'
    BY <1>1, <1>7, <1>12 DEF ReaderOK
<1>14. ArchiveOK'
    <2>1. durable' \in 0..Len(archive')
        BY <1>9, <1>11
    <2>2. archive' # <<>> => \E f \in 1..newest : archive'[1] = files[f].first
        BY <1>0, <1>2 DEF ArchiveOK
    <2> QED BY <1>1, <1>10, <2>1, <2>2 DEF ArchiveOK
<1>15. ~Emptied'
    <2>1. archive' = <<>> => Len(archive') = 0
        OBVIOUS
    <2> QED BY <1>2, <2>1 DEF Emptied
<1>16. wiped' \in BOOLEAN
    BY <1>2 DEF SaveFails
<1>17. ControlOK'
    BY <1>0, <1>1, <1>2, <1>9, <1>15, <1>16 DEF ControlOK
<1>18. HandleOK'
    BY <1>0, <1>1, <1>2, <1>6 DEF HandleOK
<1>19. TodoOK'
    BY <1>0, <1>1, <1>2 DEF TodoOK
<1>20. PosOK'
    <2>1. CASE handle = 0 /\ pos' = NoPosition
        <3>1. pos' \in Position /\ pos'.saved = FALSE
            BY <2>1 DEF NoPosition, Position
        <3> QED BY <1>4, <3>1 DEF PosOK
    <2>2. CASE /\ handle # 0 /\ durable' = Len(archive') /\ wiped' = FALSE
               /\ pos' = [saved |-> TRUE, id |-> files[handle].id, off |-> 0]
        <3>0. PICK h : h = handle
            OBVIOUS
        <3>1. /\ h \in 1..newest /\ files[h].first \in Nat /\ files[h].size \in Nat /\ files[h].id \in Inode
              /\ HeadRecord = files[h].first
            <4>1. h = newest /\ h \in 1..newest /\ atPath
                BY <1>2, <1>6, <2>2, <3>0, <1>0 DEF HandleOK
            <4>2. files[h].first \in Nat /\ files[h].size \in Nat /\ files[h].id \in Inode
                BY <1>0, <4>1, FileFacts
            <4> QED BY <4>1, <4>2 DEF HeadRecord
        <3>2. pos' \in Position /\ pos'.saved = TRUE /\ pos'.id = files[h].id /\ pos'.off = 0
            BY <2>2, <3>0, <3>1 DEF Position
        <3>3. PositionRecord(h)' = HeadRecord
            <4>1. PositionRecord(h)' = files[h].first + 0
                BY <1>1, <3>2 DEF PositionRecord
            <4> QED BY <3>1, <4>1
        <3>4. Begins(archive', HeadRecord, Low)
            BY <1>12 DEF Begins, Reads, Resumes
        <3>5. Spans(archive', Len(archive'), HeadRecord, gap', Low)
            <4> SUFFICES ASSUME NEW n \in Len(archive')..Len(archive'), n > 0
                         PROVE  /\ archive'[1] <= HeadRecord
                                /\ HeadRecord <= archive'[n] + 1 \/ (gap' /\ HeadRecord <= Low)
                BY DEF Spans
            <4>1. n = Len(archive') /\ archive' # <<>>
                BY <1>9
            <4> QED BY <1>12, <4>1 DEF Reads, Resumes
        <3>6. PosAt(h)'
            BY <1>1, <1>7, <2>2, <3>1, <3>2, <3>3, <3>4, <3>5 DEF PosAt
        <3>7. \A f \in 1..newest : files[f].id = files[h].id => f = h
            BY <1>0, <3>1 DEF DiskOK
        <3> QED BY <1>1, <1>4, <3>1, <3>2, <3>6, <3>7 DEF PosOK
    <2>3. CASE SaveFails
        <3>1. /\ pos' = pos
              /\ wiped' = (wiped \/ (pos.saved /\ archive # <<>> /\ archive' = <<>>))
            BY <2>3 DEF SaveFails
        <3>2. ASSUME NEW f \in 1..newest, PosAt(f), pos.saved, ~wiped, archive' = archive,
                     gap' = gap \/ archive' = <<>>
              PROVE  PosAt(f)'
            <4> DEFINE p == PositionRecord(f)
            <4>1. PositionRecord(f)' = p
                BY <1>1, <3>1 DEF PositionRecord
            <4>2. /\ pos.off <= files[f].size
                  /\ Begins(archive, p, Low)
                  /\ archive = <<>> => NextRecord = p \/ (f < oldest /\ NextRecord <= Low)
                  /\ pos.off > 0 => \E i \in 1..durable : archive[i] = p - 1
                  /\ f >= oldest => Spans(archive, durable, p, gap, Low)
                BY <1>4, <3>2 DEF PosAt
            <4> HIDE DEF p
            <4>3. archive = <<>> => NextRecord = HeadRecord
                <5> SUFFICES ASSUME archive = <<>> PROVE NextOff = 0
                    BY <1>5, <1>6, <1>8
                <5>1. ~Emptied
                    BY <1>0, <3>2 DEF ControlOK
                <5>2. Members(archive) = {}
                    BY DEF Members
                <5> QED BY <1>0, <1>4, <1>5, <5>1, <5>2 DEF ReaderOK
            <4>4. \A i \in 1..durable : i \in 1..durable'
                BY <1>3, <1>11, <3>2
            <4>5. \A n \in durable'..Len(archive) : n \in durable..Len(archive)
                BY <1>3, <1>11, <3>2
            <4>6. f >= oldest => Spans(archive', durable', p, gap', Low)
                <5>1. CASE archive' = <<>>
                    <6>1. Len(archive') = 0
                        BY <5>1
                    <6> QED BY <1>11, <6>1 DEF Spans
                <5>2. CASE gap' = gap
                    BY <3>2, <4>2, <4>5, <5>2 DEF Spans
                <5> QED BY <3>2, <5>1, <5>2
            <4>7. pos.off > 0 => \E i \in 1..durable' : archive[i] = p - 1
                BY <4>2, <4>4
            <4> QED BY <1>1, <1>7, <3>1, <3>2, <4>1, <4>2, <4>3, <4>6, <4>7 DEF PosAt
        <3>3. pos.saved /\ ~wiped' => ~wiped /\ archive' = archive /\ (gap' = gap \/ archive' = <<>>)
            BY <1>2, <3>1
        <3> QED BY <1>0, <1>1, <1>4, <3>1, <3>2, <3>3 DEF PosOK
    <2> QED BY <1>2, <2>1, <2>2, <2>3
<1> QED BY <1>1, <1>13, <1>14, <1>17, <1>18, <1>19, <1>20 DEF IndInv

LEMMA PollResyncsOK == IndInv /\ PollResyncs => IndInv'
<1> SUFFICES ASSUME IndInv, PollResyncs PROVE IndInv'
    OBVIOUS
<1>1. Rewinds(TRUE)
    BY DEF PollResyncs, Rewinds, restoring, IndInv, ControlOK, RewindDue
<1> QED BY <1>1, RewindKeeps

LEMMA PollEmptiedOK == IndInv /\ PollEmptied => IndInv'
<1> SUFFICES ASSUME IndInv, PollEmptied PROVE IndInv'
    OBVIOUS
<1>1. Rewinds(FALSE)
    BY DEF PollEmptied, Rewinds, restoring, IndInv, ControlOK, RewindDue
<1> QED BY <1>1, RewindKeeps

LEMMA TruncateOK == IndInv /\ Faults = {} /\ TruncateAndRewind => IndInv'
<1> SUFFICES ASSUME IndInv, Faults = {}, TruncateAndRewind PROVE IndInv'
    OBVIOUS
<1>1. Rewinds(FALSE)
    BY DEF TruncateAndRewind, Rewinds, restoring, IndInv, ControlOK, AtHead
<1> QED BY <1>1, RewindKeeps

-----------------------------------------------------------------------------
(***************************************************************************)
(* restore(): the reader is placed in file f, its first off records passed *)
(* over, with the rotated files after f to follow.                         *)
(***************************************************************************)
LEMMA ChainIs ==
    ASSUME IndInv, NEW f \in 1..newest, f >= oldest, NEW off \in Nat
    PROVE  /\ Chain(f, off) \in Seq([file : Nat, off : Nat])
           /\ LastRotated - f + 1 \in Nat /\ Len(Chain(f, off)) = LastRotated - f + 1
           /\ \A i \in 1..LastRotated - f + 1 :
                Chain(f, off)[i] = [file |-> f + i - 1, off |-> IF i = 1 THEN off ELSE 0]
<1>1. newest \in Nat /\ oldest \in Nat /\ LastRotated \in Int /\ LastRotated >= f - 1
    BY FileFacts DEF IndInv, LastRotated
<1>2. {g \in Rotated : g >= f} = f..LastRotated
    BY <1>1 DEF Rotated, LastRotated
<1> DEFINE c == LastRotated - f + 1
<1>3. Cardinality(f..LastRotated) = c /\ c \in Nat
    <2>1. f \in Int /\ LastRotated \in Int
        BY <1>1
    <2>2. Cardinality(f..LastRotated) = IF f > LastRotated THEN 0 ELSE LastRotated - f + 1
        BY <2>1, FS_Interval
    <2> QED BY <1>1, <2>1, <2>2
<1>4. Chain(f, off) = [i \in 1..c |-> [file |-> f + i - 1, off |-> IF i = 1 THEN off ELSE 0]]
    BY <1>2, <1>3 DEF Chain
<1>5. \A i \in 1..c : [file |-> f + i - 1, off |-> IF i = 1 THEN off ELSE 0] \in [file : Nat, off : Nat]
    <2> SUFFICES ASSUME NEW i \in 1..c
                 PROVE  f + i - 1 \in Nat /\ (IF i = 1 THEN off ELSE 0) \in Nat
        OBVIOUS
    <2> QED BY <1>3
<1> HIDE DEF c
<1>6. Chain(f, off) \in Seq([file : Nat, off : Nat]) /\ Len(Chain(f, off)) = c
    BY <1>3, <1>4, <1>5
<1>7. \A i \in 1..c : Chain(f, off)[i] = [file |-> f + i - 1, off |-> IF i = 1 THEN off ELSE 0]
    BY <1>4
<1> QED BY <1>3, <1>6, <1>7 DEF c

LEMMA RecoverPlaces ==
    ASSUME IndInv, pc = "idle", ~started, NEW f \in 1..newest, f >= oldest,
           NEW off \in Nat, off <= files[f].size, gap' \in BOOLEAN,
           Recovers(Chain(f, off), IF atPath /\ f = newest THEN off ELSE 0)
    PROVE  /\ ControlOK' /\ HandleOK' /\ TodoOK' /\ DiskOK' /\ Active' /\ ~Active
           /\ NextOff' = off /\ NextRecord' = files[f].first + off
           /\ UNCHANGED <<files, oldest, archive, durable, pos, wiped>> /\ dedup' = TRUE
           /\ newest' = newest /\ Low' = Low
<1> DEFINE s == Chain(f, off)
           c == LastRotated - f + 1
<1>0. DiskOK /\ ControlOK /\ HandleOK /\ TodoOK
    BY DEF IndInv
<1>1. /\ pc' = "restore" /\ started' = started /\ dedup' = TRUE /\ todo' = s
      /\ startOff' = (IF atPath /\ f = newest THEN off ELSE 0)
      /\ UNCHANGED <<disk, handle, offset, archive, durable, pos, wiped, lastCount, resyncReq>>
    BY DEF Recovers, saved, reader
<1>2. /\ files' = files /\ oldest' = oldest /\ atPath' = atPath /\ newest' = newest
      /\ LastRotated' = LastRotated /\ HeadRecord' = HeadRecord /\ Low' = Low /\ DiskOK'
    BY <1>0, <1>1, DiskKept
<1>3. /\ s \in Seq([file : Nat, off : Nat]) /\ c \in Nat /\ Len(s) = c
      /\ \A i \in 1..c : s[i] = [file |-> f + i - 1, off |-> IF i = 1 THEN off ELSE 0]
    BY ChainIs
<1>4. newest \in Nat /\ oldest \in Nat /\ LastRotated \in Int /\ LastRotated <= newest
    BY <1>0, FileFacts DEF LastRotated
<1>5. ~Active /\ Active'
    BY <1>1 DEF Active
<1>6. ~RewindDue /\ ~RewindDue' /\ ~Emptied'
    BY <1>0, <1>1 DEF ControlOK, RewindDue, Emptied
<1>7. ControlOK'
    BY <1>0, <1>1, <1>6 DEF ControlOK
<1>8. HandleOK'
    BY <1>0, <1>1, <1>2 DEF HandleOK
<1>h. handle = 0
    BY <1>0 DEF HandleOK
<1>z. \A g \in 1..newest : files[g].first \in Nat /\ files[g].size \in Nat
    BY <1>0, FileFacts
<1> HIDE DEF s, c
<1>9. c = 0 => atPath /\ f = newest /\ s = <<>>
    <2>1. c = 0 => atPath /\ f = newest
        BY <1>4 DEF LastRotated, c
    <2>2. c = 0 => s = <<>>
        BY <1>3
    <2> QED BY <2>1, <2>2
<1>10. atPath /\ f = newest => c = 0
    BY <1>4 DEF LastRotated, c
<1>11. c > 0 => s # <<>> /\ Head(s) = [file |-> f, off |-> off]
    <2> SUFFICES ASSUME c > 0 PROVE s # <<>> /\ Head(s) = [file |-> f, off |-> off]
        OBVIOUS
    <2>1. s # <<>>
        BY <1>3
    <2>2. Head(s) = s[1]
        BY <1>3, <2>1, HeadIs
    <2>3. s[1] = [file |-> f + 1 - 1, off |-> off]
        BY <1>3
    <2> QED BY <2>1, <2>2, <2>3
<1>12. NextOff' = off /\ NextRecord' = files[f].first + off
    <2>1. CASE c > 0
        <3>1. NextOff' = off
            BY <1>1, <1>11, <2>1 DEF NextOff
        <3>2. NextBase' = files[f].first
            BY <1>1, <1>2, <1>11, <2>1 DEF NextBase
        <3> QED BY <3>1, <3>2 DEF NextRecord
    <2>2. CASE c = 0
        <3>1. NextOff' = off
            BY <1>1, <1>9, <2>2 DEF NextOff
        <3>2. NextBase' = files[f].first
            BY <1>1, <1>2, <1>9, <2>2 DEF NextBase, HeadRecord
        <3> QED BY <3>1, <3>2 DEF NextRecord
    <2> QED BY <1>3, <2>1, <2>2
<1>13. TodoOK'
    <2>1. startOff' \in Nat /\ (startOff' > 0 => s = <<>> /\ atPath /\ startOff' <= files[newest].size)
        BY <1>1, <1>9, <1>10, <1>3
    <2>2. ASSUME NEW i \in 1..Len(s)
          PROVE  /\ s[i].file \in oldest..newest /\ s[i].off <= files[s[i].file].size
                 /\ s[i].file = LastRotated - (Len(s) - i)
                 /\ i > 1 => s[i].off = 0
        <3>1. i \in 1..c /\ s[i].file = f + i - 1 /\ s[i].off = IF i = 1 THEN off ELSE 0
            BY <1>3
        <3>2. f + i - 1 \in oldest..newest /\ f + i - 1 = LastRotated - (c - i)
              /\ f + i - 1 \in 1..newest
            BY <1>3, <1>4, <3>1 DEF c
        <3>3. files[f + i - 1].size \in Nat
            BY <1>z, <3>2
        <3>4. i = 1 => f + i - 1 = f
            OBVIOUS
        <3> QED BY <1>3, <3>1, <3>2, <3>3, <3>4, SMTT(20)
    <2> QED BY <1>1, <1>2, <1>3, <2>1, <2>2 DEF TodoOK
<1> QED BY <1>1, <1>2, <1>5, <1>7, <1>8, <1>12, <1>13

LEMMA RestoreFoundOK == IndInv /\ RestoreFound => IndInv'
<1> SUFFICES ASSUME IndInv, RestoreFound PROVE IndInv'
    OBVIOUS
<1>0. DiskOK /\ ArchiveOK /\ ControlOK /\ PosOK
    BY DEF IndInv
<1>1. pc = "idle" /\ ~started /\ gap' = gap /\ gap \in BOOLEAN /\ ~wiped
    BY <1>0 DEF RestoreFound, ControlOK
<1>2. PICK f \in OnDisk : /\ pos.saved /\ files[f].id = pos.id
                          /\ Recovers(Chain(f, pos.off), IF atPath /\ f = newest THEN pos.off ELSE 0)
    BY DEF RestoreFound
<1>3. f \in 1..newest /\ f >= oldest /\ f \in Nat /\ files[f].first \in Nat /\ files[f].size \in Nat
    <2>1. newest \in Nat /\ oldest \in Nat
        BY <1>0, FileFacts
    <2>2. oldest >= 1
        BY <1>0 DEF DiskOK
    <2>3. f \in 1..newest /\ f >= oldest /\ f \in Nat
        BY <2>1, <2>2 DEF OnDisk
    <2> QED BY <1>0, <2>3, FileFacts
<1>4. PosAt(f) /\ pos.off \in Nat
    BY <1>0, <1>1, <1>2, <1>3 DEF PosOK, Position
<1> DEFINE p == PositionRecord(f)
<1>5. /\ pos.off <= files[f].size /\ Begins(archive, p, Low)
      /\ pos.off > 0 => \E i \in 1..durable : archive[i] = p - 1
      /\ Spans(archive, durable, p, gap, Low)
    BY <1>3, <1>4 DEF PosAt
<1>6. /\ ControlOK' /\ HandleOK' /\ TodoOK' /\ DiskOK' /\ Active' /\ ~Active
      /\ NextOff' = pos.off /\ NextRecord' = p
      /\ UNCHANGED <<files, oldest, archive, durable, pos, wiped>> /\ dedup' = TRUE
      /\ newest' = newest /\ Low' = Low
    BY <1>1, <1>2, <1>3, <1>4, <1>5, RecoverPlaces DEF PositionRecord
<1>7. PositionRecord(f)' = p
    BY <1>6 DEF PositionRecord
<1>8. /\ archive \in Seq(Nat) /\ Len(archive) \in Nat /\ durable \in Nat /\ durable <= Len(archive)
    BY ArchiveFacts
<1> HIDE DEF p, newest
<1>9. Resumes(archive, p, gap, Low)
    <2> SUFFICES ASSUME archive # <<>>
                 PROVE  archive[1] <= p /\ (p <= archive[Len(archive)] + 1 \/ (gap /\ p <= Low))
        BY DEF Resumes
    <2>1. Len(archive) \in durable..Len(archive) /\ Len(archive) > 0
        BY <1>8
    <2> QED BY <1>5, <2>1 DEF Spans
<1>10. pos.off > 0 => p - 1 \in Members(archive)
    <2>1. \A i \in 1..durable : i \in 1..Len(archive)
        BY <1>8
    <2> QED BY <1>5, <2>1 DEF Members
<1>11. ReaderOK'
    BY <1>1, <1>6, <1>9, <1>10 DEF ReaderOK, Reads
<1>12. ArchiveOK'
    BY <1>0, <1>1, <1>6 DEF ArchiveOK
<1>13. PosAt(f)'
    BY <1>1, <1>5, <1>6, <1>7 DEF PosAt
<1>14. \A g \in 1..newest : files[g].id = pos.id => g = f
    BY <1>0, <1>2, <1>3 DEF DiskOK
<1>15. PosOK'
    BY <1>0, <1>6, <1>13, <1>14 DEF PosOK
<1> QED BY <1>6, <1>11, <1>12, <1>15 DEF IndInv

LEMMA RestoreGapOK == IndInv /\ RestoreGap => IndInv'
<1> SUFFICES ASSUME IndInv, RestoreGap PROVE IndInv'
    OBVIOUS
<1>0. DiskOK /\ ArchiveOK /\ ControlOK /\ PosOK
    BY DEF IndInv
<1>1. /\ pc = "idle" /\ ~started /\ gap' = TRUE /\ gap \in BOOLEAN /\ ~wiped /\ pos.saved
      /\ OnDisk # {} /\ \A g \in OnDisk : files[g].id # pos.id
      /\ Recovers(Chain(oldest, 0), 0)
    BY <1>0 DEF RestoreGap, ControlOK
<1>2. PICK f \in 1..newest : files[f].id = pos.id
    BY <1>0, <1>1 DEF PosOK
<1>o. PICK o : o = oldest
    OBVIOUS
<1>3. /\ newest \in Nat /\ oldest \in 1..newest /\ o \in 1..newest /\ o >= oldest
      /\ f < oldest /\ Low = files[o].first /\ files[o].size \in Nat /\ files[o].first \in Nat
      /\ files[f].first \in Nat /\ files[f].size \in Nat /\ files[f].first + files[f].size <= Low
    <2>1. newest \in Nat /\ oldest \in Nat
        BY <1>0, FileFacts
    <2>2. oldest \in 1..newest /\ files # <<>>
        BY <1>0, <1>2, <2>1 DEF DiskOK, newest
    <2>3. f < oldest
        BY <1>1, <1>2, <2>1 DEF OnDisk
    <2>4. o \in 1..newest /\ o >= oldest /\ Low = files[o].first
        BY <1>o, <2>2, <2>1 DEF Low
    <2>5. files[f].first + files[f].size <= Low
        BY <1>0, <2>3, LowFacts
    <2> QED BY <1>0, <2>1, <2>2, <2>3, <2>4, <2>5, FileFacts
<1>4. /\ ControlOK' /\ HandleOK' /\ TodoOK' /\ DiskOK' /\ Active' /\ ~Active
      /\ NextOff' = 0 /\ NextRecord' = files[o].first + 0
      /\ UNCHANGED <<files, oldest, archive, durable, pos, wiped>> /\ dedup' = TRUE
      /\ newest' = newest /\ Low' = Low
    <2>1. Recovers(Chain(o, 0), IF atPath /\ o = newest THEN 0 ELSE 0)
        BY <1>1, <1>o
    <2>2. 0 <= files[o].size /\ gap' \in BOOLEAN
        BY <1>1, <1>3
    <2> QED BY <1>1, <1>3, <2>1, <2>2, RecoverPlaces
<1>5. NextRecord' = Low
    BY <1>3, <1>4
<1>6. PosAt(f) /\ pos.off \in Nat
    BY <1>0, <1>1, <1>2 DEF PosOK, Position
<1>7. /\ archive \in Seq(Nat) /\ Len(archive) \in Nat /\ Increasing(archive)
      /\ InOrder(archive, gap, Low) /\ Low \in Nat
    BY ArchiveFacts
<1>8. Resumes(archive, Low, TRUE, Low)
    <2> SUFFICES ASSUME archive # <<>> PROVE archive[1] <= Low
        BY <1>7 DEF Resumes
    <2>1. archive[1] \in Nat
        BY <1>7, Ends
    <2>2. pos.off <= files[f].size /\ (archive[1] <= files[f].first + pos.off \/ archive[1] <= Low)
        BY <1>6 DEF PosAt, Begins, PositionRecord
    <2> QED BY <1>3, <1>6, <1>7, <2>1, <2>2, SMTT(20)
<1> HIDE DEF newest
<1>9. ReaderOK'
    <2>1. Resumes(archive', NextRecord', gap', Low')
        BY <1>1, <1>4, <1>5, <1>8
    <2>2. Reads(archive', NextRecord', dedup', gap', Low')
        BY <1>4, <2>1 DEF Reads
    <2>3. ~(NextOff' > 0)
        BY <1>4
    <2> QED BY <2>2, <2>3 DEF ReaderOK
<1>10. ArchiveOK'
    <2>1. InOrder(archive, TRUE, Low)
        BY <1>7 DEF InOrder, Dense
    <2> QED BY <1>0, <1>1, <1>4, <2>1 DEF ArchiveOK
<1>11. PosAt(f)'
    <2>1. PositionRecord(f)' = PositionRecord(f)
        BY <1>4 DEF PositionRecord
    <2>2. f \in Nat /\ oldest \in Nat /\ ~(f >= oldest)
        BY <1>3
    <2>3. NextRecord' <= Low
        BY <1>5, <1>7
    <2> QED BY <1>3, <1>4, <1>6, <2>1, <2>2, <2>3 DEF PosAt
<1>12. \A g \in 1..newest : files[g].id = pos.id => g = f
    BY <1>0, <1>2 DEF DiskOK
<1>13. PosOK'
    BY <1>0, <1>4, <1>11, <1>12 DEF PosOK
<1> QED BY <1>4, <1>9, <1>10, <1>13 DEF IndInv

LEMMA RestoreArchiveOK == IndInv /\ RestoreArchive => IndInv'
<1> SUFFICES ASSUME IndInv, RestoreArchive PROVE IndInv'
    OBVIOUS
<1>0. DiskOK /\ ArchiveOK /\ ControlOK /\ PosOK
    BY DEF IndInv
<1>1. /\ pc = "idle" /\ ~started /\ gap' = gap /\ gap \in BOOLEAN /\ ~pos.saved /\ archive # <<>>
      /\ Recovers(Chain(oldest, 0), 0)
    BY <1>0 DEF RestoreArchive, ControlOK
<1>o. PICK o : o = oldest
    OBVIOUS
<1>3. /\ newest \in Nat /\ o \in 1..newest /\ o >= oldest
      /\ Low = files[o].first /\ files[o].size \in Nat /\ files[o].first \in Nat
    <2>1. newest \in Nat /\ oldest \in Nat
        BY <1>0, FileFacts
    <2>2. oldest \in 1..newest /\ files # <<>>
        <3>1. PICK f \in 1..newest : archive[1] = files[f].first
            BY <1>0, <1>1 DEF ArchiveOK
        <3> QED BY <1>0, <2>1, <3>1 DEF DiskOK, newest
    <2>4. o \in 1..newest /\ o >= oldest /\ Low = files[o].first
        BY <1>o, <2>2, <2>1 DEF Low
    <2> QED BY <1>0, <2>1, <2>4, FileFacts
<1>4. /\ ControlOK' /\ HandleOK' /\ TodoOK' /\ DiskOK' /\ Active' /\ ~Active
      /\ NextOff' = 0 /\ NextRecord' = files[o].first + 0
      /\ UNCHANGED <<files, oldest, archive, durable, pos, wiped>> /\ dedup' = TRUE
      /\ newest' = newest /\ Low' = Low
    <2>1. Recovers(Chain(o, 0), IF atPath /\ o = newest THEN 0 ELSE 0)
        BY <1>1, <1>o
    <2>2. 0 <= files[o].size /\ gap' \in BOOLEAN
        BY <1>1, <1>3
    <2> QED BY <1>1, <1>3, <2>1, <2>2, RecoverPlaces
<1>5. NextRecord' = Low
    BY <1>3, <1>4
<1>8. Resumes(archive, Low, gap, Low)
    BY <1>0, <1>1, <1>4 DEF PosOK, Resumes
<1> HIDE DEF newest
<1>9. ReaderOK'
    <2>1. Resumes(archive', NextRecord', gap', Low')
        BY <1>1, <1>4, <1>5, <1>8
    <2>2. Reads(archive', NextRecord', dedup', gap', Low')
        BY <1>4, <2>1 DEF Reads
    <2>3. ~(NextOff' > 0)
        BY <1>4
    <2> QED BY <2>2, <2>3 DEF ReaderOK
<1>10. ArchiveOK'
    BY <1>0, <1>1, <1>4 DEF ArchiveOK
<1>13. PosOK'
    BY <1>0, <1>1, <1>4 DEF PosOK
<1> QED BY <1>4, <1>9, <1>10, <1>13 DEF IndInv

LEMMA RestoreFirstOK == IndInv /\ RestoreFirst => IndInv'
<1> SUFFICES ASSUME IndInv, RestoreFirst PROVE IndInv'
    OBVIOUS
<1>0. DiskOK /\ ArchiveOK /\ ControlOK /\ PosOK /\ HandleOK /\ TodoOK
    BY DEF IndInv
<1>1. /\ pc = "idle" /\ ~started /\ started' = TRUE /\ pc' = "stat" /\ dedup' = TRUE
      /\ IF pos.saved THEN OnDisk = {} ELSE archive = <<>>
      /\ UNCHANGED <<disk, archive, durable, pos, wiped, handle, offset, todo, startOff, lastCount, resyncReq, gap>>
    BY DEF RestoreFirst, saved, reader, restoring
<1>2. /\ files' = files /\ oldest' = oldest /\ atPath' = atPath /\ newest' = newest
      /\ LastRotated' = LastRotated /\ HeadRecord' = HeadRecord /\ Low' = Low /\ DiskOK'
    BY <1>0, <1>1, DiskKept
<1>3. ~pos.saved /\ archive = <<>>
    <2>1. ASSUME pos.saved PROVE FALSE
        <3>1. PICK f \in 1..newest : files[f].id = pos.id
            BY <1>0, <2>1 DEF PosOK
        <3>2. newest \in Nat
            BY <1>0, FileFacts
        <3>3. oldest \in 1..newest
            BY <1>0, <3>1, <3>2 DEF DiskOK, newest
        <3>4. oldest \in OnDisk
            BY <3>2, <3>3 DEF OnDisk
        <3> QED BY <1>1, <2>1, <3>4
    <2> QED BY <1>1, <2>1
<1>4. handle = 0 /\ offset = 0
    BY <1>0, <1>1 DEF HandleOK
<1>5. NextOff' = 0
    BY <1>1, <1>4 DEF NextOff
<1>6. ReaderOK'
    BY <1>1, <1>3, <1>5 DEF ReaderOK, Reads, Resumes
<1>7. ArchiveOK'
    BY <1>0, <1>1, <1>2 DEF ArchiveOK
<1>8. PosOK'
    BY <1>0, <1>1, <1>3 DEF PosOK, Active
<1>9. ~RewindDue' /\ ~Emptied'
    BY <1>0, <1>1 DEF RewindDue, Emptied, ControlOK
<1>10. ControlOK'
    BY <1>0, <1>1, <1>9 DEF ControlOK
<1>11. HandleOK'
    BY <1>0, <1>1, <1>2, <1>4 DEF HandleOK
<1>12. TodoOK'
    BY <1>0, <1>1, <1>2 DEF TodoOK
<1> QED BY <1>2, <1>6, <1>7, <1>8, <1>10, <1>11, <1>12 DEF IndInv

-----------------------------------------------------------------------------
(***************************************************************************)
(* The end of the process, the loss of the position, the emptied archive.  *)
(***************************************************************************)
\* Without a position the archive says where to resume.
LEMMA ArchiveSuffices ==
    ASSUME DiskOK, NEW a \in Seq(Nat), Increasing(a), NEW kept \in 1..newest, NEW low,
           a # <<>> => \E f \in 1..newest : a[1] = files[f].first, ~NeedsPosition(a, kept)
    PROVE  Resumes(a, files[kept].first, FALSE, low)
<1> SUFFICES ASSUME a # <<>>
             PROVE  a[1] <= files[kept].first /\ files[kept].first <= a[Len(a)] + 1
    BY DEF Resumes
<1>1. a[1] \in Nat /\ a[Len(a)] \in Nat /\ a[1] <= a[Len(a)]
    BY Ends
<1>2. newest \in Nat /\ \A f \in 1..newest : files[f].first \in Nat /\ files[f].size \in Nat
    BY FileFacts
<1>3. PICK h \in 1..newest : a[1] = files[h].first
    OBVIOUS
<1>4. \A f \in 1..newest : files[f].size > 0 =>
        IF f >= kept THEN ~(files[f].first < a[1])
        ELSE ~(files[f].first + files[f].size - 1 > a[Len(a)])
    BY DEF NeedsPosition, Record
<1>5. \A f, g \in 1..newest : f < g => files[f].first + files[f].size <= files[g].first
    BY DEF DiskOK
<1>6. a[1] <= files[kept].first
    <2>1. CASE files[kept].size > 0
        BY <1>1, <1>2, <1>4, <2>1
    <2>2. CASE files[kept].size = 0
        <3>1. ~(kept < newest)
            BY <2>2 DEF DiskOK
        <3>2. h < kept \/ h = kept
            BY <1>2, <3>1
        <3>3. h < kept => files[h].first + files[h].size <= files[kept].first
            BY <1>5
        <3> QED BY <1>2, <1>3, <3>2, <3>3
    <2> QED BY <1>2, <2>1, <2>2
<1>7. files[kept].first <= a[Len(a)] + 1
    <2>1. CASE kept = 1
        <3>1. h = kept \/ kept < h
            BY <2>1
        <3>2. kept < h => files[kept].first + files[kept].size <= files[h].first
            BY <1>5
        <3> QED BY <1>1, <1>2, <1>3, <3>1, <3>2
    <2>2. CASE kept > 1
        <3> DEFINE f == kept - 1
        <3>1. f \in 1..newest /\ f \in 1..newest - 1 /\ f + 1 = kept /\ f < newest /\ ~(f >= kept)
            BY <1>2, <2>2
        <3> HIDE DEF f
        <3>2. files[f].size > 0
            BY <3>1 DEF DiskOK
        <3>3. files[f + 1].first = files[f].first + files[f].size
            BY <3>1 DEF DiskOK
        <3>4. ~(files[f].first + files[f].size - 1 > a[Len(a)])
            BY <1>4, <3>1, <3>2
        <3>5. files[f].first \in Nat /\ files[f].size \in Nat
            BY <1>2, <3>1
        <3>6. PICK x, y, z : x = files[f].first /\ y = files[f].size /\ z = a[Len(a)]
            OBVIOUS
        <3>7. x \in Nat /\ y \in Nat /\ z \in Nat /\ ~(x + y - 1 > z)
            BY <1>1, <3>4, <3>5, <3>6
        <3>8. x + y <= z + 1
            BY <3>7
        <3> QED BY <3>1, <3>3, <3>6, <3>8
    <2> QED BY <2>1, <2>2
<1> QED BY <1>6, <1>7

LEMMA LowIs ==
    ASSUME IndInv, NEW a \in Seq(Nat), Increasing(a), ~NeedsPosition(a, oldest),
           a # <<>> => \E f \in 1..newest : a[1] = files[f].first
    PROVE  Resumes(a, Low, FALSE, Low)
<1>1. CASE a = <<>>
    BY <1>1 DEF Resumes
<1>2. CASE a # <<>>
    <2>1. PICK f \in 1..newest : a[1] = files[f].first
        BY <1>2
    <2>2. newest \in Nat /\ DiskOK
        BY FileFacts DEF IndInv
    <2>3. oldest \in 1..newest /\ files # <<>>
        BY <2>1, <2>2 DEF DiskOK, newest
    <2>4. Resumes(a, files[oldest].first, FALSE, Low)
        BY <2>2, <2>3, ArchiveSuffices
    <2> QED BY <2>3, <2>4 DEF Low
<1> QED BY <1>1, <1>2

LEMMA CrashOK == IndInv /\ Faults = {} /\ Crash => IndInv'
<1> SUFFICES ASSUME IndInv, Faults = {}, Crash PROVE IndInv'
    OBVIOUS
<1>0. DiskOK /\ ArchiveOK /\ ControlOK /\ PosOK /\ HandleOK /\ TodoOK
    BY DEF IndInv
<1>1. /\ pc' = "down" /\ started' = FALSE /\ handle' = 0 /\ offset' = 0 /\ dedup' = FALSE
      /\ todo' = <<>> /\ startOff' = 0 /\ lastCount' = 0 /\ resyncReq' = FALSE /\ ~wiped
      /\ (~pos.saved => ~NeedsPosition(archive', oldest))
      /\ UNCHANGED <<disk, pos, wiped, gap>>
    BY DEF Crash, Close
<1>n. PICK n \in durable..Len(archive) : archive' = SubSeq(archive, 1, n) /\ durable' = n
    BY DEF Crash
<1>2. /\ files' = files /\ oldest' = oldest /\ atPath' = atPath /\ newest' = newest
      /\ LastRotated' = LastRotated /\ Low' = Low /\ DiskOK'
    BY <1>0, <1>1, DiskKept
<1>3. /\ archive \in Seq(Nat) /\ Len(archive) \in Nat /\ durable \in Nat /\ durable <= Len(archive)
      /\ InOrder(archive, gap, Low) /\ gap \in BOOLEAN /\ Low \in Nat
    BY ArchiveFacts
<1> DEFINE b == archive'
<1>4. n \in 0..Len(archive) /\ n \in Nat /\ durable <= n
    BY <1>3
<1>5. InOrder(b, gap, Low) /\ Len(b) = n /\ \A i \in 1..n : b[i] = archive[i]
    <2>1. Prefix(archive, n, b)
        BY <1>3, <1>4, <1>n, PrefixIs
    <2>2. InOrder(archive, gap, Low) /\ gap \in BOOLEAN /\ Low \in Nat /\ n \in 0..Len(archive)
        BY <1>3, <1>4
    <2>3. InOrder(b, gap, Low)
        BY <2>1, <2>2, PrefixInOrder
    <2> QED BY <2>1, <2>3 DEF Prefix
<1>6. b \in Seq(Nat) /\ Increasing(b)
    BY <1>5 DEF InOrder
<1>7. b # <<>> => n > 0 /\ archive # <<>> /\ b[1] = archive[1]
    BY <1>3, <1>4, <1>5, <1>6
<1> HIDE DEF b, newest
<1>8. b # <<>> => \E f \in 1..newest : b[1] = files[f].first
    BY <1>0, <1>7 DEF ArchiveOK
<1>9. ArchiveOK'
    <2>1. durable' \in 0..Len(b)
        BY <1>4, <1>5, <1>n
    <2> QED BY <1>1, <1>2, <1>5, <1>8, <2>1 DEF ArchiveOK, b
<1>10. ~Active' /\ ~RewindDue' /\ ~Emptied'
    BY <1>1 DEF Active, RewindDue, Emptied
<1>11. ReaderOK'
    BY <1>10 DEF ReaderOK
<1>12. ControlOK'
    BY <1>0, <1>1, <1>10 DEF ControlOK
<1>13. HandleOK'
    <2>1. newest \in Nat
        BY <1>0, FileFacts
    <2> QED BY <1>1, <1>2, <2>1 DEF HandleOK
<1>14. TodoOK'
    <2>1. <<>> \in Seq([file : Nat, off : Nat]) /\ 1..Len(<<>>) = {}
        OBVIOUS
    <2> QED BY <1>1, <2>1 DEF TodoOK
<1>15. ASSUME NEW f \in 1..newest, PosAt(f) PROVE PosAt(f)'
    <2> DEFINE p == PositionRecord(f)
    <2>1. PositionRecord(f)' = p
        BY <1>1, <1>2 DEF PositionRecord
    <2>2. /\ pos.off <= files[f].size
          /\ Begins(archive, p, Low)
          /\ pos.off > 0 => \E i \in 1..durable : archive[i] = p - 1
          /\ f >= oldest => Spans(archive, durable, p, gap, Low)
        BY <1>15 DEF PosAt
    <2> HIDE DEF p
    <2>3. Begins(b, p, Low)
        BY <1>7, <2>2 DEF Begins
    <2>4. pos.off > 0 => \E i \in 1..n : b[i] = p - 1
        <3>1. \A i \in 1..durable : i \in 1..n
            BY <1>3, <1>4
        <3> QED BY <1>5, <2>2, <3>1
    <2>5. ASSUME f >= oldest PROVE Spans(b, n, p, gap, Low)
        <3> SUFFICES ASSUME NEW m \in n..Len(b), m > 0
                     PROVE  b[1] <= p /\ (p <= b[m] + 1 \/ (gap /\ p <= Low))
            BY DEF Spans
        <3>1. m = n /\ n \in durable..Len(archive) /\ n > 0 /\ 1 \in 1..n /\ n \in 1..n
            BY <1>3, <1>4, <1>5
        <3>2. archive[1] <= p /\ (p <= archive[n] + 1 \/ (gap /\ p <= Low))
            BY <2>2, <2>5, <3>1 DEF Spans
        <3>3. b[1] = archive[1] /\ b[m] = archive[n]
            BY <1>5, <3>1
        <3> QED BY <3>2, <3>3
    <2> QED BY <1>1, <1>2, <1>10, <1>n, <2>1, <2>2, <2>3, <2>4, <2>5 DEF PosAt, b
<1>16. ~pos.saved => Resumes(b, Low, FALSE, Low)
    BY <1>1, <1>6, <1>8, LowIs DEF b
<1>17. PosOK'
    BY <1>0, <1>1, <1>2, <1>10, <1>15, <1>16 DEF PosOK, b
<1> QED BY <1>2, <1>9, <1>11, <1>12, <1>13, <1>14, <1>17 DEF IndInv

LEMMA LosePositionOK == IndInv /\ Faults = {} /\ LosePosition => IndInv'
<1> SUFFICES ASSUME IndInv, Faults = {}, LosePosition PROVE IndInv'
    OBVIOUS
<1>0. DiskOK /\ ArchiveOK /\ ControlOK /\ PosOK /\ HandleOK /\ TodoOK
    BY DEF IndInv
<1>1. /\ pc = "down" /\ pos' = NoPosition /\ wiped' = FALSE /\ ~NeedsPosition(archive, oldest)
      /\ UNCHANGED <<disk, archive, durable, pc, started, handle, offset, dedup, todo, startOff,
                     lastCount, resyncReq, gap>>
    BY DEF LosePosition, reader, restoring
<1>2. /\ files' = files /\ oldest' = oldest /\ atPath' = atPath /\ newest' = newest
      /\ LastRotated' = LastRotated /\ Low' = Low /\ DiskOK'
    BY <1>0, <1>1, DiskKept
<1>3. archive \in Seq(Nat) /\ Increasing(archive)
    BY ArchiveFacts
<1>4. Resumes(archive, Low, FALSE, Low)
    BY <1>0, <1>1, <1>3, LowIs DEF ArchiveOK
<1>5. ~started /\ ~Active' /\ ~RewindDue' /\ ~Emptied'
    BY <1>0, <1>1 DEF ControlOK, Active, RewindDue, Emptied
<1>6. pos' \in Position /\ pos'.saved = FALSE
    BY <1>1 DEF NoPosition, Position
<1>7. PosOK'
    BY <1>1, <1>2, <1>4, <1>6 DEF PosOK
<1>8. ArchiveOK'
    BY <1>0, <1>1, <1>2 DEF ArchiveOK
<1>9. ReaderOK'
    BY <1>5 DEF ReaderOK
<1>10. ControlOK'
    BY <1>0, <1>1, <1>5 DEF ControlOK
<1>11. HandleOK'
    BY <1>0, <1>1, <1>2 DEF HandleOK
<1>12. TodoOK'
    BY <1>0, <1>1, <1>2 DEF TodoOK
<1> QED BY <1>2, <1>7, <1>8, <1>9, <1>10, <1>11, <1>12 DEF IndInv

LEMMA WipeOK == IndInv /\ Faults = {} /\ Wipe => IndInv'
<1> SUFFICES ASSUME IndInv, Faults = {}, Wipe PROVE IndInv'
    OBVIOUS
<1>0. DiskOK /\ ArchiveOK /\ ControlOK /\ PosOK /\ HandleOK /\ TodoOK
    BY DEF IndInv
<1>1. /\ pc = "idle" /\ started /\ lastCount > 0 /\ AtHead
      /\ archive' = <<>> /\ durable' = 0 /\ gap' = FALSE /\ wiped' = pos.saved
      /\ UNCHANGED <<disk, pos, pc, started, handle, offset, dedup, todo, startOff,
                     lastCount, resyncReq>>
    BY DEF Wipe, reader, restoring
<1>2. /\ files' = files /\ oldest' = oldest /\ atPath' = atPath /\ newest' = newest
      /\ LastRotated' = LastRotated /\ Low' = Low /\ DiskOK'
    BY <1>0, <1>1, DiskKept
<1>3. <<>> \in Seq(Nat) /\ Len(<<>>) = 0
    OBVIOUS
<1>4. Emptied' /\ Active'
    BY <1>1 DEF Emptied, Active
<1>5. pos.saved \in BOOLEAN
    BY <1>0 DEF PosOK, Position
<1>6. ArchiveOK'
    <2>1. InOrder(archive', gap', Low')
        BY <1>1, <1>3 DEF InOrder, Increasing, Dense
    <2>2. durable' \in 0..Len(archive')
        BY <1>1, <1>3
    <2> QED BY <1>1, <2>1, <2>2 DEF ArchiveOK
<1>7. ReaderOK'
    BY <1>1, <1>4 DEF ReaderOK, Reads, Resumes
<1>8. PosOK'
    BY <1>0, <1>1, <1>2, <1>4, <1>5 DEF PosOK
<1>9. ControlOK'
    BY <1>0, <1>1, <1>2, <1>5 DEF ControlOK, AtHead
<1>11. HandleOK'
    BY <1>0, <1>1, <1>2 DEF HandleOK
<1>12. TodoOK'
    BY <1>0, <1>1, <1>2 DEF TodoOK
<1> QED BY <1>2, <1>6, <1>7, <1>8, <1>9, <1>11, <1>12 DEF IndInv

-----------------------------------------------------------------------------
(***************************************************************************)
(* The schedd's steps.  They only move Low up and make files longer.       *)
(***************************************************************************)
DiskStep ==
    /\ UNCHANGED <<archive, durable, pos, wiped, gap, dedup>>
    /\ (Active' <=> Active) /\ (Emptied' <=> Emptied)
    /\ newest <= newest' /\ oldest <= oldest' /\ Low <= Low'
    /\ \A f \in 1..newest :
         /\ files'[f].first = files[f].first /\ files'[f].id = files[f].id
         /\ files[f].size <= files'[f].size
    /\ Active => NextRecord' = NextRecord /\ NextOff' = NextOff
    /\ ~Active /\ ~pos.saved => Resumes(archive, Low', FALSE, Low')

LEMMA RaisesLow ==
    ASSUME NEW low \in Nat, NEW low2 \in Nat, low <= low2, NEW g \in BOOLEAN
    PROVE  /\ \A a : InOrder(a, g, low) => InOrder(a, g, low2)
           /\ \A a : \A n \in Nat : Resumes(a, n, g, low) => Resumes(a, n, g, low2)
           /\ \A a, d : \A n \in Nat : Reads(a, n, d, g, low) => Reads(a, n, d, g, low2)
           /\ \A a, dur : \A p \in Nat : Spans(a, dur, p, g, low) => Spans(a, dur, p, g, low2)
<1>1. ASSUME NEW a, InOrder(a, g, low) PROVE InOrder(a, g, low2)
    <2>1. a \in Seq(Nat) /\ Increasing(a) /\ Dense(a, g, low)
        BY <1>1 DEF InOrder
    <2>2. ASSUME a # <<>>, NEW x \in a[1]..a[Len(a)], ~g \/ x >= low2 PROVE x \in Members(a)
        <3>1. x \in Int
            OBVIOUS
        <3>2. ~g \/ x >= low
            BY <2>2, <3>1
        <3> QED BY <2>1, <2>2, <3>2 DEF Dense
    <2> QED BY <2>1, <2>2 DEF InOrder, Dense
<1>2. ASSUME NEW a, NEW n \in Nat, Resumes(a, n, g, low) PROVE Resumes(a, n, g, low2)
    BY <1>2 DEF Resumes
<1>3. ASSUME NEW a, NEW d, NEW n \in Nat, Reads(a, n, d, g, low) PROVE Reads(a, n, d, g, low2)
    BY <1>2, <1>3 DEF Reads
<1>4. ASSUME NEW a, NEW dur, NEW p \in Nat, Spans(a, dur, p, g, low) PROVE Spans(a, dur, p, g, low2)
    BY <1>4 DEF Spans
<1> QED BY <1>1, <1>2, <1>3, <1>4

FileTypes ==
    /\ newest \in Nat /\ oldest \in Nat
    /\ \A f \in 1..newest : /\ files[f].first \in Nat \ {0} /\ files[f].size \in Nat
                             /\ files[f].id \in Inode

LEMMA FilesTyped == DiskOK => FileTypes
BY FileFacts DEF FileTypes

LEMMA FileTypesNext ==
    DiskOK' => /\ newest' \in Nat /\ oldest' \in Nat
               /\ \A f \in 1..newest' : /\ files'[f].first \in Nat \ {0} /\ files'[f].size \in Nat
                                         /\ files'[f].id \in Inode
<1>1. (DiskOK => FileTypes)'
    BY FilesTyped, PTL
<1> QED BY <1>1 DEF FileTypes

LEMMA LowIsNat == DiskOK => Low \in Nat
BY LowFacts

LEMMA LowNext == DiskOK' => Low' \in Nat
<1>1. (DiskOK => Low \in Nat)'
    BY LowIsNat, PTL
<1> QED BY <1>1

LEMMA DiskStepKeeps == IndInv /\ DiskOK' /\ DiskStep => ArchiveOK' /\ ReaderOK' /\ PosOK'
<1> SUFFICES ASSUME IndInv, DiskOK', DiskStep PROVE ArchiveOK' /\ ReaderOK' /\ PosOK'
    OBVIOUS
<1>0. DiskOK /\ ArchiveOK /\ ReaderOK /\ PosOK
    BY DEF IndInv
<1>1. /\ archive' = archive /\ durable' = durable /\ pos' = pos /\ wiped' = wiped /\ gap' = gap
      /\ dedup' = dedup /\ (Active' <=> Active) /\ (Emptied' <=> Emptied)
      /\ newest <= newest' /\ oldest <= oldest' /\ Low <= Low'
      /\ Active => NextRecord' = NextRecord /\ NextOff' = NextOff
      /\ ~Active /\ ~pos.saved => Resumes(archive, Low', FALSE, Low')
    BY DEF DiskStep
<1>2. \A f \in 1..newest :
         /\ files'[f].first = files[f].first /\ files'[f].id = files[f].id
         /\ files[f].size <= files'[f].size
    BY DEF DiskStep
<1>3. newest \in Nat /\ oldest \in Nat /\ Low \in Nat
    BY <1>0, FileFacts, LowFacts
<1>4. /\ newest' \in Nat /\ oldest' \in Nat
      /\ \A f \in 1..newest' : /\ files'[f].first \in Nat \ {0} /\ files'[f].size \in Nat
                                /\ files'[f].id \in Inode
    BY FileTypesNext
<1>5. Low' \in Nat
    BY LowNext
<1>6. gap \in BOOLEAN
    BY ArchiveFacts
<1>7. Active => NextRecord \in Nat
    BY NextFacts
<1> HIDE DEF newest
<1>8. \A f \in 1..newest : f \in 1..newest'
    BY <1>1, <1>3, <1>4
<1>9. ArchiveOK'
    <2>1. InOrder(archive, gap, Low')
        BY <1>0, <1>1, <1>3, <1>5, <1>6, RaisesLow DEF ArchiveOK
    <2>2. archive # <<>> => \E f \in 1..newest' : archive[1] = files'[f].first
        BY <1>0, <1>2, <1>8 DEF ArchiveOK
    <2> QED BY <1>0, <1>1, <2>1, <2>2 DEF ArchiveOK
<1>10. ReaderOK'
    <2>1. Active => Reads(archive, NextRecord, dedup, gap, Low')
        <3>1. Active => Reads(archive, NextRecord, dedup, gap, Low)
            BY <1>0 DEF ReaderOK
        <3> QED BY <1>1, <1>3, <1>5, <1>6, <1>7, <3>1, RaisesLow
    <2> QED BY <1>0, <1>1, <2>1 DEF ReaderOK
<1>11. ASSUME NEW f \in 1..newest, PosAt(f) PROVE PosAt(f)'
    <2> DEFINE p == PositionRecord(f)
    <2>0. files[f].first \in Nat /\ files[f].size \in Nat /\ pos.off \in Nat
        BY <1>0, FileFacts DEF PosOK, Position, newest
    <2>1. PositionRecord(f)' = p /\ p \in Nat
        BY <1>1, <1>2, <2>0 DEF PositionRecord
    <2>2. /\ pos.off <= files[f].size
          /\ Begins(archive, p, Low)
          /\ Active /\ archive = <<>> => NextRecord = p \/ (f < oldest /\ NextRecord <= Low)
          /\ pos.off > 0 => \E i \in 1..durable : archive[i] = p - 1
          /\ f >= oldest => Spans(archive, durable, p, gap, Low)
        BY <1>11 DEF PosAt
    <2> HIDE DEF p
    <2>3. files'[f].size \in Nat
        BY <1>4, <1>8
    <2>4. pos.off <= files'[f].size
        BY <1>2, <2>0, <2>2, <2>3
    <2>5. Begins(archive, p, Low')
        <3> SUFFICES ASSUME archive # <<>> PROVE archive[1] <= p \/ archive[1] <= Low'
            BY DEF Begins
        <3>1. archive[1] \in Nat
            BY ArchiveFacts, Ends
        <3>2. archive[1] <= p \/ archive[1] <= Low
            BY <2>2 DEF Begins
        <3> QED BY <1>1, <1>3, <1>5, <3>1, <3>2
    <2>6. Active /\ archive = <<>> => NextRecord = p \/ (f < oldest' /\ NextRecord <= Low')
        <3>1. f \in Nat
            BY <1>3
        <3> QED BY <1>1, <1>3, <1>4, <1>5, <1>7, <2>2, <3>1
    <2>7. f >= oldest' => Spans(archive, durable, p, gap, Low')
        <3>1. f >= oldest' => f >= oldest
            BY <1>1, <1>3, <1>4
        <3>2. Spans(archive, durable, p, gap, Low) => Spans(archive, durable, p, gap, Low')
            BY <1>1, <1>3, <1>5, <1>6, <2>1, RaisesLow
        <3> QED BY <2>2, <3>1, <3>2
    <2> QED BY <1>1, <2>1, <2>2, <2>4, <2>5, <2>6, <2>7 DEF PosAt
<1>12. PosOK'
    <2>1. pos.saved => \E f \in 1..newest' : files'[f].id = pos.id
        BY <1>0, <1>2, <1>8 DEF PosOK
    <2>2. ASSUME pos.saved, ~wiped, NEW f \in 1..newest', files'[f].id = pos.id PROVE PosAt(f)'
        <3>1. PICK g \in 1..newest : files[g].id = pos.id
            BY <1>0, <2>2 DEF PosOK
        <3>2. g \in 1..newest' /\ files'[g].id = pos.id
            BY <1>2, <1>8, <3>1
        <3>3. \A x, y \in 1..newest' : x # y => files'[x].id # files'[y].id
            BY DEF DiskOK
        <3>4. f = g
            BY <2>2, <3>2, <3>3
        <3>5. PosAt(g)
            BY <1>0, <2>2, <3>1 DEF PosOK
        <3> QED BY <1>11, <3>4, <3>5
    <2> QED BY <1>0, <1>1, <2>1, <2>2 DEF PosOK
<1> QED BY <1>9, <1>10, <1>12

\* What every step of the schedd leaves alone.
LEMMA ScheddLeaves ==
    ASSUME IndInv, ScheddOnly
    PROVE  /\ UNCHANGED <<archive, durable, pos, wiped, gap, dedup, pc, started, handle, offset,
                          todo, startOff, lastCount, resyncReq>>
           /\ (Active' <=> Active) /\ (Emptied' <=> Emptied) /\ (RewindDue' <=> RewindDue)
<1>1. UNCHANGED <<archive, durable, pos, wiped, gap, dedup, pc, started, handle, offset,
                          todo, startOff, lastCount, resyncReq>>
    BY DEF ScheddOnly, saved, reader, restoring
<1> QED BY <1>1 DEF Active, Emptied, RewindDue

LEMMA BeginsRecordOK == IndInv /\ ScheddBeginsRecord => IndInv'
<1> SUFFICES ASSUME IndInv, ScheddBeginsRecord PROVE IndInv'
    OBVIOUS
<1>0. DiskOK /\ ControlOK /\ PosOK /\ HandleOK /\ TodoOK
    BY DEF IndInv
<1>1. /\ atPath /\ torn' = TRUE /\ files' = files /\ oldest' = oldest /\ atPath' = atPath /\ ScheddOnly
    BY DEF ScheddBeginsRecord
<1>2. /\ UNCHANGED <<archive, durable, pos, wiped, gap, dedup, pc, started, handle, offset,
                     todo, startOff, lastCount, resyncReq>>
      /\ (Active' <=> Active) /\ (Emptied' <=> Emptied) /\ (RewindDue' <=> RewindDue)
    BY <1>1, ScheddLeaves
<1>3. /\ newest' = newest /\ Low' = Low /\ HeadRecord' = HeadRecord /\ LastRotated' = LastRotated
    BY <1>1 DEF newest, Low, HeadRecord, Written, LastRotated
<1>4. NextBase' = NextBase /\ NextOff' = NextOff /\ NextRecord' = NextRecord
    BY <1>1, <1>2, <1>3 DEF NextBase, NextOff, NextRecord
<1>5. /\ newest \in Nat /\ oldest \in Nat /\ Low \in Nat
      /\ \A f \in 1..newest : files[f].size \in Nat
    BY <1>0, FileFacts, LowFacts
<1> HIDE DEF newest
<1>6. DiskStep
    <2>1. ~Active /\ ~pos.saved => Resumes(archive, Low', FALSE, Low')
        BY <1>0, <1>3 DEF PosOK
    <2>2. newest <= newest' /\ oldest <= oldest' /\ Low <= Low'
        BY <1>1, <1>3, <1>5
    <2>3. \A f \in 1..newest :
             /\ files'[f].first = files[f].first /\ files'[f].id = files[f].id
             /\ files[f].size <= files'[f].size
        BY <1>1, <1>5
    <2>4. UNCHANGED <<archive, durable, pos, wiped, gap, dedup>>
        BY <1>2
    <2> QED BY <1>2, <1>4, <2>1, <2>2, <2>3, <2>4 DEF DiskStep
<1>7. DiskOK'
    BY <1>0, <1>1, <1>3 DEF DiskOK
<1>8. ControlOK'
    BY <1>0, <1>1, <1>2, <1>3 DEF ControlOK
<1>9. HandleOK'
    BY <1>0, <1>1, <1>2, <1>3 DEF HandleOK
<1>10. TodoOK'
    BY <1>0, <1>1, <1>2, <1>3 DEF TodoOK
<1> QED BY <1>6, <1>7, <1>8, <1>9, <1>10, DiskStepKeeps DEF IndInv

LEMMA RotatesOK == IndInv /\ Faults = {} /\ MaxKept > 0 /\ ScheddRotates => IndInv'
<1> SUFFICES ASSUME IndInv, Faults = {}, MaxKept > 0, ScheddRotates PROVE IndInv'
    OBVIOUS
<1>0. DiskOK /\ ArchiveOK /\ ControlOK /\ PosOK /\ HandleOK /\ TodoOK
    BY DEF IndInv
<1>1. /\ atPath /\ ~torn /\ files[newest].size > 0 /\ (pc = "down" \/ handle = newest)
      /\ ~RewindDue /\ atPath' = FALSE /\ oldest' = Max({oldest, newest + 1 - MaxKept})
      /\ (~started /\ ~pos.saved => ~NeedsPosition(archive, oldest'))
      /\ files' = files /\ torn' = torn /\ ScheddOnly
    BY DEF ScheddRotates
<1>2. /\ UNCHANGED <<archive, durable, pos, wiped, gap, dedup, pc, started, handle, offset,
                     todo, startOff, lastCount, resyncReq>>
      /\ (Active' <=> Active) /\ (Emptied' <=> Emptied) /\ (RewindDue' <=> RewindDue)
    BY <1>1, ScheddLeaves
<1>3. /\ newest \in Nat /\ oldest \in Nat /\ Low \in Nat /\ oldest \in 1..newest /\ files # <<>>
      /\ \A f \in 1..newest : files[f].size \in Nat
      /\ \A f \in 1..newest : f >= oldest => Low <= files[f].first
    <2>1. /\ newest \in Nat /\ oldest \in Nat /\ Low \in Nat
          /\ \A f \in 1..newest : files[f].size \in Nat
          /\ \A f \in 1..newest : f >= oldest => Low <= files[f].first
        BY <1>0, FileFacts, LowFacts
    <2>2. files # <<>> /\ oldest \in 1..newest
        BY <1>0, <1>1 DEF DiskOK
    <2> QED BY <2>1, <2>2
<1>4. newest' = newest /\ oldest' \in 1..newest /\ oldest <= oldest'
    <2>1. MaxKept \in Nat
        BY BoundAssumption
    <2>2. newest + 1 - MaxKept \in Int /\ newest + 1 - MaxKept <= newest
        BY <1>3, <2>1
    <2>3. oldest' = IF oldest >= newest + 1 - MaxKept THEN oldest ELSE newest + 1 - MaxKept
        BY <1>1, <1>3, <2>2, MaxOfTwo
    <2>4. newest' = newest
        BY <1>1 DEF newest
    <2> QED BY <1>3, <2>2, <2>3, <2>4
<1>5. PICK o : o = oldest'
    OBVIOUS
<1>6. Low' = files[o].first /\ Low <= Low' /\ o \in 1..newest
    <2>1. Low' = files[o].first
        BY <1>1, <1>3, <1>5 DEF Low
    <2> QED BY <1>3, <1>4, <1>5, <2>1
<1>7. Active => started /\ pc # "restore" /\ handle = newest /\ handle # 0
    <2>1. newest # 0
        BY <1>3
    <2> QED BY <1>0, <1>1, <2>1 DEF Active, ControlOK, HandleOK
<1>8. Active => NextOff' = NextOff /\ NextRecord' = NextRecord
    BY <1>1, <1>2, <1>7 DEF NextBase, NextOff, NextRecord
<1>9. ~Active /\ ~pos.saved => Resumes(archive, Low', FALSE, Low')
    <2> SUFFICES ASSUME ~Active, ~pos.saved PROVE Resumes(archive, Low', FALSE, Low')
        OBVIOUS
    <2>1. ~NeedsPosition(archive, o)
        BY <1>1, <1>5 DEF Active
    <2>2. archive \in Seq(Nat) /\ Increasing(archive)
        BY ArchiveFacts
    <2>3. archive # <<>> => \E f \in 1..newest : archive[1] = files[f].first
        BY <1>0 DEF ArchiveOK
    <2>4. Resumes(archive, files[o].first, FALSE, Low')
        BY <1>0, <1>6, <2>1, <2>2, <2>3, ArchiveSuffices
    <2> QED BY <1>6, <2>4
<1> HIDE DEF newest
<1>10. DiskStep
    <2>2. newest <= newest' /\ oldest <= oldest' /\ Low <= Low'
        BY <1>3, <1>4, <1>6
    <2>3. \A f \in 1..newest :
             /\ files'[f].first = files[f].first /\ files'[f].id = files[f].id
             /\ files[f].size <= files'[f].size
        BY <1>1, <1>3
    <2>4. UNCHANGED <<archive, durable, pos, wiped, gap, dedup>>
        BY <1>2
    <2> QED BY <1>2, <1>8, <1>9, <2>2, <2>3, <2>4 DEF DiskStep
<1>11. DiskOK'
    <2>1. \A f \in 1..newest : files[f].size > 0
        <3> SUFFICES ASSUME NEW f \in 1..newest PROVE files[f].size > 0
            OBVIOUS
        <3>1. f < newest \/ f = newest
            BY <1>3
        <3> QED BY <1>0, <1>1, <3>1 DEF DiskOK
    <2> QED BY <1>0, <1>1, <1>3, <1>4, <2>1 DEF DiskOK
<1>12. ControlOK'
    BY <1>0, <1>1, <1>2, <1>4 DEF ControlOK
<1>13. HandleOK'
    <2>1. handle # 0 => handle = newest
        BY <1>0, <1>1, <1>3 DEF HandleOK, ControlOK
    <2>2. oldest' <= newest
        BY <1>3, <1>4
    <2> QED BY <1>0, <1>1, <1>2, <1>4, <2>1, <2>2 DEF HandleOK
<1>14. TodoOK'
    <2>1. pc # "restore"
        BY <1>7 DEF Active
    <2>2. todo = <<>> /\ startOff = 0 /\ todo \in Seq([file : Nat, off : Nat])
        BY <1>0, <2>1 DEF TodoOK
    <2>3. 1..Len(todo) = {}
        BY <2>2
    <2> QED BY <1>2, <2>1, <2>2, <2>3 DEF TodoOK
<1> QED BY <1>10, <1>11, <1>12, <1>13, <1>14, DiskStepKeeps DEF IndInv

LEMMA ElementIs ==
    ASSUME NEW S, NEW s \in Seq(S), NEW i \in 1..Len(s)
    PROVE  s[i] \in S
OBVIOUS

LEMMA EndsRecordOK == IndInv /\ ScheddEndsRecord => IndInv'
<1> SUFFICES ASSUME IndInv, ScheddEndsRecord PROVE IndInv'
    OBVIOUS
<1>0. DiskOK /\ ControlOK /\ PosOK /\ HandleOK /\ TodoOK
    BY DEF IndInv
<1>1. /\ torn /\ torn' = FALSE /\ files' = [files EXCEPT ![newest].size = @ + 1]
      /\ oldest' = oldest /\ atPath' = atPath /\ ScheddOnly
    BY DEF ScheddEndsRecord
<1>2. /\ UNCHANGED <<archive, durable, pos, wiped, gap, dedup, pc, started, handle, offset,
                     todo, startOff, lastCount, resyncReq>>
      /\ (Active' <=> Active) /\ (Emptied' <=> Emptied) /\ (RewindDue' <=> RewindDue)
    BY <1>1, ScheddLeaves
<1>3. /\ newest \in Nat /\ oldest \in Nat
      /\ \A f \in 1..newest : /\ files[f].first \in Nat \ {0} /\ files[f].size \in Nat
                              /\ files[f].id \in Inode
    BY <1>0, FileFacts
<1>4. atPath /\ files # <<>> /\ oldest \in 1..newest /\ Low \in Nat
    BY <1>0, <1>1, LowFacts DEF DiskOK
<1>5. files \in Seq(File)
    BY <1>0 DEF DiskOK
<1>6. newest \in 1..newest /\ files[newest] \in File /\ DOMAIN files = 1..newest
    <2>1. newest \in 1..newest
        BY <1>3, <1>4
    <2> QED BY <1>5, <2>1 DEF newest
<1>7. files' \in Seq(File) /\ newest' = newest
    <2>1. [files[newest] EXCEPT !.size = @ + 1] \in File
        BY <1>6 DEF File
    <2>2. files' = [files EXCEPT ![newest] = [files[newest] EXCEPT !.size = @ + 1]]
        BY <1>1
    <2>3. DOMAIN files' = 1..newest /\ \A f \in 1..newest : files'[f] \in File
        BY <1>5, <1>6, <2>1, <2>2 DEF newest
    <2>4. files' = [f \in 1..newest |-> files'[f]]
        BY <1>6, <2>2
    <2>5. files' \in Seq(File)
        BY <1>3, <2>3, <2>4
    <2>6. Len(files') = newest
        BY <1>3, <2>3, <2>5
    <2> QED BY <2>5, <2>6 DEF newest
<1>8. \A f \in 1..newest : /\ files'[f].first = files[f].first /\ files'[f].id = files[f].id
                           /\ files'[f].size = IF f = newest THEN files[f].size + 1 ELSE files[f].size
    <2> SUFFICES ASSUME NEW f \in 1..newest
                 PROVE  /\ files'[f].first = files[f].first /\ files'[f].id = files[f].id
                        /\ files'[f].size = IF f = newest THEN files[f].size + 1 ELSE files[f].size
        OBVIOUS
    <2>0. files[f] \in File
        BY <1>5 DEF newest
    <2> HIDE DEF newest
    <2>1. CASE f = newest
        <3>1. files'[f] = [files[f] EXCEPT !.size = @ + 1]
            BY <1>1, <1>6, <2>1
        <3> QED BY <2>0, <2>1, <3>1 DEF File
    <2>2. CASE f # newest
        <3>1. files'[f] = files[f]
            BY <1>1, <1>6, <2>2
        <3> QED BY <2>2, <3>1
    <2> QED BY <2>1, <2>2
<1> HIDE DEF newest
<1>9. HeadRecord' = HeadRecord /\ Low' = Low /\ LastRotated' = LastRotated
    <2>1. files' # <<>>
        <3>1. files' = <<>> => Len(files') = 0
            OBVIOUS
        <3>2. Len(files') = newest /\ newest # 0
            BY <1>6, <1>7, <1>3 DEF newest
        <3> QED BY <3>1, <3>2
    <2>2. Low' = Low
        BY <1>1, <1>4, <1>8, <2>1 DEF Low
    <2>3. HeadRecord' = HeadRecord
        BY <1>1, <1>4, <1>6, <1>7, <1>8 DEF HeadRecord
    <2> QED BY <1>1, <1>7, <2>2, <2>3 DEF LastRotated
<1>10. pc = "restore" /\ todo # <<>> => Head(todo).file \in 1..newest
    <2> SUFFICES ASSUME pc = "restore", todo # <<>> PROVE Head(todo).file \in 1..newest
        OBVIOUS
    <2>1. todo \in Seq([file : Nat, off : Nat])
        BY <1>0 DEF TodoOK
    <2>2. 1 \in 1..Len(todo) /\ Head(todo) = todo[1]
        BY <2>1, HeadIs
    <2>3. todo[1].file \in oldest..newest
        BY <1>0, <2>2 DEF TodoOK
    <2> QED BY <1>3, <1>4, <2>2, <2>3
<1>11. NextBase' = NextBase /\ NextOff' = NextOff /\ NextRecord' = NextRecord
    <2>1. handle # 0 => handle \in 1..newest
        BY <1>0, <1>3 DEF HandleOK
    <2>2. NextBase' = NextBase
        BY <1>2, <1>8, <1>9, <1>10, <2>1 DEF NextBase
    <2>3. NextOff' = NextOff
        BY <1>2 DEF NextOff
    <2> QED BY <2>2, <2>3 DEF NextRecord
<1>12. DiskStep
    <2>1. ~Active /\ ~pos.saved => Resumes(archive, Low', FALSE, Low')
        BY <1>0, <1>9 DEF PosOK
    <2>2. newest <= newest' /\ oldest <= oldest' /\ Low <= Low'
        BY <1>1, <1>3, <1>4, <1>7, <1>9
    <2>3. \A f \in 1..newest :
             /\ files'[f].first = files[f].first /\ files'[f].id = files[f].id
             /\ files[f].size <= files'[f].size
        BY <1>3, <1>8
    <2>4. UNCHANGED <<archive, durable, pos, wiped, gap, dedup>>
        BY <1>2
    <2> QED BY <1>2, <1>11, <2>1, <2>2, <2>3, <2>4 DEF DiskStep
<1>13. DiskOK'
    <2>1. ASSUME NEW f \in 1..newest, NEW g \in 1..newest, f < g
          PROVE  files'[f].first + files'[f].size <= files'[g].first
        <3>1. f # newest
            BY <1>3, <2>1
        <3>2. files[f].first + files[f].size <= files[g].first
            BY <1>0, <2>1 DEF DiskOK
        <3> QED BY <1>8, <3>1, <3>2
    <2>2. ASSUME NEW f \in 1..newest - 1
          PROVE  files'[f + 1].first = files'[f].first + files'[f].size
        <3>1. f # newest /\ f \in 1..newest /\ f + 1 \in 1..newest
            BY <1>3
        <3>2. files[f + 1].first = files[f].first + files[f].size
            BY <1>0 DEF DiskOK
        <3> QED BY <1>8, <3>1, <3>2
    <2>3. ASSUME NEW f \in 1..newest, f < newest \/ ~atPath' PROVE files'[f].size > 0
        <3>1. files[f].size > 0 /\ f # newest
            BY <1>0, <1>1, <1>3, <1>4, <2>3 DEF DiskOK
        <3> QED BY <1>8, <3>1
    <2>4. \A f, g \in 1..newest : f # g => files'[f].id # files'[g].id
        BY <1>0, <1>8 DEF DiskOK
    <2>5. files' # <<>>
        <3>1. files' = <<>> => Len(files') = 0
            OBVIOUS
        <3>2. Len(files') = newest /\ newest # 0
            BY <1>6, <1>7, <1>3 DEF newest
        <3> QED BY <3>1, <3>2
    <2> QED BY <1>0, <1>1, <1>4, <1>7, <2>1, <2>2, <2>3, <2>4, <2>5 DEF DiskOK
<1>14. ControlOK'
    BY <1>0, <1>1, <1>2, <1>7 DEF ControlOK
<1>15. HandleOK'
    <2>1. handle # 0 => handle \in 1..newest
        BY <1>0, <1>3 DEF HandleOK
    <2>2. handle # 0 => offset <= files'[handle].size
        <3>1. handle # 0 => offset <= files[handle].size /\ offset \in Nat
            BY <1>0 DEF HandleOK
        <3> QED BY <1>3, <1>8, <2>1, <3>1
    <2>3. pc = "saveold" => offset = files'[handle].size
        <3>1. pc = "saveold" => handle # 0 /\ handle # newest /\ offset = files[handle].size
            BY <1>0 DEF HandleOK
        <3> QED BY <1>8, <2>1, <3>1
    <2> QED BY <1>0, <1>1, <1>2, <1>7, <2>2, <2>3 DEF HandleOK
<1>16. TodoOK'
    <2>1. startOff > 0 => startOff <= files'[newest].size
        <3>1. startOff \in Nat /\ (startOff > 0 => startOff <= files[newest].size)
            BY <1>0 DEF TodoOK
        <3> QED BY <1>3, <1>6, <1>8, <3>1
    <2>2. ASSUME NEW i \in 1..Len(todo) PROVE todo[i].off <= files'[todo[i].file].size
        <3>1. todo[i].file \in oldest..newest /\ todo[i].off <= files[todo[i].file].size
            BY <1>0 DEF TodoOK
        <3>2. todo[i].file \in 1..newest
            BY <1>3, <1>4, <3>1
        <3>3. todo \in Seq([file : Nat, off : Nat])
            BY <1>0 DEF TodoOK
        <3>4. todo[i] \in [file : Nat, off : Nat]
            BY <3>3, ElementIs
        <3>5. todo[i].off \in Nat
            BY <3>4
        <3> QED BY <1>3, <1>8, <3>1, <3>2, <3>5
    <2> QED BY <1>0, <1>1, <1>2, <1>7, <1>9, <2>1, <2>2 DEF TodoOK
<1> QED BY <1>12, <1>13, <1>14, <1>15, <1>16, DiskStepKeeps DEF IndInv

LEMMA NewInodeIs ==
    ASSUME Faults = {}, NEW i \in NewInodes
    PROVE  i \in Inode /\ \A f \in 1..newest : files[f].id # i
<1>1. /\ ~(Inode \subseteq Used(1..newest))
      /\ i = CHOOSE j \in Inode : j \notin Used(1..newest)
    BY DEF NewInodes
<1>2. \E j \in Inode : j \notin Used(1..newest)
    BY <1>1
<1>3. i \in Inode /\ i \notin Used(1..newest)
    BY <1>1, <1>2
<1> QED BY <1>3 DEF Used

LEMMA CreatesOK == IndInv /\ Faults = {} /\ ScheddCreates => IndInv'
<1> SUFFICES ASSUME IndInv, Faults = {}, ScheddCreates PROVE IndInv'
    OBVIOUS
<1>0. DiskOK /\ ControlOK /\ PosOK /\ HandleOK /\ TodoOK
    BY DEF IndInv
<1>1. /\ ~atPath /\ atPath' = TRUE /\ oldest' = oldest /\ torn' = torn /\ ScheddOnly
    BY DEF ScheddCreates
<1>i. PICK i \in NewInodes : files' = Append(files, [id |-> i, first |-> Written + 1, size |-> 0])
    BY DEF ScheddCreates
<1>2. /\ UNCHANGED <<archive, durable, pos, wiped, gap, dedup, pc, started, handle, offset,
                     todo, startOff, lastCount, resyncReq>>
      /\ (Active' <=> Active) /\ (Emptied' <=> Emptied) /\ (RewindDue' <=> RewindDue)
    BY <1>1, ScheddLeaves
<1>3. /\ newest \in Nat /\ oldest \in Nat
      /\ \A f \in 1..newest : /\ files[f].first \in Nat \ {0} /\ files[f].size \in Nat
                              /\ files[f].id \in Inode
    BY <1>0, FileFacts
<1>4. Written \in Nat /\ Low \in Nat /\ ~torn
    BY <1>0, <1>1, LowFacts DEF DiskOK
<1>5. i \in Inode /\ \A f \in 1..newest : files[f].id # i
    BY <1>i, NewInodeIs
<1> DEFINE new == [id |-> i, first |-> Written + 1, size |-> 0]
           k == newest + 1
<1>6. files \in Seq(File) /\ new \in File
    BY <1>0, <1>4, <1>5 DEF DiskOK, File
<1>7. /\ files' \in Seq(File) /\ newest' = k /\ files'[k] = new
      /\ \A f \in 1..newest : files'[f] = files[f]
    <2>1. files' = Append(files, new)
        BY <1>i
    <2> HIDE DEF new
    <2>2. files' \in Seq(File) /\ Len(files') = Len(files) + 1
        BY <1>6, <2>1
    <2>3. files'[Len(files) + 1] = new /\ \A f \in 1..Len(files) : files'[f] = files[f]
        BY <1>6, <2>1
    <2> QED BY <2>2, <2>3 DEF newest
<1>8. files'[k].id = i /\ files'[k].first = Written + 1 /\ files'[k].size = 0
    BY <1>7
<1>9. files' # <<>>
    <2>1. files' = <<>> => Len(files') = 0
        OBVIOUS
    <2>2. Len(files') = k /\ k # 0
        BY <1>3, <1>7 DEF newest
    <2> QED BY <2>1, <2>2
<1>e. files = <<>> <=> newest = 0
    BY <1>6 DEF newest
<1>w. newest > 0 => Written = files[newest].first + files[newest].size - 1
    BY <1>e DEF Written
<1>v. newest = 0 => Written = 0 /\ Low = 1 /\ oldest = 1
    BY <1>0, <1>e DEF Written, Low, DiskOK
<1>u. newest > 0 => oldest \in 1..newest
    BY <1>0, <1>e DEF DiskOK
<1> HIDE DEF newest, new
<1>10. HeadRecord' = HeadRecord /\ Low' = Low /\ LastRotated' = LastRotated
    <2>1. HeadRecord' = HeadRecord
        BY <1>1, <1>7, <1>8 DEF HeadRecord
    <2>2. Low' = Low
        <3>1. Low' = files'[oldest].first
            BY <1>1, <1>9 DEF Low
        <3>2. CASE newest = 0
            BY <1>8, <1>v, <3>1, <3>2
        <3>3. CASE newest > 0
            BY <1>e, <1>7, <1>u, <3>1, <3>3, <1>3 DEF Low
        <3> QED BY <1>3, <3>2, <3>3
    <2>3. LastRotated' = LastRotated
        BY <1>1, <1>3, <1>7 DEF LastRotated
    <2> QED BY <2>1, <2>2, <2>3
<1>11. pc = "restore" /\ todo # <<>> => Head(todo).file \in 1..newest
    <2> SUFFICES ASSUME pc = "restore", todo # <<>> PROVE Head(todo).file \in 1..newest
        OBVIOUS
    <2>1. todo \in Seq([file : Nat, off : Nat])
        BY <1>0 DEF TodoOK
    <2>2. 1 \in 1..Len(todo) /\ Head(todo) = todo[1]
        BY <2>1, HeadIs
    <2>3. todo[1].file \in oldest..newest
        BY <1>0, <2>2 DEF TodoOK
    <2> QED BY <1>3, <1>u, <1>v, <2>2, <2>3
<1>12. handle # 0 => handle \in 1..newest
    BY <1>0, <1>3 DEF HandleOK
<1>13. NextBase' = NextBase /\ NextOff' = NextOff /\ NextRecord' = NextRecord
    <2>2. NextBase' = NextBase
        BY <1>2, <1>7, <1>10, <1>11, <1>12 DEF NextBase
    <2>3. NextOff' = NextOff
        BY <1>2 DEF NextOff
    <2> QED BY <2>2, <2>3 DEF NextRecord
<1>14. DiskStep
    <2>1. ~Active /\ ~pos.saved => Resumes(archive, Low', FALSE, Low')
        BY <1>0, <1>10 DEF PosOK
    <2>2. newest <= newest' /\ oldest <= oldest' /\ Low <= Low'
        BY <1>1, <1>3, <1>4, <1>7, <1>10
    <2>3. \A f \in 1..newest :
             /\ files'[f].first = files[f].first /\ files'[f].id = files[f].id
             /\ files[f].size <= files'[f].size
        BY <1>3, <1>7
    <2>4. UNCHANGED <<archive, durable, pos, wiped, gap, dedup>>
        BY <1>2
    <2> QED BY <1>2, <1>13, <2>1, <2>2, <2>3, <2>4 DEF DiskStep
<1>15. DiskOK'
    <2>s. \A f \in 1..newest : files[f].size > 0
        BY <1>0, <1>1 DEF DiskOK
    <2>k. \A f \in 1..k : f \in 1..newest \/ f = k
        BY <1>3
    <2>1. ASSUME NEW f \in 1..k, NEW g \in 1..k, f < g
          PROVE  files'[f].first + files'[f].size <= files'[g].first
        <3>1. f \in 1..newest /\ newest > 0
            BY <1>3, <2>1
        <3>2. CASE g \in 1..newest
            <4>1. files[f].first + files[f].size <= files[g].first
                BY <1>0, <2>1, <3>1, <3>2 DEF DiskOK
            <4> QED BY <1>7, <3>1, <3>2, <4>1
        <3>3. CASE g = k
            <4>1. f < newest \/ f = newest
                BY <1>3, <3>1
            <4>2. newest \in 1..newest
                BY <1>3, <3>1
            <4>3. f < newest => files[f].first + files[f].size <= files[newest].first
                BY <1>0, <3>1, <4>2 DEF DiskOK
            <4>4. files'[g].first = files[newest].first + files[newest].size
                <5>1. files[newest].first \in Nat /\ files[newest].size \in Nat
                    BY <1>3, <4>2
                <5> QED BY <1>8, <1>w, <3>1, <3>3, <5>1
            <4>5. files[f].first \in Nat /\ files[f].size \in Nat /\ files'[f] = files[f]
                  /\ files[newest].first \in Nat /\ files[newest].size \in Nat
                BY <1>3, <1>7, <3>1, <4>2
            <4> QED BY <4>1, <4>3, <4>4, <4>5
        <3> QED BY <2>k, <3>2, <3>3
    <2>2. ASSUME NEW f \in 1..k - 1
          PROVE  files'[f + 1].first = files'[f].first + files'[f].size
        <3>1. f \in 1..newest /\ newest > 0 /\ newest \in 1..newest /\ (f = newest \/ f \in 1..newest - 1)
            BY <1>3
        <3>2. CASE f = newest
            <4>1. files[newest].first \in Nat /\ files[newest].size \in Nat /\ f + 1 = k
                BY <1>3, <3>1, <3>2
            <4>2. files'[k].first = files[newest].first + files[newest].size
                BY <1>8, <1>w, <3>1, <4>1
            <4>3. files'[newest] = files[newest]
                BY <1>7, <3>1
            <4> QED BY <3>2, <4>1, <4>2, <4>3
        <3>3. CASE f \in 1..newest - 1
            <4>1. files[f + 1].first = files[f].first + files[f].size
                BY <1>0, <3>3 DEF DiskOK
            <4>2. f + 1 \in 1..newest
                BY <1>3, <3>3
            <4> QED BY <1>7, <3>1, <4>1, <4>2
        <3> QED BY <3>1, <3>2, <3>3
    <2>3. ASSUME NEW f \in 1..k, f < k PROVE files'[f].size > 0
        <3>1. f \in 1..newest
            BY <1>3, <2>3
        <3> QED BY <1>7, <2>s, <3>1
    <2>4. ASSUME NEW f \in 1..k, NEW g \in 1..k, f # g PROVE files'[f].id # files'[g].id
        BY <1>0, <1>5, <1>7, <1>8, <2>k, <2>4 DEF DiskOK
    <2>5. oldest \in 1..k
        BY <1>3, <1>u, <1>v
    <2>6. torn' \in BOOLEAN /\ atPath' \in BOOLEAN /\ atPath'
        BY <1>0, <1>1 DEF DiskOK
    <2>7. files' \in Seq(File) /\ newest' = k
        BY <1>7
    <2> HIDE DEF k
    <2> QED BY <1>1, <1>9, <2>1, <2>2, <2>3, <2>4, <2>5, <2>6, <2>7 DEF DiskOK
<1>16. ControlOK'
    BY <1>0, <1>1, <1>2 DEF ControlOK
<1>17. HandleOK'
    <2>1. handle # 0 => handle = newest /\ handle = k - 1 /\ files'[handle] = files[handle]
        BY <1>0, <1>1, <1>3, <1>7, <1>12 DEF HandleOK
    <2>2. pc # "saveold"
        BY <1>0, <1>1 DEF HandleOK
    <2>3. handle \in 0..k
        BY <1>0, <1>3 DEF HandleOK
    <2> QED BY <1>0, <1>1, <1>2, <1>7, <2>1, <2>2, <2>3 DEF HandleOK
<1>18. TodoOK'
    <2>1. startOff = 0
        BY <1>0, <1>1 DEF TodoOK
    <2>2. ASSUME NEW j \in 1..Len(todo)
          PROVE  todo[j].file \in oldest..k /\ todo[j].off <= files'[todo[j].file].size
        <3>1. todo[j].file \in oldest..newest /\ todo[j].off <= files[todo[j].file].size
            BY <1>0 DEF TodoOK
        <3>2. todo[j].file \in 1..newest /\ todo[j].file \in oldest..k
            BY <1>3, <1>u, <1>v, <3>1
        <3> QED BY <1>7, <3>1, <3>2
    <2> QED BY <1>0, <1>1, <1>2, <1>7, <1>10, <2>1, <2>2 DEF TodoOK
<1> QED BY <1>14, <1>15, <1>16, <1>17, <1>18, DiskStepKeeps DEF IndInv

-----------------------------------------------------------------------------
(***************************************************************************)
(* The theorems.                                                           *)
(***************************************************************************)
LEMMA StepOK == IndInv /\ Faults = {} /\ Refused = {} /\ MaxKept > 0 /\ [Next]_vars => IndInv'
<1> SUFFICES ASSUME IndInv, Faults = {}, Refused = {}, MaxKept > 0, [Next]_vars PROVE IndInv'
    OBVIOUS
<1>1. CASE Schedd
    BY <1>1, BeginsRecordOK, EndsRecordOK, CreatesOK, RotatesOK DEF Schedd
<1>2. CASE Start
    BY <1>2, StartOK
<1>3. CASE Restore
    BY <1>3, RestoreFoundOK, RestoreGapOK, RestoreArchiveOK, RestoreFirstOK, RestoreDrainOK,
       RestoreOpenOK DEF Restore
<1>4. CASE Poll
    BY <1>4, PollTailsOK, PollResyncsOK, PollEmptiedOK, PollStatOK, PollSaveOldOK, PollOpenOK,
       PollDrainOK, PollSaveOK DEF Poll
<1>5. CASE Environment
    BY <1>5, CrashOK, LosePositionOK, ResyncOK, TruncateOK, WipeOK DEF Environment
<1>6. CASE UNCHANGED vars
    <2>1. UNCHANGED <<files, oldest, atPath, torn, archive, durable, pos, pc, started, handle,
                      offset, dedup, todo, startOff, lastCount, resyncReq, gap, wiped>>
        BY <1>6 DEF vars
    <2>2. /\ Active' = Active /\ NextRecord' = NextRecord /\ NextOff' = NextOff /\ Emptied' = Emptied
          /\ RewindDue' = RewindDue /\ LastRotated' = LastRotated /\ newest' = newest
        BY <2>1 DEF Active, NextRecord, NextBase, NextOff, Emptied, RewindDue, LastRotated, newest,
                    HeadRecord, Written
    <2>3. SamePlace
        BY <2>1, <2>2 DEF SamePlace, disk
    <2>4. ControlOK'
        BY <2>1, <2>2 DEF ControlOK, IndInv
    <2>5. HandleOK'
        BY <2>1, <2>2 DEF HandleOK, IndInv
    <2>6. TodoOK'
        BY <2>1, <2>2 DEF TodoOK, IndInv
    <2> QED BY <2>3, <2>4, <2>5, <2>6, SamePlaceKeeps DEF IndInv
<1> QED BY <1>1, <1>2, <1>3, <1>4, <1>5, <1>6 DEF Next

LEMMA Inductive ==
    ASSUME Faults = {}, Refused = {}, MaxKept > 0
    PROVE  Spec => []IndInv
<1>1. Init => IndInv
    BY InitOK
<1>2. IndInv /\ [Next]_vars => IndInv'
    BY StepOK
<1> QED BY <1>1, <1>2, PTL DEF Spec

LEMMA InvNoDuplicate == IndInv => NoDuplicate
<1> SUFFICES ASSUME IndInv, NEW i \in 1..Len(archive) - 1 PROVE archive[i] < archive[i + 1]
    BY DEF NoDuplicate
<1>1. Len(archive) \in Nat /\ Increasing(archive)
    BY ArchiveFacts
<1>2. i \in 1..Len(archive) /\ i + 1 \in 1..Len(archive) /\ i < i + 1
    BY <1>1
<1> QED BY <1>1, <1>2 DEF Increasing

LEMMA InvNoHole == IndInv => NoHole
<1> SUFFICES ASSUME IndInv, ~gap, NEW i \in 1..Len(archive) - 1,
                    NEW x \in archive[i] + 1 .. archive[i + 1] - 1
             PROVE  FALSE
    BY DEF NoHole
<1>1. archive \in Seq(Nat) /\ Len(archive) \in Nat /\ Increasing(archive) /\ Dense(archive, gap, Low)
    BY ArchiveFacts DEF InOrder
<1>2. i \in 1..Len(archive) /\ i + 1 \in 1..Len(archive) /\ archive # <<>>
    BY <1>1
<1>3. /\ archive[1] \in Nat /\ archive[Len(archive)] \in Nat
      /\ archive[i] \in Nat /\ archive[i + 1] \in Nat
      /\ archive[1] <= archive[i] /\ archive[i + 1] <= archive[Len(archive)]
    BY <1>1, <1>2, Ends
<1>4. x \in archive[1]..archive[Len(archive)] /\ archive[i] < x /\ x < archive[i + 1]
    BY <1>3
<1>5. PICK j \in 1..Len(archive) : archive[j] = x
    BY <1>1, <1>2, <1>4 DEF Dense, Members
<1>6. \A k, m \in 1..Len(archive) : k < m => archive[k] < archive[m]
    BY <1>1 DEF Increasing
<1>7. ~(j < i) /\ j # i
    <2>1. j < i => archive[j] < archive[i]
        BY <1>2, <1>6
    <2> QED BY <1>3, <1>4, <1>5, <2>1
<1>8. ~(i + 1 < j) /\ j # i + 1
    <2>1. i + 1 < j => archive[i + 1] < archive[j]
        BY <1>2, <1>6
    <2> QED BY <1>3, <1>4, <1>5, <2>1
<1> QED BY <1>1, <1>7, <1>8

LEMMA InvPositionCovered == IndInv => PositionCovered
<1> SUFFICES ASSUME IndInv, pos.saved, pos.off > 0, ~wiped, NEW f \in OnDisk, files[f].id = pos.id
             PROVE  /\ pos.off <= files[f].size
                    /\ Record(f, pos.off) \in {archive[i] : i \in 1..durable} \cup Refused
    BY DEF PositionCovered
<1>1. newest \in Nat /\ oldest \in Nat /\ oldest >= 1
    BY FileFacts DEF IndInv, DiskOK
<1>2. f \in 1..newest
    BY <1>1 DEF OnDisk
<1>3. PosAt(f)
    BY <1>2 DEF IndInv, PosOK
<1>4. pos.off <= files[f].size /\ \E i \in 1..durable : archive[i] = PositionRecord(f) - 1
    BY <1>3 DEF PosAt
<1>5. files[f].first \in Nat /\ pos.off \in Nat
    BY <1>2, FileFacts DEF IndInv, PosOK, Position
<1>6. PositionRecord(f) - 1 = files[f].first + pos.off - 1
    BY <1>5 DEF PositionRecord
<1> QED BY <1>4, <1>6 DEF Record

\* No record is archived twice or out of order (appendRecord's dedup,
\* fileFullyArchived, drainChain), through any number of rotations, crashes,
\* failed flushes, resyncs, truncations and lost positions.
THEOREM NothingArchivedTwice ==
    ASSUME Faults = {}, Refused = {}, MaxKept > 0
    PROVE  Spec => []NoDuplicate
BY Inductive, InvNoDuplicate, PTL

\* Between two archived records none is missing unless restore() has reported a
\* retention gap (drainChain, openCurrent, the drain of a rotated file).
THEOREM NothingMissing ==
    ASSUME Faults = {}, Refused = {}, MaxKept > 0
    PROVE  Spec => []NoHole
BY Inductive, InvNoHole, PTL

\* The saved position is never ahead of what is on disk: the record just before
\* it is durable (flushArchive before checkpoint's Save).
THEOREM PositionNeverAhead ==
    ASSUME Faults = {}, Refused = {}, MaxKept > 0
    PROVE  Spec => []PositionCovered
BY Inductive, InvPositionCovered, PTL

-----------------------------------------------------------------------------
(***************************************************************************)
(* History importer.  A cursor stands for the records that later scans pass*)
(* over.  While a schedd is scanned, newest first, the cursor the scan is  *)
(* going to store already passes over records that are still to do; what   *)
(* holds is that each of them is in the table or to do (Reached).  A first *)
(* scan has no cursor and stops at the first record the table has: what    *)
(* makes that right is that, of a schedd without a stored cursor, the table*)
(* has everything older than anything it has (NoHoleBelow), or the rest is *)
(* to do.                                                                  *)
(***************************************************************************)
LEMMA LeastNat ==
    ASSUME NEW S \in SUBSET Nat, S # {}
    PROVE  \E x \in S : \A y \in S : x <= y
<1>1. IsWellFoundedOn(OpToRel(<, Nat), Nat)
    BY NatLessThanWellFounded
<1>2. PICK x \in S : \A y \in S : ~(<<y, x>> \in OpToRel(<, Nat))
    BY <1>1, WFMin
<1>3. ASSUME NEW y \in S, y < x PROVE FALSE
    <2>1. <<y, x>> \in Nat \X Nat /\ <<y, x>>[1] < <<y, x>>[2]
        BY <1>3
    <2>2. <<y, x>> \in OpToRel(<, Nat)
        BY <2>1 DEF OpToRel
    <2> QED BY <1>2, <2>2
<1> QED BY <1>3

ImportRecord == [id : Nat \ {0}, date : Nat \ {0}, kind : RecordKinds]
ImportCursor == [at : Nat, keys : SUBSET Nat]
ImportScan == [todo : Seq(ImportRecord), dedup : BOOLEAN, at : Nat, keys : SUBSET Nat, saw : BOOLEAN]
ImportCounts == [1..MaxHistory -> Int]

ImportTypeOK ==
    /\ isource \in ImportSources
    /\ ihist \in [Schedds -> Seq(ImportRecord)]
    /\ iloop \in [pc : {"wait", "next", "scan", "set", "down"}, queue : Seq(Schedds), scan : ImportScan]
    /\ icursor \in [Schedds -> ImportCursor] /\ ifile \in [Schedds -> ImportCursor]
    /\ iarch \in [Schedds -> ImportCounts]
    /\ ipending \in Seq(Schedds \X (1..MaxHistory))
    /\ ileft \in [cycle : Int, fault : Int, written : [Schedds -> 0..MaxHistory]]
    /\ ileft.fault <= MaxImportFault
    /\ iloop.pc \in {"scan", "set"} => iloop.queue # <<>>

PassedBy(kind, c, r) == IF kind = "history" THEN r.id <= c.at ELSE r.date < c.at \/ r.id \in c.keys
NewTo(kind, c, r) == IF kind = "history" THEN r.id > c.at ELSE r.date >= c.at

Held(q) == {q[i] : i \in 1..Len(q)}

\* A record the table must come to have, where no first scan is cut short.
MustKeep(r) == r.kind = "ok" /\ "bootstrap_cut" \notin ImportFaults

\* The history h of a schedd that has written w records.
HistOK(h, w) ==
    /\ Len(h) <= w /\ (h = <<>> => w = 0)
    /\ \A i \in 1..Len(h) : h[i].id = w - Len(h) + i
    /\ \A i, j \in 1..Len(h) : i <= j => h[i].date <= h[j].date
LastDate(h) == IF h = <<>> THEN 0 ELSE h[Len(h)].date

\* A cursor is not ahead of the history, and its keys are at its second.
KeyFor(c, r) == r.id \in c.keys => r.date = c.at /\ r.kind # "other"
CursorOK(kind, c, h, w) ==
    /\ kind = "history" => c.at <= w /\ c.keys = {}
    /\ kind # "history" => c.at <= LastDate(h)
    /\ c.keys \subseteq 1..w
    /\ \A r \in Held(h) : KeyFor(c, r)

\* What is to do is every record, from the next one down to the cursor c.
TodoRecord(kind, c, t, h, w) ==
    /\ t.id <= w /\ NewTo(kind, c, t) /\ KeyFor(c, t)
    /\ \A r \in Held(h) : (r.id = t.id => r = t) /\ (r.id >= t.id => r.date >= t.date)
ScanTodoOK(kind, c, undone, h, w) ==
    /\ \A j \in 1..Len(undone) : undone[j].id = undone[1].id + 1 - j
    /\ \A t \in Held(undone) : TodoRecord(kind, c, t, h, w)
    /\ undone # <<>> =>
         \A r \in Held(h) : NewTo(kind, c, r) /\ r.id <= undone[1].id => r \in Held(undone)

\* The cursor sc that a scan from c has come to.
ScanCursor(scan) == [at |-> scan.at, keys |-> scan.keys]
ScanOK(kind, c, scan, h, w) ==
    /\ CursorOK(kind, ScanCursor(scan), h, w)
    /\ scan.dedup <=> (kind = "history" /\ c.at = 0)
    /\ kind = "history" => (scan.saw <=> scan.at # 0) /\ (scan.saw => scan.at > c.at)
    /\ kind # "history" => scan.at >= c.at
Reached(kind, c, sc, undone, h, arch) ==
    \A r \in Held(h) :
        /\ MustKeep(r) /\ NewTo(kind, c, r) /\ PassedBy(kind, sc, r) => r \in Held(undone) \/ arch[r.id] > 0
        /\ r.id \in c.keys => r \in Held(undone) \/ PassedBy(kind, sc, r)
ScanDown(kind, scan) == kind = "history" /\ scan.saw => \A t \in Held(scan.todo) : t.id < scan.at
\* No more than n times in the table, unless this scan has it behind it.
ScanCount(kind, c, sc, saw, undone, h, arch, n) ==
    /\ \A r \in Held(h) : arch[r.id] > n => PassedBy(kind, c, r) \/ (saw /\ PassedBy(kind, sc, r))
    /\ \A t \in Held(undone) : arch[t.id] > n => PassedBy(kind, c, t)

HoleBelow(r, arch, n) == MustKeep(r) /\ r.id <= n /\ arch[n] > 0 /\ ~(arch[r.id] > 0)
NoHoleBelow(h, arch) == \A r \in Held(h), n \in 1..MaxHistory : ~HoleBelow(r, arch, n)
ScanHoles(undone, h, arch) ==
    \A r \in Held(h), n \in 1..MaxHistory : HoleBelow(r, arch, n) =>
        r \in Held(undone) /\ undone # <<>> /\ n > undone[1].id

InTable(kind, c, h, arch) ==
    \A r \in Held(h) : MustKeep(r) /\ PassedBy(kind, c, r) => arch[r.id] > 0
CursorsInOrder(kind, f, c, h) ==
    /\ kind = "history" => f.at <= c.at
    /\ \A r \in Held(h) : PassedBy(kind, f, r) => PassedBy(kind, c, r)
Unflushed(kind, c, h, w, pending, s) ==
    \A p \in 1..Len(pending) : pending[p][1] = s =>
        /\ pending[p][2] <= w
        /\ \A r \in Held(h) : r.id = pending[p][2] => ~PassedBy(kind, c, r)
\* What a crash would lose of record i.
Losable(pending, s, i) == {p \in 1..Len(pending) : pending[p] = <<s, i>>}
NoneNegative(arch) == \A i \in 1..MaxHistory : arch[i] >= 0
CountsOK(arch, w, n) == \A i \in 1..MaxHistory : (arch[i] > 0 => i <= w) /\ arch[i] <= n + 1

\* A schedd with history h, w records written, cursors c in memory and f on file,
\* after n failures; between its scans; and while it is scanned.
ScheddOK(kind, h, w, c, f, arch, pending, s, n) ==
    /\ HistOK(h, w) /\ CursorOK(kind, c, h, w) /\ CursorOK(kind, f, h, w)
    /\ CursorsInOrder(kind, f, c, h) /\ InTable(kind, c, h, arch)
    /\ Unflushed(kind, c, h, w, pending, s) /\ CountsOK(arch, w, n)
ScheddRests(kind, h, c, f, arch, n) ==
    /\ \A r \in Held(h) : arch[r.id] > n => PassedBy(kind, c, r)
    /\ kind = "history" /\ f.at = 0 => NoHoleBelow(h, arch)
ScheddScans(kind, h, w, c, f, arch, scan, n) ==
    /\ ScanOK(kind, c, scan, h, w) /\ ScanTodoOK(kind, c, scan.todo, h, w)
    /\ Reached(kind, c, ScanCursor(scan), scan.todo, h, arch)
    /\ ScanCount(kind, c, ScanCursor(scan), scan.saw, scan.todo, h, arch, n)
    /\ kind = "history" /\ f.at = 0 => ScanHoles(scan.todo, h, arch)
    /\ ScanDown(kind, scan)

Spent == MaxImportFault - ileft.fault
ScansNow(s) == iloop.pc \in {"scan", "set"} /\ Current = s
ImportInv ==
    /\ ImportTypeOK
    /\ \A s \in Schedds : ScheddOK(isource.kind, ihist[s], ileft.written[s], icursor[s], ifile[s],
                                   iarch[s], ipending, s, Spent)
    /\ \A s \in Schedds : ~ScansNow(s) =>
         ScheddRests(isource.kind, ihist[s], icursor[s], ifile[s], iarch[s], Spent)
    /\ \A s \in Schedds : ScansNow(s) =>
         ScheddScans(isource.kind, ihist[s], ileft.written[s], icursor[s], ifile[s], iarch[s],
                     iloop.scan, Spent)
    /\ \A s \in Schedds, i \in 1..MaxHistory : iarch[s][i] >= Cardinality(Losable(ipending, s, i))
    /\ iloop.pc = "set" => iloop.scan.todo = <<>> /\ iloop.scan.saw /\ ipending = <<>>
    /\ iloop.pc = "down" => \A s \in Schedds, i \in 1..MaxHistory : iarch[s][i] <= Spent

-----------------------------------------------------------------------------
\* What a history and a cursor are.
ImportKinds == {"history", "epoch"}

LEMMA HeldAppend ==
    ASSUME NEW S, NEW q \in Seq(S), NEW e \in S
    PROVE  Held(Append(q, e)) = Held(q) \cup {e}
<1>1. Len(Append(q, e)) = Len(q) + 1 /\ Append(q, e)[Len(q) + 1] = e /\ Len(q) \in Nat
      /\ \A i \in 1..Len(q) : Append(q, e)[i] = q[i]
    OBVIOUS
<1>2. ASSUME NEW x \in Held(Append(q, e)) PROVE x \in Held(q) \cup {e}
    <2>1. PICK i \in 1..Len(q) + 1 : x = Append(q, e)[i]
        BY <1>1, <1>2 DEF Held
    <2>2. CASE i = Len(q) + 1
        BY <1>1, <2>1, <2>2
    <2>3. CASE i \in 1..Len(q)
        BY <1>1, <2>1, <2>3 DEF Held
    <2> QED BY <1>1, <2>2, <2>3
<1>3. ASSUME NEW x \in Held(q) PROVE x \in Held(Append(q, e))
    <2>1. PICK i \in 1..Len(q) : x = q[i]
        BY <1>3 DEF Held
    <2>2. i \in 1..Len(q) + 1 /\ x = Append(q, e)[i]
        BY <1>1, <2>1
    <2> QED BY <1>1, <2>2 DEF Held
<1>4. e \in Held(Append(q, e))
    BY <1>1 DEF Held
<1> QED BY <1>2, <1>3, <1>4

LEMMA HeldTail ==
    ASSUME NEW S, NEW q \in Seq(S), q # <<>>
    PROVE  /\ Held(Tail(q)) \subseteq Held(q) /\ Head(q) \in Held(q)
           /\ Held(q) = Held(Tail(q)) \cup {Head(q)}
<1>1. Len(q) \in Nat /\ Len(q) > 0 /\ Len(Tail(q)) = Len(q) - 1 /\ Head(q) = q[1]
      /\ \A i \in 1..Len(q) - 1 : Tail(q)[i] = q[i + 1]
    OBVIOUS
<1>2. ASSUME NEW x \in Held(Tail(q)) PROVE x \in Held(q)
    <2>1. PICK i \in 1..Len(q) - 1 : x = Tail(q)[i]
        BY <1>1, <1>2 DEF Held
    <2>2. x = q[i + 1] /\ i + 1 \in 1..Len(q)
        BY <1>1, <2>1
    <2> QED BY <2>2 DEF Held
<1>3. Head(q) \in Held(q)
    BY <1>1 DEF Held
<1>4. ASSUME NEW x \in Held(q), x # Head(q) PROVE x \in Held(Tail(q))
    <2>1. PICK i \in 1..Len(q) : x = q[i]
        BY <1>4 DEF Held
    <2>2. i - 1 \in 1..Len(q) - 1 /\ (i - 1) + 1 = i
        BY <1>1, <1>4, <2>1
    <2>3. Tail(q)[i - 1] = x
        BY <1>1, <2>1, <2>2
    <2> QED BY <1>1, <2>2, <2>3 DEF Held
<1> QED BY <1>2, <1>3, <1>4

LEMMA HeldIn ==
    ASSUME NEW S, NEW q \in Seq(S) PROVE \A x \in Held(q) : x \in S
BY DEF Held

LEMMA RecordType ==
    ASSUME NEW r \in ImportRecord
    PROVE  r.id \in Nat /\ r.id > 0 /\ r.date \in Nat /\ r.date > 0
BY DEF ImportRecord

LEMMA HeldEmpty == Held(<<>>) = {}
BY DEF Held

LEMMA HistFacts ==
    ASSUME NEW h \in Seq(ImportRecord), NEW w \in Nat, HistOK(h, w)
    PROVE  /\ \A r \in Held(h) : /\ r \in ImportRecord /\ r.id \in 1..w /\ r.date <= LastDate(h)
                                 /\ r.id \in Nat /\ r.date \in Nat
           /\ \A r, q \in Held(h) : (r.id = q.id => r = q) /\ (r.id >= q.id => r.date >= q.date)
           /\ LastDate(h) \in Nat
<1>1. \A i \in 1..Len(h) : h[i] \in ImportRecord /\ h[i].date \in Nat /\ h[i].id \in Nat
    <2>1. \A i \in 1..Len(h) : h[i] \in ImportRecord
        OBVIOUS
    <2> QED BY <2>1, RecordType
<1>2. \A i \in 1..Len(h) : h[i].id = w - Len(h) + i
    BY DEF HistOK
<1>3. \A i, j \in 1..Len(h) : i <= j => h[i].date <= h[j].date
    BY DEF HistOK
<1>4. Len(h) \in Nat /\ Len(h) <= w
    BY DEF HistOK
<1>5. LastDate(h) \in Nat /\ \A i \in 1..Len(h) : h[i].date <= LastDate(h)
    <2>1. CASE h = <<>>
        BY <2>1 DEF LastDate
    <2>2. CASE h # <<>>
        <3>1. Len(h) \in 1..Len(h) /\ LastDate(h) = h[Len(h)].date
            BY <1>4, <2>2 DEF LastDate
        <3> QED BY <1>1, <1>3, <3>1
    <2> QED BY <2>1, <2>2
<1>6. ASSUME NEW r \in Held(h)
      PROVE  r \in ImportRecord /\ r.id \in 1..w /\ r.date <= LastDate(h) /\ r.id \in Nat /\ r.date \in Nat
    <2>1. PICK i \in 1..Len(h) : r = h[i]
        BY DEF Held
    <2> QED BY <1>1, <1>2, <1>4, <1>5, <2>1
<1>7. ASSUME NEW r \in Held(h), NEW q \in Held(h)
      PROVE  (r.id = q.id => r = q) /\ (r.id >= q.id => r.date >= q.date)
    <2>1. PICK i \in 1..Len(h) : r = h[i]
        BY DEF Held
    <2>2. PICK j \in 1..Len(h) : q = h[j]
        BY DEF Held
    <2>3. r.id = w - Len(h) + i /\ q.id = w - Len(h) + j
        BY <1>2, <2>1, <2>2
    <2>4. r.id = q.id => i = j
        BY <1>4, <2>3
    <2>5. r.id >= q.id => j <= i
        BY <1>4, <2>3
    <2>6. j <= i => q.date <= r.date
        BY <1>3, <2>1, <2>2
    <2> QED BY <1>6, <2>1, <2>2, <2>4, <2>5, <2>6
<1> QED BY <1>5, <1>6, <1>7

\* The next record is ahead of every cursor.
LEMMA NextRecordNew ==
    ASSUME NEW kind \in ImportKinds, NEW h \in Seq(ImportRecord), NEW w \in Nat, HistOK(h, w),
           NEW c \in ImportCursor, CursorOK(kind, c, h, w),
           NEW r \in ImportRecord, r.id = w + 1, r.date >= LastDate(h)
    PROVE  ~PassedBy(kind, c, r) /\ r.id \notin c.keys
<1>1. c.at \in Nat /\ r.date \in Nat /\ LastDate(h) \in Nat
    BY HistFacts DEF ImportCursor, ImportRecord
<1>2. r.id \notin c.keys
    BY DEF CursorOK
<1> QED BY <1>1, <1>2 DEF CursorOK, PassedBy, ImportKinds

LEMMA HistGrows ==
    ASSUME NEW h \in Seq(ImportRecord), NEW w \in Nat, HistOK(h, w),
           NEW r \in ImportRecord, r.id = w + 1, r.date >= LastDate(h)
    PROVE  /\ HistOK(Append(h, r), w + 1) /\ LastDate(Append(h, r)) = r.date
           /\ Append(h, r) \in Seq(ImportRecord)
<1>1. PICK h2 : h2 = Append(h, r)
    OBVIOUS
<1>2. h2 \in Seq(ImportRecord) /\ Len(h2) = Len(h) + 1 /\ h2[Len(h) + 1] = r /\ Len(h) \in Nat
      /\ \A i \in 1..Len(h) : h2[i] = h[i]
    BY <1>1
<1>3. h2 # <<>> /\ LastDate(h2) = r.date
    BY <1>2 DEF LastDate
<1>4. \A i \in 1..Len(h) : h[i] \in Held(h)
    BY DEF Held
<1>5. \A i \in 1..Len(h) : h[i].date <= LastDate(h) /\ h[i].date \in Nat
    BY <1>4, HistFacts
<1>6. LastDate(h) \in Nat /\ r.date \in Nat
    BY HistFacts DEF ImportRecord
<1>7. Len(h) <= w /\ \A i \in 1..Len(h) : h[i].id = w - Len(h) + i
    BY DEF HistOK
<1>8. ASSUME NEW i \in 1..Len(h2) PROVE h2[i].id = (w + 1) - Len(h2) + i
    <2>1. CASE i = Len(h) + 1
        BY <1>2, <2>1
    <2>2. CASE i \in 1..Len(h)
        BY <1>2, <1>7, <2>2
    <2> QED BY <1>2, <2>1, <2>2
<1>9. ASSUME NEW i \in 1..Len(h2), NEW j \in 1..Len(h2), i <= j PROVE h2[i].date <= h2[j].date
    <2>1. CASE j = Len(h) + 1
        <3>1. CASE i = Len(h) + 1
            BY <1>2, <1>6, <2>1, <3>1
        <3>2. CASE i \in 1..Len(h)
            BY <1>2, <1>5, <1>6, <2>1, <3>2
        <3> QED BY <1>2, <3>1, <3>2
    <2>2. CASE j \in 1..Len(h)
        <3>1. i \in 1..Len(h)
            BY <1>2, <1>9, <2>2
        <3> QED BY <1>2, <1>9, <2>2, <3>1 DEF HistOK
    <2> QED BY <1>2, <2>1, <2>2
<1>10. HistOK(h2, w + 1)
    BY <1>2, <1>3, <1>7, <1>8, <1>9 DEF HistOK
<1> QED BY <1>1, <1>2, <1>3, <1>10

LEMMA CursorGrows ==
    ASSUME NEW kind \in ImportKinds, NEW h \in Seq(ImportRecord), NEW w \in Nat, HistOK(h, w),
           NEW c \in ImportCursor, CursorOK(kind, c, h, w),
           NEW r \in ImportRecord, r.id = w + 1, r.date >= LastDate(h)
    PROVE  CursorOK(kind, c, Append(h, r), w + 1)
<1>1. LastDate(Append(h, r)) = r.date /\ r.date \in Nat /\ LastDate(h) \in Nat /\ c.at \in Nat
    BY HistGrows, HistFacts DEF ImportRecord, ImportCursor
<1>2. Held(Append(h, r)) = Held(h) \cup {r}
    BY HeldAppend
<1>3. r.id \notin c.keys
    BY NextRecordNew
<1>4. c.keys \subseteq 1..w + 1
    BY DEF CursorOK
<1>5. \A q \in Held(Append(h, r)) : KeyFor(c, q)
    BY <1>2, <1>3 DEF CursorOK, KeyFor
<1> QED BY <1>1, <1>4, <1>5 DEF CursorOK

LEMMA GrowOK ==
    ASSUME NEW kind \in ImportKinds, NEW h \in Seq(ImportRecord), NEW w \in Nat,
           NEW c \in ImportCursor, NEW f \in ImportCursor, NEW arch \in ImportCounts,
           NEW pending \in Seq(Schedds \X (1..MaxHistory)), NEW s, NEW n \in Nat,
           ScheddOK(kind, h, w, c, f, arch, pending, s, n),
           NEW r \in ImportRecord, r.id = w + 1, r.date >= LastDate(h)
    PROVE  ScheddOK(kind, Append(h, r), w + 1, c, f, arch, pending, s, n)
<1>1. PICK h2 : h2 = Append(h, r)
    OBVIOUS
<1>2. HistOK(h, w) /\ CursorOK(kind, c, h, w) /\ CursorOK(kind, f, h, w)
    BY DEF ScheddOK
<1>3. HistOK(h2, w + 1) /\ CursorOK(kind, c, h2, w + 1) /\ CursorOK(kind, f, h2, w + 1)
    BY <1>1, <1>2, HistGrows, CursorGrows
<1>4. ~PassedBy(kind, c, r) /\ ~PassedBy(kind, f, r)
    BY <1>2, NextRecordNew
<1>5. Held(h2) = Held(h) \cup {r}
    BY <1>1, HeldAppend
<1>6. CursorsInOrder(kind, f, c, h2)
    BY <1>4, <1>5 DEF ScheddOK, CursorsInOrder
<1>7. InTable(kind, c, h2, arch)
    BY <1>4, <1>5 DEF ScheddOK, InTable
<1>8. Unflushed(kind, c, h2, w + 1, pending, s)
    <2>1. ASSUME NEW p \in 1..Len(pending), pending[p][1] = s
          PROVE  pending[p][2] <= w + 1 /\ \A q \in Held(h2) : q.id = pending[p][2] => ~PassedBy(kind, c, q)
        <3>1. pending[p] \in Schedds \X (1..MaxHistory)
            OBVIOUS
        <3>2. pending[p][2] \in Int
            BY <3>1, ImportBoundAssumption
        <3>3. pending[p][2] <= w /\ \A q \in Held(h) : q.id = pending[p][2] => ~PassedBy(kind, c, q)
            BY <2>1 DEF ScheddOK, Unflushed
        <3> QED BY <1>4, <1>5, <3>2, <3>3
    <2> QED BY <2>1 DEF Unflushed
<1>9. CountsOK(arch, w + 1, n)
    BY DEF ScheddOK, CountsOK
<1> QED BY <1>1, <1>3, <1>6, <1>7, <1>8, <1>9 DEF ScheddOK

LEMMA GrowRests ==
    ASSUME NEW kind \in ImportKinds, NEW h \in Seq(ImportRecord), NEW w \in Nat, w < MaxHistory,
           NEW c \in ImportCursor, NEW f \in ImportCursor, NEW arch \in ImportCounts, NEW n \in Nat,
           CountsOK(arch, w, n), ScheddRests(kind, h, c, f, arch, n),
           NEW r \in ImportRecord, r.id = w + 1
    PROVE  ScheddRests(kind, Append(h, r), c, f, arch, n)
<1>1. Held(Append(h, r)) = Held(h) \cup {r}
    BY HeldAppend
<1>2. \A i \in 1..MaxHistory : arch[i] \in Int /\ (arch[i] > 0 => i <= w)
    BY ImportBoundAssumption DEF CountsOK, ImportCounts
<1>3. w + 1 \in 1..MaxHistory /\ ~(arch[w + 1] > 0) /\ arch[w + 1] \in Int
    BY <1>2, ImportBoundAssumption
<1>4. \A q \in Held(Append(h, r)) : arch[q.id] > n => PassedBy(kind, c, q)
    BY <1>1, <1>3 DEF ScheddRests
<1>5. ASSUME NEW i \in 1..MaxHistory PROVE ~HoleBelow(r, arch, i)
    BY <1>2, ImportBoundAssumption DEF HoleBelow
<1>6. NoHoleBelow(h, arch) => NoHoleBelow(Append(h, r), arch)
    BY <1>1, <1>5 DEF NoHoleBelow
<1> QED BY <1>4, <1>6 DEF ScheddRests

LEMMA GrowScans ==
    ASSUME NEW kind \in ImportKinds, NEW h \in Seq(ImportRecord), NEW w \in Nat, w < MaxHistory,
           NEW c \in ImportCursor, NEW f \in ImportCursor, NEW arch \in ImportCounts, NEW n \in Nat,
           NEW scan \in ImportScan, HistOK(h, w), CursorOK(kind, c, h, w), CountsOK(arch, w, n),
           ScheddScans(kind, h, w, c, f, arch, scan, n),
           NEW r \in ImportRecord, r.id = w + 1, r.date >= LastDate(h)
    PROVE  ScheddScans(kind, Append(h, r), w + 1, c, f, arch, scan, n)
<1>1. PICK h2 : h2 = Append(h, r)
    OBVIOUS
<1>2. Held(h2) = Held(h) \cup {r}
    BY <1>1, HeldAppend
<1>3. PICK sc : sc = ScanCursor(scan)
    OBVIOUS
<1>4. sc \in ImportCursor
    BY <1>3 DEF ScanCursor, ImportScan, ImportCursor
<1>5. CursorOK(kind, sc, h, w)
    BY <1>3 DEF ScheddScans, ScanOK
<1>6. ~PassedBy(kind, sc, r) /\ r.id \notin c.keys /\ CursorOK(kind, sc, h2, w + 1)
    BY <1>1, <1>4, <1>5, NextRecordNew, CursorGrows
<1>7. ScanOK(kind, c, scan, h2, w + 1)
    BY <1>3, <1>6 DEF ScheddScans, ScanOK
<1>8. PICK undone : undone = scan.todo
    OBVIOUS
<1>9. undone \in Seq(ImportRecord) /\ ScanTodoOK(kind, c, undone, h, w)
    BY <1>8 DEF ImportScan, ScheddScans
<1>10. \A t \in Held(undone) : t \in ImportRecord /\ t.id \in Nat /\ t.date \in Nat
    BY <1>9, HeldIn, RecordType
<1>11. ASSUME NEW t \in Held(undone) PROVE TodoRecord(kind, c, t, h2, w + 1)
    <2>1. TodoRecord(kind, c, t, h, w)
        BY <1>9 DEF ScanTodoOK
    <2>2. t.id <= w /\ t.id > 0
        BY <1>10, <2>1 DEF TodoRecord, ImportRecord
    <2>3. h # <<>>
        BY <1>10, <2>2 DEF HistOK
    <2>4. Len(h) \in 1..Len(h) /\ h[Len(h)].id = w /\ LastDate(h) = h[Len(h)].date
        BY <2>3 DEF HistOK, LastDate
    <2>5. h[Len(h)] \in Held(h)
        BY <2>4 DEF Held
    <2>6. LastDate(h) >= t.date
        BY <2>1, <2>2, <2>4, <2>5 DEF TodoRecord
    <2>7. r.date >= t.date
        <3>1. LastDate(h) \in Nat /\ r.date \in Nat /\ t.date \in Nat
            BY <1>10, HistFacts, RecordType
        <3> QED BY <2>6, <3>1
    <2> QED BY <1>2, <1>10, <2>1, <2>2, <2>7 DEF TodoRecord
<1>12. ScanTodoOK(kind, c, undone, h2, w + 1)
    <2>1. ASSUME undone # <<>>, NEW q \in Held(h2), NewTo(kind, c, q), q.id <= undone[1].id
          PROVE  q \in Held(undone)
        <3>1. undone[1] \in Held(undone)
            BY <1>9, <2>1 DEF Held
        <3>2. undone[1].id <= w /\ undone[1].id \in Nat
            BY <1>9, <1>10, <3>1 DEF ScanTodoOK, TodoRecord
        <3>3. q # r
            BY <2>1, <3>2
        <3> QED BY <1>2, <1>9, <2>1, <3>3 DEF ScanTodoOK
    <2> QED BY <1>9, <1>11, <2>1 DEF ScanTodoOK
<1>13. Reached(kind, c, sc, undone, h, arch) => Reached(kind, c, sc, undone, h2, arch)
    BY <1>2, <1>6 DEF Reached
<1>14. \A i \in 1..MaxHistory : arch[i] \in Int /\ (arch[i] > 0 => i <= w)
    BY ImportBoundAssumption DEF CountsOK, ImportCounts
<1>15. w + 1 \in 1..MaxHistory /\ ~(arch[w + 1] > 0) /\ arch[w + 1] \in Int
    BY <1>14, ImportBoundAssumption
<1>16. ScanCount(kind, c, sc, scan.saw, undone, h, arch, n) => ScanCount(kind, c, sc, scan.saw, undone, h2, arch, n)
    BY <1>2, <1>15 DEF ScanCount
<1>17. ASSUME NEW i \in 1..MaxHistory PROVE ~HoleBelow(r, arch, i)
    BY <1>14, ImportBoundAssumption DEF HoleBelow
<1>18. ScanHoles(undone, h, arch) => ScanHoles(undone, h2, arch)
    BY <1>2, <1>17 DEF ScanHoles
<1> QED BY <1>1, <1>3, <1>7, <1>8, <1>12, <1>13, <1>16, <1>18 DEF ScheddScans

\* A history that has lost its oldest record has fewer to speak of.
LEMMA HistForgets ==
    ASSUME NEW h \in Seq(ImportRecord), NEW w \in Nat, HistOK(h, w), Len(h) > 1
    PROVE  /\ HistOK(Tail(h), w) /\ LastDate(Tail(h)) = LastDate(h)
           /\ Tail(h) \in Seq(ImportRecord) /\ Held(Tail(h)) \subseteq Held(h)
<1>1. PICK h2 : h2 = Tail(h)
    OBVIOUS
<1>2. h2 \in Seq(ImportRecord) /\ Len(h2) = Len(h) - 1 /\ Len(h) \in Nat /\ h # <<>> /\ h2 # <<>>
      /\ \A i \in 1..Len(h) - 1 : h2[i] = h[i + 1]
    <2>1. h # <<>> /\ Len(h) \in Nat
        OBVIOUS
    <2>2. h2 \in Seq(ImportRecord) /\ Len(h2) = Len(h) - 1
          /\ \A i \in 1..Len(h) - 1 : h2[i] = h[i + 1]
        BY <1>1, <2>1
    <2>3. h2 # <<>>
        BY <2>1, <2>2
    <2> QED BY <2>1, <2>2, <2>3
<1>3. LastDate(h2) = LastDate(h)
    BY <1>2 DEF LastDate
<1>4. Held(h2) \subseteq Held(h)
    BY <1>1, <1>2, HeldTail
<1>5. \A i \in 1..Len(h) : h[i].id = w - Len(h) + i
    BY DEF HistOK
<1>6. ASSUME NEW i \in 1..Len(h2) PROVE h2[i].id = w - Len(h2) + i
    <2>1. i + 1 \in 1..Len(h) /\ h2[i] = h[i + 1]
        BY <1>2
    <2>2. h[i + 1].id = w - Len(h) + (i + 1)
        BY <1>5, <2>1
    <2> QED BY <1>2, <2>1, <2>2
<1>7. ASSUME NEW i \in 1..Len(h2), NEW j \in 1..Len(h2), i <= j PROVE h2[i].date <= h2[j].date
    <2>1. i + 1 \in 1..Len(h) /\ j + 1 \in 1..Len(h) /\ i + 1 <= j + 1
          /\ h2[i] = h[i + 1] /\ h2[j] = h[j + 1]
        BY <1>2, <1>7
    <2> QED BY <2>1 DEF HistOK
<1>8. Len(h2) <= w
    BY <1>2 DEF HistOK
<1>9. HistOK(h2, w)
    BY <1>2, <1>6, <1>7, <1>8 DEF HistOK
<1> QED BY <1>1, <1>2, <1>3, <1>4, <1>9

LEMMA ForgetOK ==
    ASSUME NEW kind, NEW h \in Seq(ImportRecord), NEW w \in Nat, NEW c, NEW f, NEW arch, NEW pending,
           NEW s, NEW n, ScheddOK(kind, h, w, c, f, arch, pending, s, n), Len(h) > 1
    PROVE  ScheddOK(kind, Tail(h), w, c, f, arch, pending, s, n)
<1>1. HistOK(h, w)
    BY DEF ScheddOK
<1>2. PICK h2 : h2 = Tail(h)
    OBVIOUS
<1>3. HistOK(h2, w) /\ LastDate(h2) = LastDate(h) /\ Held(h2) \subseteq Held(h)
    BY <1>1, <1>2, HistForgets
<1>4. CursorOK(kind, c, h2, w) /\ CursorOK(kind, f, h2, w)
    BY <1>3 DEF ScheddOK, CursorOK
<1>5. CursorsInOrder(kind, f, c, h2) /\ InTable(kind, c, h2, arch)
    BY <1>3 DEF ScheddOK, CursorsInOrder, InTable
<1>6. Unflushed(kind, c, h2, w, pending, s)
    BY <1>3 DEF ScheddOK, Unflushed
<1> QED BY <1>2, <1>3, <1>4, <1>5, <1>6 DEF ScheddOK

LEMMA ForgetRests ==
    ASSUME NEW kind, NEW h \in Seq(ImportRecord), NEW w \in Nat, HistOK(h, w), NEW c, NEW f, NEW arch, NEW n,
           ScheddRests(kind, h, c, f, arch, n), Len(h) > 1
    PROVE  ScheddRests(kind, Tail(h), c, f, arch, n)
<1>1. Held(Tail(h)) \subseteq Held(h)
    BY HistForgets
<1> QED BY <1>1 DEF ScheddRests, NoHoleBelow

LEMMA ForgetScans ==
    ASSUME NEW kind, NEW h \in Seq(ImportRecord), NEW w \in Nat, HistOK(h, w), NEW c, NEW f, NEW arch, NEW n,
           NEW scan, ScheddScans(kind, h, w, c, f, arch, scan, n), Len(h) > 1
    PROVE  ScheddScans(kind, Tail(h), w, c, f, arch, scan, n)
<1>1. PICK h2 : h2 = Tail(h)
    OBVIOUS
<1>2. LastDate(h2) = LastDate(h) /\ Held(h2) \subseteq Held(h)
    BY <1>1, HistForgets
<1>3. ScanOK(kind, c, scan, h2, w)
    BY <1>2 DEF ScheddScans, ScanOK, CursorOK
<1>4. ScanTodoOK(kind, c, scan.todo, h2, w)
    BY <1>2 DEF ScheddScans, ScanTodoOK, TodoRecord
<1>5. Reached(kind, c, ScanCursor(scan), scan.todo, h2, arch)
    BY <1>2 DEF ScheddScans, Reached
<1>6. ScanCount(kind, c, ScanCursor(scan), scan.saw, scan.todo, h2, arch, n)
    BY <1>2 DEF ScheddScans, ScanCount
<1>7. ScanHoles(scan.todo, h, arch) => ScanHoles(scan.todo, h2, arch)
    BY <1>2 DEF ScanHoles
<1> QED BY <1>1, <1>3, <1>4, <1>5, <1>6, <1>7 DEF ScheddScans

-----------------------------------------------------------------------------
\* The steps.
LEMMA ImportFacts ==
    ASSUME ImportInv
    PROVE  /\ isource.kind \in ImportKinds /\ Spent \in Nat /\ iloop.scan \in ImportScan
           /\ ipending \in Seq(Schedds \X (1..MaxHistory)) /\ iloop.queue \in Seq(Schedds)
           /\ iloop.pc \in {"scan", "set"} => Current \in Schedds
           /\ \A s \in Schedds :
                /\ ihist[s] \in Seq(ImportRecord) /\ ileft.written[s] \in Nat
                /\ ileft.written[s] <= MaxHistory
                /\ icursor[s] \in ImportCursor /\ ifile[s] \in ImportCursor /\ iarch[s] \in ImportCounts
<1>1. ImportTypeOK
    BY DEF ImportInv
<1>2. isource.kind \in ImportKinds
    BY <1>1 DEF ImportTypeOK, ImportSources, ImportKinds
<1>3. Spent \in Nat
    BY <1>1, ImportBoundAssumption DEF ImportTypeOK, Spent
<1>4. iloop.scan \in ImportScan /\ iloop.queue \in Seq(Schedds)
    BY <1>1 DEF ImportTypeOK
<1>5. iloop.pc \in {"scan", "set"} => Current \in Schedds
    <2>1. iloop.pc \in {"scan", "set"} => iloop.queue # <<>>
        BY <1>1 DEF ImportTypeOK
    <2>2. \A q \in Seq(Schedds) : q # <<>> => Head(q) \in Schedds
        OBVIOUS
    <2> QED BY <1>4, <2>1, <2>2 DEF Current
<1>6. ASSUME NEW s \in Schedds
      PROVE  /\ ihist[s] \in Seq(ImportRecord) /\ ileft.written[s] \in Nat /\ ileft.written[s] <= MaxHistory
             /\ icursor[s] \in ImportCursor /\ ifile[s] \in ImportCursor /\ iarch[s] \in ImportCounts
    BY <1>1, ImportBoundAssumption DEF ImportTypeOK
<1>7. ipending \in Seq(Schedds \X (1..MaxHistory))
    BY <1>1 DEF ImportTypeOK
<1> QED BY <1>2, <1>3, <1>4, <1>5, <1>6, <1>7

LEMMA ScheddRecordsKeeps ==
    ASSUME ImportInv, NEW s \in Schedds, ScheddRecords(s) PROVE ImportInv'
<1>1. PICK h, w, kind : h = ihist[s] /\ w = ileft.written[s] /\ kind = isource.kind
    OBVIOUS
<1>2. h \in Seq(ImportRecord) /\ w \in Nat /\ w < MaxHistory /\ kind \in ImportKinds /\ Spent \in Nat
      /\ icursor[s] \in ImportCursor /\ ifile[s] \in ImportCursor /\ iarch[s] \in ImportCounts
      /\ ipending \in Seq(Schedds \X (1..MaxHistory)) /\ iloop.scan \in ImportScan
    BY <1>1, ImportFacts DEF ScheddRecords
<1>3. ScheddOK(kind, h, w, icursor[s], ifile[s], iarch[s], ipending, s, Spent)
    BY <1>1 DEF ImportInv
<1>4. HistOK(h, w) /\ CursorOK(kind, icursor[s], h, w) /\ CountsOK(iarch[s], w, Spent)
    BY <1>3 DEF ScheddOK
<1>5. ImportTypeOK
    BY DEF ImportInv
<1>6. ileft' = [ileft EXCEPT !.written[s] = @ + 1]
      /\ UNCHANGED <<isource, iloop, icursor, ifile, iarch, ipending>>
    BY DEF ScheddRecords
<1>7. ileft'.written[s] = w + 1 /\ ileft'.fault = ileft.fault
      /\ \A q \in Schedds : q # s => ileft'.written[q] = ileft.written[q]
    BY <1>1, <1>5, <1>6 DEF ImportTypeOK
<1>8. PICK r \in ImportRecord : /\ r.id = w + 1 /\ r.date >= LastDate(h)
                                /\ ihist' = [ihist EXCEPT ![s] = Append(h, r)]
    <2>1. PICK k \in RecordKinds, later \in {0, 1} :
            LET last == IF h = <<>> THEN 1 ELSE h[Len(h)].date
            IN  ihist' = [ihist EXCEPT ![s] = Append(h, [id |-> w + 1, date |-> last + later, kind |-> k])]
        BY <1>1, <1>7 DEF ScheddRecords
    <2>2. PICK last : last = IF h = <<>> THEN 1 ELSE h[Len(h)].date
        OBVIOUS
    <2>3. last \in Nat /\ last > 0 /\ last >= LastDate(h)
        <3>1. CASE h = <<>>
            BY <2>2, <3>1 DEF LastDate
        <3>2. CASE h # <<>>
            <4>1. h[Len(h)] \in ImportRecord
                BY <1>2, <3>2
            <4> QED BY <2>2, <3>2, <4>1, RecordType DEF LastDate
        <3> QED BY <3>1, <3>2
    <2>4. PICK r : r = [id |-> w + 1, date |-> last + later, kind |-> k]
        OBVIOUS
    <2>5. r \in ImportRecord /\ r.id = w + 1 /\ r.date = last + later
        BY <1>2, <2>3, <2>4 DEF ImportRecord
    <2>6. LastDate(h) \in Nat
        BY <1>2, <1>4, HistFacts
    <2>7. r.date >= LastDate(h)
        BY <2>3, <2>5, <2>6
    <2> QED BY <2>1, <2>2, <2>4, <2>5, <2>7
<1>9. ihist'[s] = Append(h, r) /\ \A q \in Schedds : q # s => ihist'[q] = ihist[q]
    BY <1>5, <1>8 DEF ImportTypeOK
<1>10. ImportTypeOK'
    <2>1. Append(h, r) \in Seq(ImportRecord)
        BY <1>2
    <2>2. ihist' \in [Schedds -> Seq(ImportRecord)]
        BY <1>5, <1>8, <2>1 DEF ImportTypeOK
    <2>3. w + 1 \in 0..MaxHistory
        BY <1>2, ImportBoundAssumption
    <2>4. ileft' \in [cycle : Int, fault : Int, written : [Schedds -> 0..MaxHistory]]
        BY <1>1, <1>5, <1>6, <2>3 DEF ImportTypeOK
    <2> QED BY <1>5, <1>6, <1>7, <2>2, <2>4 DEF ImportTypeOK
<1>11. Spent' = Spent /\ isource'.kind = isource.kind
    BY <1>6, <1>7 DEF Spent
<1>12. \A q \in Schedds : ScansNow(q)' = ScansNow(q)
    BY <1>6 DEF ScansNow, Current
<1>13. ASSUME NEW q \in Schedds
       PROVE  ScheddOK(isource.kind, ihist'[q], ileft'.written[q], icursor[q], ifile[q], iarch[q],
                       ipending, q, Spent)
    <2>1. CASE q = s
        <3>1. ScheddOK(kind, Append(h, r), w + 1, icursor[s], ifile[s], iarch[s], ipending, s, Spent)
            BY <1>2, <1>3, <1>8, GrowOK
        <3> QED BY <1>1, <1>7, <1>9, <2>1, <3>1
    <2>2. CASE q # s
        BY <1>7, <1>9, <2>2 DEF ImportInv
    <2> QED BY <2>1, <2>2
<1>14. ASSUME NEW q \in Schedds, ~ScansNow(q)
       PROVE  ScheddRests(isource.kind, ihist'[q], icursor[q], ifile[q], iarch[q], Spent)
    <2>1. ScheddRests(isource.kind, ihist[q], icursor[q], ifile[q], iarch[q], Spent)
        BY <1>14 DEF ImportInv
    <2>2. CASE q = s
        BY <1>1, <1>2, <1>4, <1>8, <1>9, <2>1, <2>2, GrowRests
    <2>3. CASE q # s
        BY <1>9, <2>1, <2>3
    <2> QED BY <2>2, <2>3
<1>15. ASSUME NEW q \in Schedds, ScansNow(q)
       PROVE  ScheddScans(isource.kind, ihist'[q], ileft'.written[q], icursor[q], ifile[q], iarch[q],
                          iloop.scan, Spent)
    <2>1. ScheddScans(isource.kind, ihist[q], ileft.written[q], icursor[q], ifile[q], iarch[q],
                      iloop.scan, Spent)
        BY <1>15 DEF ImportInv
    <2>2. CASE q = s
        BY <1>1, <1>2, <1>4, <1>7, <1>8, <1>9, <2>1, <2>2, GrowScans
    <2>3. CASE q # s
        BY <1>7, <1>9, <2>1, <2>3
    <2> QED BY <2>2, <2>3
<1>16. iloop.pc = "set" => iloop.scan.todo = <<>> /\ iloop.scan.saw /\ ipending = <<>>
    BY DEF ImportInv
<1>17. iloop.pc = "down" => \A q \in Schedds, i \in 1..MaxHistory : iarch[q][i] <= Spent
    BY DEF ImportInv
<1>18. \A q \in Schedds, i \in 1..MaxHistory : iarch[q][i] >= Cardinality(Losable(ipending, q, i))
    BY DEF ImportInv
<1> QED BY <1>6, <1>10, <1>11, <1>12, <1>13, <1>14, <1>15, <1>16, <1>17, <1>18 DEF ImportInv

LEMMA ScheddForgetsKeeps ==
    ASSUME ImportInv, NEW s \in Schedds, ScheddForgets(s) PROVE ImportInv'
<1>1. PICK h, w, kind : h = ihist[s] /\ w = ileft.written[s] /\ kind = isource.kind
    OBVIOUS
<1>2. h \in Seq(ImportRecord) /\ w \in Nat /\ Len(h) > 1
    BY <1>1, ImportFacts DEF ScheddForgets
<1>3. ScheddOK(kind, h, w, icursor[s], ifile[s], iarch[s], ipending, s, Spent)
    BY <1>1 DEF ImportInv
<1>4. HistOK(h, w)
    BY <1>3 DEF ScheddOK
<1>5. ImportTypeOK
    BY DEF ImportInv
<1>6. ihist' = [ihist EXCEPT ![s] = Tail(h)]
      /\ UNCHANGED <<isource, iloop, icursor, ifile, iarch, ipending, ileft>>
    BY <1>1 DEF ScheddForgets
<1>7. ihist'[s] = Tail(h) /\ \A q \in Schedds : q # s => ihist'[q] = ihist[q]
    BY <1>5, <1>6 DEF ImportTypeOK
<1>8. ImportTypeOK'
    <2>1. Tail(h) \in Seq(ImportRecord)
        BY <1>2, <1>4, HistForgets
    <2>2. ihist' \in [Schedds -> Seq(ImportRecord)]
        BY <1>5, <1>6, <2>1 DEF ImportTypeOK
    <2> QED BY <1>5, <1>6, <2>2 DEF ImportTypeOK
<1>9. Spent' = Spent
    BY <1>6 DEF Spent
<1>10. \A q \in Schedds : ScansNow(q)' = ScansNow(q)
    BY <1>6 DEF ScansNow, Current
<1>11. ASSUME NEW q \in Schedds
       PROVE  ScheddOK(isource.kind, ihist'[q], ileft.written[q], icursor[q], ifile[q], iarch[q],
                       ipending, q, Spent)
    <2>1. CASE q = s
        BY <1>1, <1>2, <1>3, <1>7, <2>1, ForgetOK
    <2>2. CASE q # s
        BY <1>7, <2>2 DEF ImportInv
    <2> QED BY <2>1, <2>2
<1>12. ASSUME NEW q \in Schedds, ~ScansNow(q)
       PROVE  ScheddRests(isource.kind, ihist'[q], icursor[q], ifile[q], iarch[q], Spent)
    <2>1. ScheddRests(isource.kind, ihist[q], icursor[q], ifile[q], iarch[q], Spent)
        BY <1>12 DEF ImportInv
    <2>2. CASE q = s
        BY <1>1, <1>2, <1>4, <1>7, <2>1, <2>2, ForgetRests
    <2>3. CASE q # s
        BY <1>7, <2>1, <2>3
    <2> QED BY <2>2, <2>3
<1>13. ASSUME NEW q \in Schedds, ScansNow(q)
       PROVE  ScheddScans(isource.kind, ihist'[q], ileft.written[q], icursor[q], ifile[q], iarch[q],
                          iloop.scan, Spent)
    <2>1. ScheddScans(isource.kind, ihist[q], ileft.written[q], icursor[q], ifile[q], iarch[q],
                      iloop.scan, Spent)
        BY <1>13 DEF ImportInv
    <2>2. CASE q = s
        BY <1>1, <1>2, <1>4, <1>7, <2>1, <2>2, ForgetScans
    <2>3. CASE q # s
        BY <1>7, <2>1, <2>3
    <2> QED BY <2>2, <2>3
<1>14. iloop.pc = "set" => iloop.scan.todo = <<>> /\ iloop.scan.saw /\ ipending = <<>>
    BY DEF ImportInv
<1>15. iloop.pc = "down" => \A q \in Schedds, i \in 1..MaxHistory : iarch[q][i] <= Spent
    BY DEF ImportInv
<1>16. \A q \in Schedds, i \in 1..MaxHistory : iarch[q][i] >= Cardinality(Losable(ipending, q, i))
    BY DEF ImportInv
<1> QED BY <1>6, <1>8, <1>9, <1>10, <1>11, <1>12, <1>13, <1>14, <1>15, <1>16 DEF ImportInv

-----------------------------------------------------------------------------
\* The records that a scan gets: those that are new to the cursor, newest first.
LEMMA GreatestIs ==
    ASSUME NEW S \in SUBSET Nat, S # {}, NEW n \in Nat, \A x \in S : x <= n
    PROVE  Max(S) \in S /\ \A y \in S : y <= Max(S)
<1> DEFINE U == {m \in Nat : \A x \in S : x <= m}
<1>1. PICK m \in U : \A y \in U : m <= y
    BY LeastNat
<1>2. m \in S
    <2> SUFFICES ASSUME m \notin S PROVE FALSE
        OBVIOUS
    <2>1. \A x \in S : x <= m - 1
        OBVIOUS
    <2>2. PICK x \in S : TRUE
        OBVIOUS
    <2>3. m - 1 \in Nat
        BY <2>1, <2>2
    <2> QED BY <1>1, <2>1, <2>3
<1>3. \A y \in S : m >= y
    BY <1>1
<1>4. Max(S) \in S /\ \A y \in S : Max(S) >= y
    BY <1>2, <1>3 DEF Max
<1> QED BY <1>4

LEMMA NewToLater ==
    ASSUME NEW kind \in ImportKinds, NEW c \in ImportCursor, NEW h \in Seq(ImportRecord), NEW w \in Nat,
           HistOK(h, w), NEW r \in Held(h), NEW q \in Held(h), r.id <= q.id, NewTo(kind, c, r)
    PROVE  NewTo(kind, c, q)
<1>1. r.id \in Nat /\ q.id \in Nat /\ r.date \in Nat /\ q.date \in Nat /\ c.at \in Nat
    BY HistFacts DEF ImportCursor
<1>2. r.date <= q.date
    BY <1>1, HistFacts
<1> QED BY <1>1, <1>2 DEF NewTo

\* Newest, for the history h of a schedd.
LEMMA NewestIs ==
    ASSUME isource.kind \in ImportKinds, NEW c \in ImportCursor, NEW h \in Seq(ImportRecord), NEW w \in Nat,
           HistOK(h, w)
    PROVE  /\ Newest(h, c) \in Seq(ImportRecord)
           /\ \A j \in 1..Len(Newest(h, c)) : Newest(h, c)[j].id = w + 1 - j
           /\ Held(Newest(h, c)) = {r \in Held(h) : NewTo(isource.kind, c, r)}
<1>1. PICK kind : kind = isource.kind
    OBVIOUS
<1>2. PICK L : L = Len(h)
    OBVIOUS
<1>3. L \in Nat /\ DOMAIN h = 1..L
    BY <1>2
<1>4. \A r : Since(c, r) <=> NewTo(kind, c, r)
    BY <1>1 DEF Since, NewTo
<1> DEFINE S == {0} \cup {i \in DOMAIN h : ~Since(c, h[i])}
<1>5. S \in SUBSET Nat /\ S # {} /\ \A x \in S : x <= L
    BY <1>3
<1>6. PICK stop : stop = Max(S)
    OBVIOUS
<1>7. stop \in S /\ \A y \in S : y <= stop
    BY <1>3, <1>5, <1>6, GreatestIs
<1>8. stop \in 0..L /\ \A i \in 1..L : i > stop => NewTo(kind, c, h[i])
    BY <1>3, <1>4, <1>7
<1>9. ASSUME NEW i \in 1..L, i <= stop PROVE ~NewTo(kind, c, h[i])
    <2>1. stop \in 1..L
        BY <1>3, <1>8, <1>9
    <2>2. ~NewTo(kind, c, h[stop])
        BY <1>4, <1>7, <2>1
    <2>3. h[i] \in Held(h) /\ h[stop] \in Held(h)
        BY <1>2, <2>1 DEF Held
    <2>4. h[i].id = w - L + i /\ h[stop].id = w - L + stop
        BY <1>2, <2>1 DEF HistOK
    <2>5. h[i].id <= h[stop].id
        BY <1>3, <1>9, <2>1, <2>4
    <2> QED BY <1>1, <2>2, <2>3, <2>5, NewToLater
<1>10. PICK new : new = [i \in 1..L - stop |-> h[L + 1 - i]]
    OBVIOUS
<1>11. new = Newest(h, c)
    BY <1>2, <1>6, <1>10 DEF Newest
<1>12. L - stop \in Nat
    BY <1>3, <1>8
<1>13. new \in Seq(ImportRecord) /\ Len(new) = L - stop
    <2>1. \A i \in 1..L - stop : L + 1 - i \in 1..L
        BY <1>3, <1>8, <1>12
    <2>2. new \in [1..L - stop -> ImportRecord]
        BY <1>2, <1>10, <2>1
    <2> QED BY <1>12, <2>2
<1>14. ASSUME NEW j \in 1..L - stop PROVE new[j] = h[L + 1 - j] /\ L + 1 - j \in 1..L /\ L + 1 - j > stop
    BY <1>3, <1>8, <1>10, <1>12
<1>15. ASSUME NEW j \in 1..Len(new) PROVE new[j].id = w + 1 - j
    <2>1. new[j] = h[L + 1 - j] /\ L + 1 - j \in 1..L
        BY <1>13, <1>14
    <2>2. h[L + 1 - j].id = w - L + (L + 1 - j)
        BY <1>2, <2>1 DEF HistOK
    <2> QED BY <1>3, <1>12, <1>13, <2>1, <2>2
<1>16. ASSUME NEW r \in Held(new) PROVE r \in Held(h) /\ NewTo(kind, c, r)
    <2>1. PICK j \in 1..L - stop : r = new[j]
        BY <1>13 DEF Held
    <2>2. r = h[L + 1 - j] /\ L + 1 - j \in 1..L /\ L + 1 - j > stop
        BY <1>14, <2>1
    <2> QED BY <1>2, <1>8, <2>2 DEF Held
<1>17. ASSUME NEW r \in Held(h), NewTo(kind, c, r) PROVE r \in Held(new)
    <2>1. PICK i \in 1..L : r = h[i]
        BY <1>2 DEF Held
    <2>2. i > stop
        BY <1>3, <1>8, <1>9, <1>17, <2>1
    <2>3. L + 1 - i \in 1..L - stop /\ L + 1 - (L + 1 - i) = i
        BY <1>3, <1>8, <2>2
    <2>4. new[L + 1 - i] = r
        BY <1>14, <2>1, <2>3
    <2> QED BY <1>13, <2>3, <2>4 DEF Held
<1>18. Held(new) = {r \in Held(h) : NewTo(kind, c, r)}
    BY <1>16, <1>17
<1> QED BY <1>1, <1>11, <1>13, <1>15, <1>18

LEMMA ScanBegins ==
    ASSUME NEW kind \in ImportKinds, NEW h \in Seq(ImportRecord), NEW w \in Nat,
           NEW c \in ImportCursor, NEW f \in ImportCursor, NEW arch, NEW n, NEW scan \in ImportScan,
           HistOK(h, w), CursorOK(kind, c, h, w), ScheddRests(kind, h, c, f, arch, n),
           \A j \in 1..Len(scan.todo) : scan.todo[j].id = w + 1 - j,
           Held(scan.todo) = {r \in Held(h) : NewTo(kind, c, r)},
           scan.dedup <=> (kind = "history" /\ c.at = 0),
           scan.at = IF kind = "history" THEN 0 ELSE c.at, scan.keys = {}, scan.saw = FALSE
    PROVE  ScheddScans(kind, h, w, c, f, arch, scan, n)
<1>1. PICK undone, sc : undone = scan.todo /\ sc = ScanCursor(scan)
    OBVIOUS
<1>2. undone \in Seq(ImportRecord) /\ Len(undone) \in Nat
    BY <1>1 DEF ImportScan
<1>3. sc.at = (IF kind = "history" THEN 0 ELSE c.at) /\ sc.keys = {}
    BY <1>1 DEF ScanCursor
<1>4. \A r \in Held(h) : r.id \in 1..w /\ r.id \in Nat /\ r.date \in Nat
    BY HistFacts
<1>5. c.at \in Nat
    BY DEF ImportCursor
<1>6. ScanOK(kind, c, scan, h, w)
    <2>1. CursorOK(kind, sc, h, w)
        BY <1>3, <1>5 DEF CursorOK, KeyFor
    <2> QED BY <1>1, <1>5, <2>1 DEF ScanOK
<1>7. ScanTodoOK(kind, c, undone, h, w)
    <2>1. ASSUME NEW t \in Held(undone) PROVE TodoRecord(kind, c, t, h, w)
        <3>1. t \in Held(h) /\ NewTo(kind, c, t)
            BY <1>1, <2>1
        <3>2. KeyFor(c, t)
            BY <3>1 DEF CursorOK
        <3>3. t.id <= w
            BY <1>4, <3>1
        <3>4. \A r \in Held(h) : (r.id = t.id => r = t) /\ (r.id >= t.id => r.date >= t.date)
            BY <3>1, HistFacts
        <3> QED BY <3>1, <3>2, <3>3, <3>4 DEF TodoRecord
    <2>2. ASSUME NEW j \in 1..Len(undone) PROVE undone[j].id = undone[1].id + 1 - j
        <3>1. undone[j].id = w + 1 - j /\ 1 \in 1..Len(undone)
            BY <1>1, <1>2
        <3>2. undone[1].id = w + 1 - 1
            BY <1>1, <3>1
        <3> QED BY <3>1, <3>2
    <2>3. \A r \in Held(h) : NewTo(kind, c, r) => r \in Held(undone)
        BY <1>1
    <2> QED BY <2>1, <2>2, <2>3 DEF ScanTodoOK
<1>8. Reached(kind, c, sc, undone, h, arch)
    <2>1. ASSUME NEW r \in Held(h), NewTo(kind, c, r), PassedBy(kind, sc, r) PROVE FALSE
        BY <1>3, <1>4, <1>5, <2>1 DEF NewTo, PassedBy
    <2>2. ASSUME NEW r \in Held(h), r.id \in c.keys PROVE r \in Held(undone)
        <3>1. kind # "history"
            BY <2>2 DEF CursorOK
        <3>2. r.date = c.at
            BY <2>2 DEF CursorOK, KeyFor
        <3>3. NewTo(kind, c, r)
            BY <1>5, <3>1, <3>2 DEF NewTo
        <3> QED BY <1>1, <3>3
    <2> QED BY <2>1, <2>2 DEF Reached
<1>9. ScanCount(kind, c, sc, scan.saw, undone, h, arch, n)
    <2>1. \A r \in Held(h) : arch[r.id] > n => PassedBy(kind, c, r)
        BY DEF ScheddRests
    <2> QED BY <1>1, <2>1 DEF ScanCount
<1>10. kind = "history" /\ f.at = 0 => ScanHoles(undone, h, arch)
    BY DEF ScheddRests, NoHoleBelow, ScanHoles
<1>11. ScanDown(kind, scan)
    BY DEF ScanDown
<1> QED BY <1>1, <1>6, <1>7, <1>8, <1>9, <1>10, <1>11 DEF ScheddScans

-----------------------------------------------------------------------------
\* A scan takes its next record.
LEMMA TodoDown ==
    ASSUME NEW kind, NEW c, NEW h \in Seq(ImportRecord), NEW w, NEW undone \in Seq(ImportRecord), undone # <<>>,
           ScanTodoOK(kind, c, undone, h, w)
    PROVE  /\ undone[1] \in Held(undone) /\ undone[1] = Head(undone) /\ undone[1].id \in Nat
           /\ \A t \in Held(Tail(undone)) : t.id < undone[1].id
           /\ Tail(undone) \in Seq(ImportRecord)
           /\ Tail(undone) # <<>> => Tail(undone)[1] \in Held(Tail(undone)) /\ Tail(undone)[1].id = undone[1].id - 1
           /\ ScanTodoOK(kind, c, Tail(undone), h, w)
<1>1. PICK rest, t1 : rest = Tail(undone) /\ t1 = undone[1]
    OBVIOUS
<1>2. /\ Len(undone) \in Nat /\ Len(undone) > 0 /\ rest \in Seq(ImportRecord) /\ Len(rest) = Len(undone) - 1
      /\ \A j \in 1..Len(undone) - 1 : rest[j] = undone[j + 1]
    BY <1>1
<1>3. t1 \in Held(undone) /\ t1 = Head(undone) /\ t1 \in ImportRecord
    BY <1>1, <1>2 DEF Held
<1>4. t1.id \in Nat
    BY <1>3, RecordType
<1>5. ASSUME NEW j \in 1..Len(rest) PROVE rest[j].id = t1.id - j
    <2>1. j + 1 \in 1..Len(undone) /\ rest[j] = undone[j + 1]
        BY <1>2
    <2>2. undone[j + 1].id = t1.id + 1 - (j + 1)
        BY <1>1, <2>1 DEF ScanTodoOK
    <2>3. \A k \in Nat : k + 1 - (j + 1) = k - j
        OBVIOUS
    <2>4. t1.id + 1 - (j + 1) = t1.id - j
        BY <1>4, <2>3
    <2> QED BY <2>1, <2>2, <2>4
<1>6. ASSUME NEW t \in Held(rest) PROVE t.id < t1.id
    <2>1. PICK j \in 1..Len(rest) : t = rest[j]
        BY <1>6 DEF Held
    <2>2. t.id = t1.id - j
        BY <1>5, <2>1
    <2>3. \A k \in Nat : k - j < k
        OBVIOUS
    <2> QED BY <1>4, <2>2, <2>3
<1>7. rest # <<>> => 1 \in 1..Len(rest)
    BY <1>2
<1>8. rest # <<>> => rest[1] \in Held(rest) /\ rest[1].id = t1.id - 1
    BY <1>5, <1>7 DEF Held
<1>9. Held(undone) = Held(rest) \cup {t1}
    BY <1>1, <1>3, HeldTail
<1>10. ScanTodoOK(kind, c, rest, h, w)
    <2>1. ASSUME NEW j \in 1..Len(rest) PROVE rest[j].id = rest[1].id + 1 - j
        <3>1. 1 \in 1..Len(rest)
            BY <1>2
        <3>2. rest[j].id = t1.id - j /\ rest[1].id = t1.id - 1
            BY <1>5, <3>1
        <3>3. \A k \in Nat : k - j = (k - 1) + 1 - j
            OBVIOUS
        <3> QED BY <1>4, <3>2, <3>3
    <2>2. \A t \in Held(rest) : TodoRecord(kind, c, t, h, w)
        BY <1>9 DEF ScanTodoOK
    <2>3. ASSUME rest # <<>>, NEW r \in Held(h), NewTo(kind, c, r), r.id <= rest[1].id
          PROVE  r \in Held(rest)
        <3>1. r.id <= t1.id - 1
            BY <1>8, <2>3
        <3>2. r # t1
            BY <1>4, <3>1
        <3>3. r \in Held(undone)
            <4>1. r.id <= t1.id
                <5>1. r.id \in Nat
                    BY <2>3, HeldIn, RecordType
                <5> QED BY <1>4, <3>1, <5>1
            <4> QED BY <1>1, <2>3, <4>1 DEF ScanTodoOK
        <3> QED BY <1>9, <3>2, <3>3
    <2> QED BY <2>1, <2>2, <2>3 DEF ScanTodoOK
<1> QED BY <1>1, <1>2, <1>3, <1>4, <1>6, <1>8, <1>10

LEMMA TodoDate ==
    ASSUME NEW kind, NEW c, NEW h \in Seq(ImportRecord), NEW w \in Nat, HistOK(h, w),
           NEW t \in ImportRecord, TodoRecord(kind, c, t, h, w)
    PROVE  t.date <= LastDate(h) /\ t.id \in 1..w
<1>1. t.id <= w /\ t.id > 0 /\ t.id \in Nat
    BY RecordType DEF TodoRecord
<1>2. h # <<>>
    BY <1>1 DEF HistOK
<1>3. Len(h) \in 1..Len(h) /\ h[Len(h)].id = w /\ LastDate(h) = h[Len(h)].date
    BY <1>2 DEF HistOK, LastDate
<1>4. h[Len(h)] \in Held(h)
    BY <1>3 DEF Held
<1>5. LastDate(h) >= t.date
    BY <1>1, <1>3, <1>4 DEF TodoRecord
<1>6. LastDate(h) \in Nat /\ t.date \in Nat
    BY HistFacts, RecordType
<1> QED BY <1>1, <1>5, <1>6

\* The cursor sc of a scan, after record t.
AdvancedBy(kind, sc, t, sc2) ==
    IF kind = "history" THEN sc2.at = (IF sc.at = 0 THEN t.id ELSE sc.at) /\ sc2.keys = sc.keys
    ELSE /\ sc2.at = IF t.date > sc.at THEN t.date ELSE sc.at
         /\ sc2.keys = IF t.date > sc.at THEN {t.id}
                       ELSE IF t.date = sc.at THEN sc.keys \cup {t.id} ELSE sc.keys

LEMMA CursorAdvances ==
    ASSUME NEW kind \in ImportKinds, NEW c, NEW h \in Seq(ImportRecord), NEW w \in Nat, HistOK(h, w),
           NEW t \in ImportRecord, TodoRecord(kind, c, t, h, w), t.kind # "other",
           NEW sc \in ImportCursor, NEW sc2 \in ImportCursor, CursorOK(kind, sc, h, w),
           AdvancedBy(kind, sc, t, sc2), kind = "history" /\ sc.at # 0 => t.id < sc.at
    PROVE  /\ CursorOK(kind, sc2, h, w) /\ PassedBy(kind, sc2, t) /\ sc2.at >= sc.at
           /\ kind = "history" => sc2.at >= t.id
           /\ \A r \in Held(h) : PassedBy(kind, sc, r) => PassedBy(kind, sc2, r)
           /\ \A r \in Held(h) : PassedBy(kind, sc2, r) => PassedBy(kind, sc, r) \/ r.id <= t.id
<1>1. \A r \in Held(h) : r.id \in 1..w /\ r.id \in Nat /\ r.date \in Nat
    BY HistFacts
<1>2. sc.at \in Nat /\ sc2.at \in Nat /\ t.id \in Nat /\ t.id > 0 /\ t.date \in Nat /\ LastDate(h) \in Nat
    BY RecordType, HistFacts DEF ImportCursor
<1>3. \A r \in Held(h) : (r.id = t.id => r = t) /\ (r.id >= t.id => r.date >= t.date)
    BY DEF TodoRecord
<1>4. t.date <= LastDate(h) /\ t.id \in 1..w
    BY TodoDate
<1>5. CASE kind = "history"
    <2>1. sc2.at = (IF sc.at = 0 THEN t.id ELSE sc.at) /\ sc2.keys = sc.keys /\ sc.keys = {} /\ sc.at <= w
        BY <1>5 DEF AdvancedBy, CursorOK
    <2>2. sc2.at >= sc.at /\ sc2.at >= t.id /\ sc2.at <= w /\ sc2.keys = {}
        BY <1>2, <1>4, <1>5, <2>1
    <2>3. CursorOK(kind, sc2, h, w)
        BY <1>5, <2>2 DEF CursorOK, KeyFor
    <2>4. \A r \in Held(h) : PassedBy(kind, sc, r) => PassedBy(kind, sc2, r)
        BY <1>1, <1>2, <1>5, <2>2 DEF PassedBy
    <2>5. \A r \in Held(h) : PassedBy(kind, sc2, r) => PassedBy(kind, sc, r) \/ r.id <= t.id
        BY <1>1, <1>2, <1>5, <2>1 DEF PassedBy
    <2> QED BY <1>5, <2>2, <2>3, <2>4, <2>5 DEF PassedBy
<1>6. CASE kind # "history"
    <2>1. sc.at <= LastDate(h) /\ sc.keys \subseteq 1..w
          /\ \A r \in Held(h) : r.id \in sc.keys => r.date = sc.at /\ r.kind # "other"
        BY <1>6 DEF CursorOK, KeyFor
    <2>2. CASE t.date > sc.at
        <3>1. sc2.at = t.date /\ sc2.keys = {t.id}
            BY <1>6, <2>2 DEF AdvancedBy
        <3>2. CursorOK(kind, sc2, h, w)
            BY <1>3, <1>4, <1>6, <3>1 DEF CursorOK, KeyFor
        <3>3. \A r \in Held(h) : PassedBy(kind, sc, r) => PassedBy(kind, sc2, r)
            BY <1>1, <1>2, <1>6, <2>1, <2>2, <3>1 DEF PassedBy
        <3>4. ASSUME NEW r \in Held(h), PassedBy(kind, sc2, r) PROVE r.id <= t.id
            <4>1. r.date < t.date \/ r.id = t.id
                BY <1>6, <3>1, <3>4 DEF PassedBy
            <4> QED BY <1>1, <1>2, <1>3, <4>1
        <3> QED BY <1>2, <1>6, <2>2, <3>1, <3>2, <3>3, <3>4 DEF PassedBy
    <2>3. CASE t.date = sc.at
        <3>1. sc2.at = sc.at /\ sc2.keys = sc.keys \cup {t.id}
            BY <1>2, <1>6, <2>3 DEF AdvancedBy
        <3>2. CursorOK(kind, sc2, h, w)
            BY <1>3, <1>4, <1>6, <2>1, <2>3, <3>1 DEF CursorOK, KeyFor
        <3>3. \A r \in Held(h) : PassedBy(kind, sc, r) => PassedBy(kind, sc2, r)
            BY <1>6, <3>1 DEF PassedBy
        <3>4. ASSUME NEW r \in Held(h), PassedBy(kind, sc2, r) PROVE PassedBy(kind, sc, r) \/ r.id <= t.id
            <4>1. PassedBy(kind, sc, r) \/ r.id = t.id
                BY <1>6, <3>1, <3>4 DEF PassedBy
            <4> QED BY <1>1, <1>2, <4>1
        <3> QED BY <1>2, <1>6, <3>1, <3>2, <3>3, <3>4 DEF PassedBy
    <2>4. CASE t.date < sc.at
        <3>1. sc2.at = sc.at /\ sc2.keys = sc.keys
            BY <1>2, <1>6, <2>4 DEF AdvancedBy
        <3>2. CursorOK(kind, sc2, h, w)
            BY <1>6, <3>1 DEF CursorOK, KeyFor
        <3> QED BY <1>2, <1>6, <2>4, <3>1, <3>2 DEF PassedBy
    <2> QED BY <1>2, <2>2, <2>3, <2>4
<1> QED BY <1>5, <1>6

\* What a scan's step on record t makes of the table.
TakenInto(kind, c, t, arch, arch2) ==
    \/ arch2 = arch /\ (t.kind # "ok" \/ PassedBy(kind, c, t))
    \/ arch2 = [arch EXCEPT ![t.id] = @ + 1] /\ ~PassedBy(kind, c, t)

Grown(kind, c, t, arch, arch2) ==
    /\ arch2 \in ImportCounts
    /\ \A i \in 1..MaxHistory : arch2[i] >= arch[i] /\ (i # t.id => arch2[i] = arch[i])
    /\ t.kind = "ok" => arch2[t.id] > 0 \/ PassedBy(kind, c, t)
    /\ arch2 # arch => ~PassedBy(kind, c, t) /\ arch2[t.id] = arch[t.id] + 1

LEMMA TableGrows ==
    ASSUME NEW kind, NEW c, NEW t, NEW arch \in ImportCounts, NEW arch2, t.id \in 1..MaxHistory,
           NoneNegative(arch), TakenInto(kind, c, t, arch, arch2)
    PROVE  Grown(kind, c, t, arch, arch2)
<1>1. \A i \in 1..MaxHistory : arch[i] \in Int /\ arch[i] >= 0
    BY DEF ImportCounts, NoneNegative
<1>2. CASE arch2 = arch /\ (t.kind # "ok" \/ PassedBy(kind, c, t))
    BY <1>1, <1>2 DEF Grown
<1>3. CASE arch2 = [arch EXCEPT ![t.id] = @ + 1] /\ ~PassedBy(kind, c, t)
    <2>1. arch2 \in ImportCounts
        BY <1>1, <1>3 DEF ImportCounts
    <2>2. arch2[t.id] = arch[t.id] + 1 /\ \A i \in 1..MaxHistory : i # t.id => arch2[i] = arch[i]
        BY <1>3 DEF ImportCounts
    <2> QED BY <1>1, <1>3, <2>1, <2>2 DEF Grown
<1> QED BY <1>2, <1>3 DEF TakenInto

LEMMA ScanTakes ==
    ASSUME NEW kind \in ImportKinds, NEW h \in Seq(ImportRecord), NEW w \in Nat, w <= MaxHistory,
           NEW c \in ImportCursor, NEW f \in ImportCursor, NEW arch \in ImportCounts, NEW n \in Nat,
           NEW scan \in ImportScan, HistOK(h, w), CursorOK(kind, c, h, w), InTable(kind, c, h, arch),
           ScheddScans(kind, h, w, c, f, arch, scan, n), scan.todo # <<>>,
           NoneNegative(arch),
           NEW t, t = Head(scan.todo), NEW arch2, TakenInto(kind, c, t, arch, arch2),
           NEW scan2 \in ImportScan, scan2.todo = Tail(scan.todo), scan2.dedup = scan.dedup,
           \/ t.kind = "other" /\ ScanCursor(scan2) = ScanCursor(scan) /\ scan2.saw = scan.saw /\ arch2 = arch
           \/ t.kind # "other" /\ AdvancedBy(kind, ScanCursor(scan), t, ScanCursor(scan2)) /\ scan2.saw
    PROVE  ScheddScans(kind, h, w, c, f, arch2, scan2, n)
<1>1. PICK undone, rest, sc, sc2 : /\ undone = scan.todo /\ rest = scan2.todo
                                 /\ sc = ScanCursor(scan) /\ sc2 = ScanCursor(scan2)
    OBVIOUS
<1>2. undone \in Seq(ImportRecord) /\ undone # <<>> /\ rest = Tail(undone) /\ sc \in ImportCursor /\ sc2 \in ImportCursor
    BY <1>1 DEF ImportScan, ScanCursor, ImportCursor
<1>3. ScanOK(kind, c, scan, h, w) /\ ScanTodoOK(kind, c, undone, h, w) /\ Reached(kind, c, sc, undone, h, arch)
      /\ ScanCount(kind, c, sc, scan.saw, undone, h, arch, n) /\ ScanDown(kind, scan)
      /\ (kind = "history" /\ f.at = 0 => ScanHoles(undone, h, arch))
    BY <1>1 DEF ScheddScans
<1>4. /\ t \in Held(undone) /\ t = undone[1] /\ t.id \in Nat /\ \A q \in Held(rest) : q.id < t.id
      /\ rest # <<>> => rest[1] \in Held(rest) /\ rest[1].id = t.id - 1
      /\ ScanTodoOK(kind, c, rest, h, w) /\ rest \in Seq(ImportRecord)
    <2>1. /\ undone[1] \in Held(undone) /\ undone[1] = Head(undone) /\ undone[1].id \in Nat
          /\ \A q \in Held(Tail(undone)) : q.id < undone[1].id
          /\ Tail(undone) \in Seq(ImportRecord)
          /\ Tail(undone) # <<>> => Tail(undone)[1] \in Held(Tail(undone)) /\ Tail(undone)[1].id = undone[1].id - 1
          /\ ScanTodoOK(kind, c, Tail(undone), h, w)
        BY <1>2, <1>3, TodoDown
    <2>2. t = undone[1]
        BY <1>1, <2>1
    <2> QED BY <1>2, <2>1, <2>2
<1>5. Held(undone) = Held(rest) \cup {t}
    BY <1>1, <1>2, HeldTail
<1>6. TodoRecord(kind, c, t, h, w) /\ t \in ImportRecord
    BY <1>2, <1>3, <1>4, HeldIn DEF ScanTodoOK
<1>7. \A r \in Held(h) : (r.id = t.id => r = t) /\ r.id \in Nat /\ r.id \in 1..MaxHistory
    BY <1>6, HistFacts, ImportBoundAssumption DEF TodoRecord
<1>8. t.id \in 1..MaxHistory
    BY <1>6, TodoDate, ImportBoundAssumption
<1>9. /\ arch2 \in ImportCounts
      /\ \A i \in 1..MaxHistory : arch2[i] >= arch[i] /\ (i # t.id => arch2[i] = arch[i])
      /\ t.kind = "ok" => arch2[t.id] > 0 \/ PassedBy(kind, c, t)
      /\ arch2 # arch => ~PassedBy(kind, c, t) /\ arch2[t.id] = arch[t.id] + 1
    <2>1. Grown(kind, c, t, arch, arch2)
        BY <1>8, TableGrows
    <2> QED BY <2>1 DEF Grown
<1>10. \A i \in 1..MaxHistory : arch[i] \in Int /\ arch2[i] \in Int
    BY <1>9 DEF ImportCounts
<1>11. CursorOK(kind, sc, h, w) /\ (kind = "history" => (scan.saw <=> sc.at # 0) /\ (scan.saw => sc.at > c.at))
       /\ (kind # "history" => sc.at >= c.at) /\ (scan.dedup <=> (kind = "history" /\ c.at = 0))
    BY <1>1, <1>3 DEF ScanOK, ScanCursor
<1>12. kind = "history" /\ sc.at # 0 => t.id < sc.at
    BY <1>1, <1>3, <1>4, <1>11 DEF ScanDown, ScanCursor
<1>13. c.at \in Nat /\ sc.at \in Nat /\ sc2.at \in Nat /\ t.date \in Nat
    BY <1>2, <1>6, RecordType DEF ImportCursor
<1>14. NewTo(kind, c, t) /\ KeyFor(c, t)
    BY <1>6 DEF TodoRecord
<1>15. /\ CursorOK(kind, sc2, h, w) /\ sc2.at >= sc.at
       /\ t.kind # "other" => PassedBy(kind, sc2, t) /\ (kind = "history" => sc2.at >= t.id)
       /\ \A r \in Held(h) : PassedBy(kind, sc, r) => PassedBy(kind, sc2, r)
       /\ \A r \in Held(h) : PassedBy(kind, sc2, r) => PassedBy(kind, sc, r) \/ r.id <= t.id
       /\ kind = "history" /\ sc.at # 0 => sc2.at = sc.at
    <2>1. CASE t.kind = "other"
        BY <1>1, <1>11, <1>13, <2>1
    <2>2. CASE t.kind # "other"
        <3>1. AdvancedBy(kind, sc, t, sc2)
            BY <1>1, <2>2
        <3>2. /\ CursorOK(kind, sc2, h, w) /\ PassedBy(kind, sc2, t) /\ sc2.at >= sc.at
              /\ kind = "history" => sc2.at >= t.id
              /\ \A r \in Held(h) : PassedBy(kind, sc, r) => PassedBy(kind, sc2, r)
              /\ \A r \in Held(h) : PassedBy(kind, sc2, r) => PassedBy(kind, sc, r) \/ r.id <= t.id
            BY <1>2, <1>6, <1>11, <1>12, <2>2, <3>1, CursorAdvances
        <3>3. kind = "history" /\ sc.at # 0 => sc2.at = sc.at
            BY <3>1 DEF AdvancedBy
        <3> QED BY <3>2, <3>3
    <2> QED BY <2>1, <2>2
<1>16. ScanOK(kind, c, scan2, h, w)
    <2>1. kind = "history" => (scan2.saw <=> sc2.at # 0) /\ (scan2.saw => sc2.at > c.at)
        <3>1. CASE t.kind = "other"
            BY <1>1, <1>11, <3>1
        <3>2. CASE t.kind # "other"
            <4>1. kind = "history" => t.id > c.at /\ t.id > 0
                BY <1>13, <1>14, <1>4 DEF NewTo
            <4> QED BY <1>1, <1>4, <1>13, <1>15, <3>2, <4>1
        <3> QED BY <3>1, <3>2
    <2>2. kind # "history" => sc2.at >= c.at
        BY <1>11, <1>13, <1>15
    <2> QED BY <1>1, <1>11, <1>15, <2>1, <2>2 DEF ScanOK, ScanCursor
<1>17. Reached(kind, c, sc2, rest, h, arch2)
    <2>1. ASSUME NEW r \in Held(h), MustKeep(r), NewTo(kind, c, r), PassedBy(kind, sc2, r),
                 r \notin Held(rest)
          PROVE  arch2[r.id] > 0
        <3>1. CASE r = t
            <4>1. PassedBy(kind, c, t) => arch[t.id] > 0
                BY <2>1, <3>1 DEF InTable
            <4> QED BY <1>8, <1>9, <1>10, <2>1, <3>1, <4>1 DEF MustKeep
        <3>2. CASE r # t
            <4>1. r \in Held(undone) => r \in Held(rest)
                BY <1>5, <3>2
            <4>2. r.id <= t.id => r \in Held(undone)
                BY <1>2, <1>3, <1>4, <2>1 DEF ScanTodoOK
            <4>3. PassedBy(kind, sc, r)
                BY <1>15, <2>1, <4>1, <4>2
            <4>4. arch[r.id] > 0
                BY <1>3, <2>1, <4>1, <4>3 DEF Reached
            <4> QED BY <1>7, <1>9, <1>10, <4>4
        <3> QED BY <3>1, <3>2
    <2>2. ASSUME NEW r \in Held(h), r.id \in c.keys, r \notin Held(rest) PROVE PassedBy(kind, sc2, r)
        <3>1. CASE r = t
            <4>1. t.kind # "other"
                BY <1>14, <2>2, <3>1 DEF KeyFor
            <4> QED BY <1>15, <3>1, <4>1
        <3>2. CASE r # t
            BY <1>3, <1>5, <1>15, <2>2, <3>2 DEF Reached
        <3> QED BY <3>1, <3>2
    <2> QED BY <2>1, <2>2 DEF Reached
<1>18. ScanCount(kind, c, sc2, scan2.saw, rest, h, arch2, n)
    <2>1. ASSUME NEW r \in Held(h), arch2[r.id] > n
          PROVE  PassedBy(kind, c, r) \/ (scan2.saw /\ PassedBy(kind, sc2, r))
        <3>1. arch[r.id] > n => PassedBy(kind, c, r) \/ (scan.saw /\ PassedBy(kind, sc, r))
            BY <1>3 DEF ScanCount
        <3>2. scan.saw => scan2.saw
            OBVIOUS
        <3>3. CASE arch[r.id] > n
            BY <1>15, <3>1, <3>2, <3>3
        <3>4. CASE ~(arch[r.id] > n)
            <4>1. arch2 # arch /\ r.id = t.id
                BY <1>7, <1>9, <2>1, <3>4
            <4>2. t.kind # "other" /\ scan2.saw
                BY <4>1
            <4> QED BY <1>7, <1>15, <4>1, <4>2
        <3> QED BY <3>3, <3>4
    <2>2. ASSUME NEW q \in Held(rest), arch2[q.id] > n PROVE PassedBy(kind, c, q)
        <3>1. q \in Held(undone) /\ q.id < t.id /\ q \in ImportRecord
            BY <1>4, <1>5, HeldIn
        <3>2. TodoRecord(kind, c, q, h, w)
            BY <1>3, <3>1 DEF ScanTodoOK
        <3>3. q.id \in 1..MaxHistory /\ q.id # t.id
            BY <1>4, <3>1, <3>2, TodoDate, ImportBoundAssumption
        <3>4. arch[q.id] > n
            BY <1>9, <2>2, <3>3
        <3> QED BY <1>3, <3>1, <3>4 DEF ScanCount
    <2> QED BY <2>1, <2>2 DEF ScanCount
<1>19. ASSUME kind = "history", f.at = 0 PROVE ScanHoles(rest, h, arch2)
    <2> SUFFICES ASSUME NEW r \in Held(h), NEW m \in 1..MaxHistory, HoleBelow(r, arch2, m)
                 PROVE  r \in Held(rest) /\ rest # <<>> /\ m > rest[1].id
        BY DEF ScanHoles
    <2>1. MustKeep(r) /\ r.id <= m /\ arch2[m] > 0 /\ ~(arch2[r.id] > 0)
        BY DEF HoleBelow
    <2>2. ~(arch[r.id] > 0)
        BY <1>7, <1>9, <1>10, <2>1
    <2>3. ~PassedBy(kind, c, r)
        BY <2>1, <2>2 DEF InTable
    <2>4. r # t
        BY <1>9, <2>1, <2>3 DEF MustKeep
    <2>5. r \in Held(undone) /\ m >= t.id
        <3>1. CASE arch[m] > 0
            <4>1. HoleBelow(r, arch, m)
                BY <2>1, <2>2, <3>1 DEF HoleBelow
            <4>2. r \in Held(undone) /\ m > undone[1].id
                BY <1>3, <1>19, <4>1 DEF ScanHoles
            <4> QED BY <1>4, <1>8, <4>2, ImportBoundAssumption
        <3>2. CASE ~(arch[m] > 0)
            <4>1. m = t.id
                BY <1>9, <2>1, <3>2
            <4>2. NewTo(kind, c, r)
                BY <1>7, <1>13, <1>19, <2>3 DEF NewTo, PassedBy
            <4>3. r.id <= t.id
                BY <2>1, <4>1
            <4> QED BY <1>2, <1>3, <1>4, <4>1, <4>2, <4>3 DEF ScanTodoOK
        <3> QED BY <3>1, <3>2
    <2>6. r \in Held(rest)
        BY <1>5, <2>4, <2>5
    <2>7. rest # <<>>
        BY <2>6, HeldEmpty
    <2>8. m > rest[1].id
        BY <1>4, <2>5, <2>7, ImportBoundAssumption
    <2> QED BY <2>6, <2>7, <2>8
<1>20. ScanDown(kind, scan2)
    <2>1. ASSUME kind = "history", scan2.saw, NEW q \in Held(rest) PROVE q.id < sc2.at
        <3>1. q \in Held(undone) /\ q.id < t.id /\ q.id \in Nat
            BY <1>4, <1>5, HeldIn, RecordType
        <3>2. CASE t.kind = "other"
            <4>1. scan.saw /\ sc2.at = sc.at
                BY <1>1, <2>1, <3>2
            <4>2. q.id < sc.at
                BY <1>1, <1>3, <2>1, <3>1, <4>1 DEF ScanDown, ScanCursor
            <4> QED BY <4>1, <4>2
        <3>3. CASE t.kind # "other"
            BY <1>4, <1>13, <1>15, <2>1, <3>1, <3>3
        <3> QED BY <3>2, <3>3
    <2>2. sc2.at = scan2.at
        BY <1>1 DEF ScanCursor
    <2> QED BY <1>1, <2>1, <2>2 DEF ScanDown
<1> QED BY <1>1, <1>4, <1>16, <1>17, <1>18, <1>19, <1>20 DEF ScheddScans

\* A first scan stops at a record t that the table has.
FirstScan(kind, c, f) == kind = "history" /\ c.at = 0 /\ f.at = 0

LEMMA ScanStops ==
    ASSUME NEW kind \in ImportKinds, NEW h \in Seq(ImportRecord), NEW w \in Nat, w <= MaxHistory,
           NEW c \in ImportCursor, NEW f \in ImportCursor, NEW arch \in ImportCounts, NEW n \in Nat,
           NEW scan \in ImportScan, HistOK(h, w), CursorOK(kind, c, h, w), FirstScan(kind, c, f),
           ScheddScans(kind, h, w, c, f, arch, scan, n), scan.todo # <<>>,
           NEW t, t = Head(scan.todo), t.kind # "other", arch[t.id] > 0,
           NEW scan2 \in ImportScan, scan2.todo = <<>>, scan2.dedup = scan.dedup, scan2.saw,
           AdvancedBy(kind, ScanCursor(scan), t, ScanCursor(scan2))
    PROVE  ScheddScans(kind, h, w, c, f, arch, scan2, n)
<1>1. PICK undone, sc, sc2 : undone = scan.todo /\ sc = ScanCursor(scan) /\ sc2 = ScanCursor(scan2)
    OBVIOUS
<1>2. undone \in Seq(ImportRecord) /\ undone # <<>> /\ sc \in ImportCursor /\ sc2 \in ImportCursor
    BY <1>1 DEF ImportScan, ScanCursor, ImportCursor
<1>3. ScanOK(kind, c, scan, h, w) /\ ScanTodoOK(kind, c, undone, h, w) /\ Reached(kind, c, sc, undone, h, arch)
      /\ ScanCount(kind, c, sc, scan.saw, undone, h, arch, n) /\ ScanDown(kind, scan)
      /\ ScanHoles(undone, h, arch)
    BY <1>1 DEF ScheddScans, FirstScan
<1>4. t \in Held(undone) /\ t = undone[1] /\ t.id \in Nat /\ \A q \in Held(Tail(undone)) : q.id < t.id
    <2>1. /\ undone[1] \in Held(undone) /\ undone[1] = Head(undone) /\ undone[1].id \in Nat
          /\ \A q \in Held(Tail(undone)) : q.id < undone[1].id
          /\ Tail(undone) \in Seq(ImportRecord)
          /\ Tail(undone) # <<>> => Tail(undone)[1] \in Held(Tail(undone)) /\ Tail(undone)[1].id = undone[1].id - 1
          /\ ScanTodoOK(kind, c, Tail(undone), h, w)
        BY <1>2, <1>3, TodoDown
    <2> QED BY <1>1, <2>1
<1>5. Held(undone) = Held(Tail(undone)) \cup {t}
    BY <1>1, <1>2, HeldTail
<1>6. TodoRecord(kind, c, t, h, w) /\ t \in ImportRecord
    BY <1>2, <1>3, <1>4, HeldIn DEF ScanTodoOK
<1>7. \A r \in Held(h) : r.id \in Nat
    BY HistFacts
<1>8. t.id \in 1..MaxHistory
    BY <1>6, TodoDate, ImportBoundAssumption
<1>9. CursorOK(kind, sc, h, w) /\ (scan.saw <=> sc.at # 0) /\ (scan.dedup <=> (kind = "history" /\ c.at = 0))
    BY <1>1, <1>3 DEF ScanOK, ScanCursor, FirstScan
<1>10. kind = "history" /\ sc.at # 0 => t.id < sc.at
    BY <1>1, <1>3, <1>4, <1>9 DEF ScanDown, ScanCursor
<1>11. AdvancedBy(kind, sc, t, sc2)
    BY <1>1
<1>12. /\ CursorOK(kind, sc2, h, w) /\ PassedBy(kind, sc2, t) /\ sc2.at >= sc.at
       /\ kind = "history" => sc2.at >= t.id
       /\ \A r \in Held(h) : PassedBy(kind, sc, r) => PassedBy(kind, sc2, r)
       /\ \A r \in Held(h) : PassedBy(kind, sc2, r) => PassedBy(kind, sc, r) \/ r.id <= t.id
    BY <1>2, <1>6, <1>9, <1>10, <1>11, CursorAdvances
<1>13. t.id > 0 /\ sc2.at \in Nat
    BY <1>2, <1>6, RecordType DEF ImportCursor
<1>14. ScanOK(kind, c, scan2, h, w)
    <2>1. sc2.at = scan2.at /\ sc2.at > 0
        BY <1>1, <1>4, <1>12, <1>13 DEF ScanCursor, FirstScan
    <2>2. scan2.saw <=> scan2.at # 0
        BY <2>1
    <2>3. scan2.at > c.at
        BY <2>1 DEF FirstScan
    <2> QED BY <1>1, <1>9, <1>12, <2>2, <2>3 DEF ScanOK, FirstScan
<1>15. ASSUME NEW r \in Held(h), MustKeep(r), r.id <= t.id PROVE arch[r.id] > 0
    <2> SUFFICES ASSUME ~(arch[r.id] > 0) PROVE FALSE
        OBVIOUS
    <2>1. HoleBelow(r, arch, t.id)
        BY <1>15 DEF HoleBelow
    <2> QED BY <1>3, <1>4, <1>8, <2>1 DEF ScanHoles
<1>16. Reached(kind, c, sc2, <<>>, h, arch)
    <2>1. ASSUME NEW r \in Held(h), MustKeep(r), NewTo(kind, c, r), PassedBy(kind, sc2, r)
          PROVE  arch[r.id] > 0
        <3>1. CASE r.id <= t.id
            BY <1>15, <2>1, <3>1
        <3>2. CASE ~(r.id <= t.id)
            <4>1. PassedBy(kind, sc, r)
                BY <1>12, <2>1, <3>2
            <4>2. r # t /\ r \notin Held(Tail(undone))
                BY <1>4, <1>7, <3>2
            <4>3. r \notin Held(undone)
                BY <1>5, <4>2
            <4> QED BY <1>3, <2>1, <4>1, <4>3 DEF Reached
        <3> QED BY <3>1, <3>2
    <2>2. c.keys = {}
        BY DEF CursorOK, FirstScan
    <2> QED BY <2>1, <2>2 DEF Reached
<1>17. ScanCount(kind, c, sc2, scan2.saw, <<>>, h, arch, n)
    BY <1>3, <1>12, HeldEmpty DEF ScanCount
<1>18. ScanHoles(<<>>, h, arch)
    <2> SUFFICES ASSUME NEW r \in Held(h), NEW m \in 1..MaxHistory, HoleBelow(r, arch, m) PROVE FALSE
        BY DEF ScanHoles
    <2>1. MustKeep(r) /\ ~(arch[r.id] > 0)
        BY DEF HoleBelow
    <2>2. r \in Held(undone)
        BY <1>3 DEF ScanHoles
    <2>3. r.id <= t.id
        BY <1>4, <1>5, <1>7, <2>2
    <2> QED BY <1>15, <2>1, <2>3
<1>19. ScanTodoOK(kind, c, <<>>, h, w)
    BY HeldEmpty DEF ScanTodoOK
<1>20. ScanDown(kind, scan2)
    BY HeldEmpty DEF ScanDown
<1> QED BY <1>1, <1>14, <1>16, <1>17, <1>18, <1>19, <1>20 DEF ScheddScans

LEMMA LosableAppend ==
    ASSUME NEW pending \in Seq(Schedds \X (1..MaxHistory)), NEW s \in Schedds, NEW i \in 1..MaxHistory
    PROVE  /\ IsFiniteSet(Losable(pending, s, i)) /\ Cardinality(Losable(pending, s, i)) \in Nat
           /\ \A q \in Schedds, j \in 1..MaxHistory :
                Cardinality(Losable(Append(pending, <<q, j>>), s, i)) =
                    Cardinality(Losable(pending, s, i)) + (IF q = s /\ j = i THEN 1 ELSE 0)
<1>1. PICK n : n = Len(pending)
    OBVIOUS
<1>2. n \in Nat /\ IsFiniteSet(1..n)
    BY <1>1, FS_Interval
<1>3. PICK L : L = Losable(pending, s, i)
    OBVIOUS
<1>4. L \subseteq 1..n /\ L = {p \in 1..n : pending[p] = <<s, i>>}
    BY <1>1, <1>3 DEF Losable
<1>5. IsFiniteSet(L) /\ Cardinality(L) \in Nat
    BY <1>2, <1>4, FS_Subset, FS_CardinalityType
<1>6. ASSUME NEW q \in Schedds, NEW j \in 1..MaxHistory
      PROVE  Cardinality(Losable(Append(pending, <<q, j>>), s, i)) =
                 Cardinality(L) + (IF q = s /\ j = i THEN 1 ELSE 0)
    <2>1. PICK p2 : p2 = Append(pending, <<q, j>>)
        OBVIOUS
    <2>2. Len(p2) = n + 1 /\ p2[n + 1] = <<q, j>> /\ \A p \in 1..n : p2[p] = pending[p]
        BY <1>1, <2>1
    <2>3. Losable(p2, s, i) = {p \in 1..n + 1 : p2[p] = <<s, i>>}
        BY <2>2 DEF Losable
    <2>4. CASE q = s /\ j = i
        <3>1. Losable(p2, s, i) = L \cup {n + 1} /\ n + 1 \notin L
            BY <1>2, <1>4, <2>2, <2>3, <2>4
        <3>2. Cardinality(L \cup {n + 1}) = Cardinality(L) + 1
            BY <1>5, <3>1, FS_AddElement
        <3> QED BY <2>1, <2>4, <3>1, <3>2
    <2>5. CASE ~(q = s /\ j = i)
        <3>1. p2[n + 1] # <<s, i>>
            BY <2>2, <2>5
        <3>2. Losable(p2, s, i) = L
            BY <1>2, <1>4, <2>2, <2>3, <3>1
        <3> QED BY <1>5, <2>1, <2>5, <3>2
    <2> QED BY <2>4, <2>5
<1> QED BY <1>3, <1>5, <1>6

LEMMA CountsFacts ==
    ASSUME ImportInv, NEW s \in Schedds
    PROVE  NoneNegative(iarch[s]) /\ \A i \in 1..MaxHistory : iarch[s][i] \in Int
<1>1. \A i \in 1..MaxHistory : iarch[s][i] \in Int
    BY ImportFacts DEF ImportCounts
<1>2. ASSUME NEW i \in 1..MaxHistory PROVE iarch[s][i] >= 0
    <2>1. Cardinality(Losable(ipending, s, i)) \in Nat
        BY ImportFacts, LosableAppend
    <2>2. iarch[s][i] >= Cardinality(Losable(ipending, s, i))
        BY DEF ImportInv
    <2> QED BY <1>1, <2>1, <2>2
<1> QED BY <1>1, <1>2 DEF NoneNegative

-----------------------------------------------------------------------------
\* A step of the scan of the current schedd, on the record t.
ScanStepOf(s, t, scan2, arch2) ==
    /\ iloop.pc = "scan" /\ s = Current
    /\ iloop' = [iloop EXCEPT !.scan = scan2]
    /\ iarch' = [iarch EXCEPT ![s] = arch2]
    /\ \/ ipending' = ipending
       \/ /\ arch2 = [iarch[s] EXCEPT ![t.id] = @ + 1] /\ ~PassedBy(isource.kind, icursor[s], t)
          /\ ipending' = Append(ipending, <<s, t.id>>)
    /\ UNCHANGED <<isource, ihist, icursor, ifile, ileft>>

LEMMA ScanStepKeeps ==
    ASSUME ImportInv, NEW s \in Schedds, NEW t, t \in Held(iloop.scan.todo),
           NEW scan2 \in ImportScan, NEW arch2, ScanStepOf(s, t, scan2, arch2),
           Grown(isource.kind, icursor[s], t, iarch[s], arch2),
           ScheddScans(isource.kind, ihist[s], ileft.written[s], icursor[s], ifile[s], arch2, scan2, Spent)
    PROVE  ImportInv'
<1>1. PICK h, w, kind, c, arch, n : /\ h = ihist[s] /\ w = ileft.written[s] /\ kind = isource.kind
                                    /\ c = icursor[s] /\ arch = iarch[s] /\ n = Spent
    OBVIOUS
<1>2. h \in Seq(ImportRecord) /\ w \in Nat /\ w <= MaxHistory /\ kind \in ImportKinds /\ n \in Nat
      /\ c \in ImportCursor /\ arch \in ImportCounts /\ ipending \in Seq(Schedds \X (1..MaxHistory))
      /\ iloop.scan \in ImportScan
    BY <1>1, ImportFacts
<1>3. ImportTypeOK
    BY DEF ImportInv
<1>4. iloop.pc = "scan" /\ s = Current /\ iloop' = [iloop EXCEPT !.scan = scan2]
      /\ iarch' = [iarch EXCEPT ![s] = arch2] /\ UNCHANGED <<isource, ihist, icursor, ifile, ileft>>
    BY DEF ScanStepOf
<1>5. iloop'.pc = "scan" /\ iloop'.queue = iloop.queue /\ iloop'.scan = scan2
    BY <1>3, <1>4 DEF ImportTypeOK
<1>6. Current' = Current /\ Spent' = Spent
    BY <1>4, <1>5 DEF Current, Spent
<1>7. \A q \in Schedds : (ScansNow(q) <=> q = s) /\ (ScansNow(q)' <=> q = s)
    BY <1>4, <1>5, <1>6 DEF ScansNow
<1>8. ScheddOK(kind, h, w, c, ifile[s], arch, ipending, s, n)
    BY <1>1 DEF ImportInv
<1>9. ScheddScans(kind, h, w, c, ifile[s], arch, iloop.scan, n)
    BY <1>1, <1>7 DEF ImportInv
<1>10. TodoRecord(kind, c, t, h, w) /\ t \in ImportRecord
    BY <1>2, <1>9, HeldIn DEF ScheddScans, ScanTodoOK, ImportScan
<1>11. HistOK(h, w)
    BY <1>8 DEF ScheddOK
<1>12. t.id \in 1..w /\ t.id \in 1..MaxHistory
    BY <1>2, <1>10, <1>11, TodoDate, ImportBoundAssumption
<1>13. Grown(kind, c, t, arch, arch2)
    BY <1>1
<1>14. \A i \in 1..MaxHistory : arch[i] \in Int /\ arch2[i] \in Int
    BY <1>2, <1>13 DEF Grown, ImportCounts
<1>15. iarch'[s] = arch2 /\ \A q \in Schedds : q # s => iarch'[q] = iarch[q]
    BY <1>3, <1>4 DEF ImportTypeOK
<1>16. \/ ipending' = ipending
       \/ /\ arch2 = [arch EXCEPT ![t.id] = @ + 1] /\ ~PassedBy(kind, c, t)
          /\ ipending' = Append(ipending, <<s, t.id>>)
    BY <1>1 DEF ScanStepOf
<1>17. ipending' \in Seq(Schedds \X (1..MaxHistory))
    <2>1. <<s, t.id>> \in Schedds \X (1..MaxHistory)
        BY <1>12
    <2>2. Append(ipending, <<s, t.id>>) \in Seq(Schedds \X (1..MaxHistory))
        BY <1>2, <2>1
    <2> QED BY <1>2, <1>16, <2>2
<1>18. ImportTypeOK'
    <2>1. iarch' \in [Schedds -> ImportCounts]
        BY <1>3, <1>4, <1>13 DEF ImportTypeOK, Grown
    <2>2. iloop' \in [pc : {"wait", "next", "scan", "set", "down"}, queue : Seq(Schedds), scan : ImportScan]
        BY <1>3, <1>4 DEF ImportTypeOK
    <2> QED BY <1>3, <1>4, <1>5, <1>17, <2>1, <2>2 DEF ImportTypeOK
<1>19. InTable(kind, c, h, arch2)
    <2>1. \A r \in Held(h) : r.id \in 1..MaxHistory
        BY <1>2, <1>11, HistFacts, ImportBoundAssumption
    <2>2. \A i \in 1..MaxHistory : arch[i] > 0 => arch2[i] > 0
        BY <1>13, <1>14 DEF Grown
    <2> QED BY <1>8, <2>1, <2>2 DEF ScheddOK, InTable
<1>20. CountsOK(arch2, w, n)
    <2>1. arch[t.id] > n => PassedBy(kind, c, t)
        BY <1>9 DEF ScheddScans, ScanCount
    <2>2. ASSUME NEW i \in 1..MaxHistory PROVE (arch2[i] > 0 => i <= w) /\ arch2[i] <= n + 1
        <3>1. (arch[i] > 0 => i <= w) /\ arch[i] <= n + 1
            BY <1>8 DEF ScheddOK, CountsOK
        <3>2. CASE arch2[i] = arch[i]
            BY <3>1, <3>2
        <3>3. CASE arch2[i] # arch[i]
            <4>1. i = t.id /\ arch2 # arch
                BY <1>13, <3>3 DEF Grown
            <4>2. ~PassedBy(kind, c, t) /\ arch2[i] = arch[i] + 1
                BY <1>13, <4>1 DEF Grown
            <4>3. ~(arch[i] > n)
                BY <2>1, <4>1, <4>2
            <4> QED BY <1>2, <1>12, <1>14, <4>1, <4>2, <4>3
        <3> QED BY <3>2, <3>3
    <2> QED BY <2>2 DEF CountsOK
<1>21. ASSUME NEW q \in Schedds, Unflushed(kind, icursor[q], ihist[q], ileft.written[q], ipending, q)
       PROVE  Unflushed(kind, icursor[q], ihist[q], ileft.written[q], ipending', q)
    <2>1. CASE ipending' = ipending
        BY <1>21, <2>1
    <2>2. CASE ~PassedBy(kind, c, t) /\ ipending' = Append(ipending, <<s, t.id>>)
        <3>1. Len(ipending') = Len(ipending) + 1 /\ ipending'[Len(ipending) + 1] = <<s, t.id>>
              /\ Len(ipending) \in Nat /\ \A p \in 1..Len(ipending) : ipending'[p] = ipending[p]
            BY <1>2, <2>2
        <3>2. ASSUME NEW p \in 1..Len(ipending'), ipending'[p][1] = q
              PROVE  /\ ipending'[p][2] <= ileft.written[q]
                     /\ \A r \in Held(ihist[q]) : r.id = ipending'[p][2] => ~PassedBy(kind, icursor[q], r)
            <4>1. CASE p \in 1..Len(ipending)
                BY <1>21, <3>1, <3>2, <4>1 DEF Unflushed
            <4>2. CASE p = Len(ipending) + 1
                <5>1. q = s /\ ipending'[p][2] = t.id
                    BY <3>1, <3>2, <4>2
                <5>2. \A r \in Held(h) : r.id = t.id => r = t
                    BY <1>10 DEF TodoRecord
                <5> QED BY <1>1, <1>12, <2>2, <5>1, <5>2
            <4> QED BY <3>1, <4>1, <4>2
        <3> QED BY <3>2 DEF Unflushed
    <2> QED BY <1>16, <2>1, <2>2
<1>22. ASSUME NEW q \in Schedds
       PROVE  ScheddOK(kind, ihist[q], ileft.written[q], icursor[q], ifile[q], iarch'[q], ipending', q, n)
    <2>1. ScheddOK(kind, ihist[q], ileft.written[q], icursor[q], ifile[q], iarch[q], ipending, q, n)
        BY <1>1 DEF ImportInv
    <2>2. Unflushed(kind, icursor[q], ihist[q], ileft.written[q], ipending', q)
        BY <1>21, <2>1 DEF ScheddOK
    <2>3. CASE q = s
        BY <1>1, <1>15, <1>19, <1>20, <2>1, <2>2, <2>3 DEF ScheddOK
    <2>4. CASE q # s
        BY <1>15, <2>1, <2>2, <2>4 DEF ScheddOK
    <2> QED BY <2>3, <2>4
<1>23. ASSUME NEW q \in Schedds, q # s
       PROVE  ScheddRests(kind, ihist[q], icursor[q], ifile[q], iarch'[q], n)
    BY <1>1, <1>7, <1>15, <1>23 DEF ImportInv
<1>24. ASSUME NEW q \in Schedds, NEW i \in 1..MaxHistory
       PROVE  iarch'[q][i] >= Cardinality(Losable(ipending', q, i))
    <2>1. iarch[q][i] >= Cardinality(Losable(ipending, q, i)) /\ iarch[q][i] \in Int
        BY CountsFacts DEF ImportInv
    <2>2. iarch'[q][i] >= iarch[q][i] /\ iarch'[q][i] \in Int
        BY <1>1, <1>13, <1>14, <1>15, <2>1 DEF Grown
    <2>3. Cardinality(Losable(ipending, q, i)) \in Nat
        BY <1>2, LosableAppend
    <2>4. CASE ipending' = ipending
        BY <2>1, <2>2, <2>3, <2>4
    <2>5. CASE arch2 = [arch EXCEPT ![t.id] = @ + 1] /\ ipending' = Append(ipending, <<s, t.id>>)
        <3>1. Cardinality(Losable(Append(ipending, <<s, t.id>>), q, i)) =
                  Cardinality(Losable(ipending, q, i)) + (IF s = q /\ t.id = i THEN 1 ELSE 0)
            <4>1. \A a \in Schedds, j \in 1..MaxHistory :
                    Cardinality(Losable(Append(ipending, <<a, j>>), q, i)) =
                        Cardinality(Losable(ipending, q, i)) + (IF a = q /\ j = i THEN 1 ELSE 0)
                BY <1>2, LosableAppend, ZenonT(30)
            <4> QED BY <1>12, <4>1
        <3>2. CASE s = q /\ t.id = i
            <4>1. arch2[i] = arch[i] + 1
                BY <1>2, <2>5, <3>2 DEF ImportCounts
            <4>2. iarch'[q][i] = iarch[q][i] + 1
                BY <1>1, <1>15, <3>2, <4>1
            <4> QED BY <2>1, <2>3, <2>5, <3>1, <3>2, <4>2
        <3>3. CASE ~(s = q /\ t.id = i)
            BY <2>1, <2>2, <2>3, <2>5, <3>1, <3>3
        <3> QED BY <3>2, <3>3
    <2> QED BY <1>16, <2>4, <2>5
<1>25. ScheddScans(kind, h, w, c, ifile[s], arch2, scan2, n)
    BY <1>1
<1>26. ScheddScans(kind, ihist[s], ileft.written[s], icursor[s], ifile[s], iarch'[s], iloop'.scan, n)
    BY <1>1, <1>5, <1>15, <1>25
<1>27. iloop'.pc # "set" /\ iloop'.pc # "down"
    BY <1>5
<1> QED BY <1>1, <1>4, <1>6, <1>7, <1>18, <1>22, <1>23, <1>24, <1>26, <1>27 DEF ImportInv

LEMMA BeginScheddKeeps == ASSUME ImportInv, BeginSchedd PROVE ImportInv'
<1>1. ImportTypeOK
    BY DEF ImportInv
<1>2. iloop.pc = "next" /\ iloop.queue # <<>> /\ UNCHANGED <<isource, ihist, icursor, ifile, iarch, ipending, ileft>>
    BY DEF BeginSchedd
<1>3. PICK s : s = Current
    OBVIOUS
<1>4. s \in Schedds
    <2>1. \A q \in Seq(Schedds) : q # <<>> => Head(q) \in Schedds
        OBVIOUS
    <2> QED BY <1>2, <1>3, <2>1, ImportFacts DEF Current
<1>5. PICK h, w, kind, c : h = ihist[s] /\ w = ileft.written[s] /\ kind = isource.kind /\ c = icursor[s]
    OBVIOUS
<1>6. h \in Seq(ImportRecord) /\ w \in Nat /\ kind \in ImportKinds /\ c \in ImportCursor /\ ifile[s] \in ImportCursor
    BY <1>4, <1>5, ImportFacts
<1>7. HistOK(h, w) /\ CursorOK(kind, c, h, w)
    BY <1>4, <1>5 DEF ImportInv, ScheddOK
<1>8. PICK undone : undone = Newest(h, c)
    OBVIOUS
<1>9. /\ undone \in Seq(ImportRecord) /\ \A j \in 1..Len(undone) : undone[j].id = w + 1 - j
      /\ Held(undone) = {r \in Held(h) : NewTo(kind, c, r)}
    BY <1>5, <1>6, <1>7, <1>8, NewestIs
<1>10. PICK scan : scan = [todo |-> undone, dedup |-> kind = "history" /\ c.at = 0,
                           at |-> IF kind = "history" THEN 0 ELSE c.at, keys |-> {}, saw |-> FALSE]
    OBVIOUS
<1>11. scan \in ImportScan
    <2>1. c.at \in Nat
        BY <1>6 DEF ImportCursor
    <2>2. (IF kind = "history" THEN 0 ELSE c.at) \in Nat /\ (kind = "history" /\ c.at = 0) \in BOOLEAN
        BY <2>1
    <2> QED BY <1>9, <1>10, <2>2 DEF ImportScan
<1>12. iloop' = [iloop EXCEPT !.pc = "scan", !.scan = scan]
    BY <1>3, <1>5, <1>8, <1>10 DEF BeginSchedd
<1>13. iloop'.pc = "scan" /\ iloop'.queue = iloop.queue /\ iloop'.scan = scan
    BY <1>1, <1>12 DEF ImportTypeOK
<1>14. \A q \in Schedds : ~ScansNow(q) /\ (ScansNow(q)' <=> q = s)
    BY <1>2, <1>3, <1>13 DEF ScansNow, Current
<1>15. ScheddRests(kind, h, c, ifile[s], iarch[s], Spent)
    BY <1>4, <1>5, <1>14 DEF ImportInv
<1>16. ScheddScans(kind, h, w, c, ifile[s], iarch[s], scan, Spent)
    <2>1. scan.todo = undone /\ (scan.dedup <=> (kind = "history" /\ c.at = 0))
          /\ scan.at = (IF kind = "history" THEN 0 ELSE c.at) /\ scan.keys = {} /\ scan.saw = FALSE
        BY <1>10
    <2> QED BY <1>6, <1>7, <1>9, <1>11, <1>15, <2>1, ScanBegins
<1>17. ImportTypeOK'
    <2>1. iloop' \in [pc : {"wait", "next", "scan", "set", "down"}, queue : Seq(Schedds), scan : ImportScan]
        BY <1>1, <1>11, <1>12 DEF ImportTypeOK
    <2> QED BY <1>1, <1>2, <1>13, <2>1 DEF ImportTypeOK
<1>18. Spent' = Spent
    BY <1>2 DEF Spent
<1> QED BY <1>2, <1>5, <1>13, <1>14, <1>16, <1>17, <1>18 DEF ImportInv

LEMMA ScanFacts ==
    ASSUME ImportInv, iloop.pc = "scan", iloop.scan.todo # <<>>
    PROVE  /\ Current \in Schedds /\ iloop.scan.todo \in Seq(ImportRecord)
           /\ Head(iloop.scan.todo) \in Held(iloop.scan.todo) /\ Head(iloop.scan.todo) \in ImportRecord
           /\ ScheddOK(isource.kind, ihist[Current], ileft.written[Current], icursor[Current],
                       ifile[Current], iarch[Current], ipending, Current, Spent)
           /\ ScheddScans(isource.kind, ihist[Current], ileft.written[Current], icursor[Current],
                          ifile[Current], iarch[Current], iloop.scan, Spent)
           /\ TodoRecord(isource.kind, icursor[Current], Head(iloop.scan.todo), ihist[Current],
                         ileft.written[Current])
           /\ Head(iloop.scan.todo).id \in 1..MaxHistory
<1>1. PICK s, t, undone : s = Current /\ undone = iloop.scan.todo /\ t = Head(undone)
    OBVIOUS
<1>2. s \in Schedds /\ undone \in Seq(ImportRecord) /\ undone # <<>>
    BY <1>1, ImportFacts DEF ImportScan
<1>3. t \in Held(undone) /\ t \in ImportRecord
    BY <1>1, <1>2, HeldTail, HeldIn
<1>4. ScheddOK(isource.kind, ihist[s], ileft.written[s], icursor[s], ifile[s], iarch[s], ipending, s, Spent)
    BY <1>2 DEF ImportInv
<1>5. ScheddScans(isource.kind, ihist[s], ileft.written[s], icursor[s], ifile[s], iarch[s], iloop.scan, Spent)
    BY <1>1, <1>2 DEF ImportInv, ScansNow
<1>6. TodoRecord(isource.kind, icursor[s], t, ihist[s], ileft.written[s])
    BY <1>1, <1>3, <1>5 DEF ScheddScans, ScanTodoOK
<1>7. t.id \in 1..MaxHistory
    <2>1. ihist[s] \in Seq(ImportRecord) /\ ileft.written[s] \in Nat /\ ileft.written[s] <= MaxHistory
        BY <1>2, ImportFacts
    <2>2. HistOK(ihist[s], ileft.written[s])
        BY <1>4 DEF ScheddOK
    <2>3. t.id \in 1..ileft.written[s]
        BY <1>3, <1>6, <2>1, <2>2, TodoDate
    <2> QED BY <2>1, <2>3, ImportBoundAssumption
<1> QED BY <1>1, <1>2, <1>3, <1>4, <1>5, <1>6, <1>7

\* What an append, or none, makes of the table and of what a crash may lose.
TableStepOf(s, t, arch2) ==
    /\ TakenInto(isource.kind, icursor[s], t, iarch[s], arch2)
    /\ iarch' = [iarch EXCEPT ![s] = arch2]
    /\ \/ ipending' = ipending
       \/ /\ arch2 = [iarch[s] EXCEPT ![t.id] = @ + 1] /\ ~PassedBy(isource.kind, icursor[s], t)
          /\ ipending' = Append(ipending, <<s, t.id>>)

LEMMA SkipTakes ==
    ASSUME ImportInv, NEW s \in Schedds, NEW t, UNCHANGED <<iarch, ipending>>,
           t.kind # "ok" \/ PassedBy(isource.kind, icursor[s], t)
    PROVE  TableStepOf(s, t, iarch[s])
<1>1. iarch \in [Schedds -> ImportCounts]
    BY DEF ImportInv, ImportTypeOK
<1>2. iarch' = [iarch EXCEPT ![s] = iarch[s]]
    BY <1>1
<1>3. ipending' = ipending
    OBVIOUS
<1> QED BY <1>2, <1>3 DEF TableStepOf, TakenInto

LEMMA AppendTakes ==
    ASSUME ImportInv, NEW s \in Schedds, s = Current, NEW t, t.id \in 1..MaxHistory, Appends(t),
           ~PassedBy(isource.kind, icursor[s], t)
    PROVE  \E arch2 : TableStepOf(s, t, arch2) /\ (t.kind = "deep" => arch2 = iarch[s])
<1>1. CASE t.kind = "deep"
    <2>1. UNCHANGED <<iarch, ipending>>
        BY <1>1 DEF Appends
    <2>2. TableStepOf(s, t, iarch[s])
        BY <1>1, <2>1, SkipTakes
    <2> QED BY <2>2
<1>2. CASE t.kind # "deep"
    <2>1. PICK arch2 : arch2 = [iarch[s] EXCEPT ![t.id] = @ + 1]
        OBVIOUS
    <2>2. iarch' = [iarch EXCEPT ![s] = arch2]
        BY <1>2, <2>1 DEF Appends
    <2>3. ipending' = ipending \/ ipending' = Append(ipending, <<s, t.id>>)
        BY <1>2 DEF Appends
    <2>4. TableStepOf(s, t, arch2)
        BY <2>1, <2>2, <2>3 DEF TableStepOf, TakenInto
    <2> QED BY <1>2, <2>4
<1> QED BY <1>1, <1>2

LEMMA YieldJobKeeps == ASSUME ImportInv, YieldJob PROVE ImportInv'
<1>1. ImportTypeOK
    BY DEF ImportInv
<1>2. PICK scan, s : scan = iloop.scan /\ s = Current
    OBVIOUS
<1>3. PICK t : t = Head(scan.todo)
    OBVIOUS
<1>4. PICK held : held = (t.kind # "other" /\ scan.dedup /\ iarch[s][t.id] > 0)
    OBVIOUS
<1>5. /\ iloop.pc = "scan" /\ scan.todo # <<>> /\ isource.kind = "history"
      /\ UNCHANGED <<isource, ihist, icursor, ifile, ileft>>
    BY <1>2, SMTT(30) DEF YieldJob
<1>6. iloop' = [iloop EXCEPT !.scan.todo = IF held THEN <<>> ELSE Tail(@),
                         !.scan.at = IF t.kind # "other" /\ @ = 0 THEN t.id ELSE @,
                         !.scan.saw = @ \/ t.kind # "other"]
    BY <1>2, <1>3, <1>4, ZenonT(30) DEF YieldJob, ArchiveHas
<1>7. IF held \/ t.kind = "other" THEN UNCHANGED <<iarch, ipending>> ELSE Appends(t)
    BY <1>2, <1>3, <1>4 DEF YieldJob, ArchiveHas
<1>8. PICK h, w, kind, c, f, arch, n :
        /\ h = ihist[s] /\ w = ileft.written[s] /\ kind = isource.kind /\ c = icursor[s]
        /\ f = ifile[s] /\ arch = iarch[s] /\ n = Spent
    OBVIOUS
<1>9. /\ s \in Schedds /\ scan.todo \in Seq(ImportRecord) /\ t \in Held(scan.todo) /\ t \in ImportRecord
      /\ ScheddOK(kind, h, w, c, f, arch, ipending, s, n) /\ ScheddScans(kind, h, w, c, f, arch, scan, n)
      /\ TodoRecord(kind, c, t, h, w) /\ t.id \in 1..MaxHistory
    BY <1>2, <1>3, <1>5, <1>8, ScanFacts
<1>10. /\ h \in Seq(ImportRecord) /\ w \in Nat /\ w <= MaxHistory /\ kind \in ImportKinds /\ n \in Nat
       /\ c \in ImportCursor /\ f \in ImportCursor /\ arch \in ImportCounts /\ scan \in ImportScan
       /\ NoneNegative(arch)
    BY <1>2, <1>8, <1>9, ImportFacts, CountsFacts
<1>11. HistOK(h, w) /\ CursorOK(kind, c, h, w) /\ InTable(kind, c, h, arch) /\ CursorsInOrder(kind, f, c, h)
    BY <1>9 DEF ScheddOK
<1>12. PICK scan2 : scan2 = [scan EXCEPT !.todo = IF held THEN <<>> ELSE Tail(@),
                         !.at = IF t.kind # "other" /\ @ = 0 THEN t.id ELSE @,
                         !.saw = @ \/ t.kind # "other"]
    OBVIOUS
<1>13. iloop' = [iloop EXCEPT !.scan = scan2]
    BY <1>1, <1>2, <1>6, <1>12 DEF ImportTypeOK
<1>14. /\ scan2.todo = (IF held THEN <<>> ELSE Tail(scan.todo)) /\ scan2.dedup = scan.dedup
       /\ scan2.at = (IF t.kind # "other" /\ scan.at = 0 THEN t.id ELSE scan.at)
       /\ scan2.keys = scan.keys /\ scan2.saw = (scan.saw \/ t.kind # "other")
    BY <1>10, <1>12 DEF ImportScan
<1>15. scan2 \in ImportScan
    <2>1. Tail(scan.todo) \in Seq(ImportRecord) /\ <<>> \in Seq(ImportRecord)
        BY <1>5, <1>9
    <2>2. t.id \in Nat
        BY <1>9, RecordType
    <2>3. (IF held THEN <<>> ELSE Tail(scan.todo)) \in Seq(ImportRecord)
        BY <2>1
    <2>4. (IF t.kind # "other" /\ scan.at = 0 THEN t.id ELSE scan.at) \in Nat
        BY <1>10, <2>2 DEF ImportScan
    <2>5. (scan.saw \/ t.kind # "other") \in BOOLEAN
        OBVIOUS
    <2> QED BY <1>10, <1>12, <2>3, <2>4, <2>5 DEF ImportScan
<1>16. ~PassedBy(kind, c, t)
    <2>1. c.at \in Nat /\ t.id \in Nat /\ t.id > c.at
        BY <1>5, <1>8, <1>9, <1>10, RecordType DEF ImportCursor, TodoRecord, NewTo
    <2> QED BY <1>5, <1>8, <2>1 DEF PassedBy
<1>17. t.kind # "other" => AdvancedBy(kind, ScanCursor(scan), t, ScanCursor(scan2)) /\ scan2.saw
    BY <1>5, <1>8, <1>14 DEF AdvancedBy, ScanCursor
<1>18. t.kind = "other" => ScanCursor(scan2) = ScanCursor(scan) /\ scan2.saw = scan.saw
    <2>1. scan.saw \in BOOLEAN
        BY <1>10 DEF ImportScan
    <2> QED BY <1>14, <2>1 DEF ScanCursor
<1>19. CASE held
    <2>1. t.kind # "other" /\ scan.dedup /\ arch[t.id] > 0
        BY <1>4, <1>8, <1>19
    <2>2. iarch' = [iarch EXCEPT ![s] = arch] /\ ipending' = ipending
        <3>1. UNCHANGED <<iarch, ipending>>
            BY <1>7, <1>19
        <3> QED BY <1>1, <1>8, <1>9, <3>1 DEF ImportTypeOK
    <2>3. FirstScan(kind, c, f)
        <3>1. scan.dedup <=> (kind = "history" /\ c.at = 0)
            BY <1>9 DEF ScheddScans, ScanOK
        <3>2. f.at <= c.at /\ f.at \in Nat
            BY <1>5, <1>8, <1>10, <1>11 DEF CursorsInOrder, ImportCursor
        <3> QED BY <2>1, <3>1, <3>2 DEF FirstScan
    <2>4. ScheddScans(kind, h, w, c, f, arch, scan2, n)
        <3>1. scan2.todo = <<>> /\ scan2.dedup = scan.dedup
            BY <1>14, <1>19
        <3> QED BY <1>3, <1>5, <1>9, <1>10, <1>11, <1>15, <1>17, <2>1, <2>3, <3>1, ScanStops
    <2>5. ScanStepOf(s, t, scan2, arch)
        BY <1>2, <1>5, <1>13, <2>2 DEF ScanStepOf
    <2>6. Grown(kind, c, t, arch, arch)
        BY <1>9, <1>10, <2>1 DEF Grown, ImportCounts
    <2> QED BY <1>2, <1>8, <1>9, <1>15, <2>4, <2>5, <2>6, ScanStepKeeps
<1>20. CASE ~held
    <2>1. PICK arch2 : TableStepOf(s, t, arch2) /\ (t.kind = "other" => arch2 = iarch[s])
        <3>1. CASE t.kind = "other"
            BY <1>7, <1>9, <3>1, SkipTakes
        <3>2. CASE t.kind # "other"
            <4>1. Appends(t)
                BY <1>7, <1>20, <3>2
            <4>2. \E arch2 : TableStepOf(s, t, arch2) /\ (t.kind = "deep" => arch2 = iarch[s])
                BY <1>2, <1>8, <1>9, <1>16, <4>1, AppendTakes
            <4> QED BY <3>2, <4>2
        <3> QED BY <3>1, <3>2
    <2>2. TakenInto(kind, c, t, arch, arch2)
        BY <1>8, <2>1 DEF TableStepOf
    <2>3. Grown(kind, c, t, arch, arch2)
        BY <1>9, <1>10, <2>2, TableGrows
    <2>4. scan2.todo = Tail(scan.todo) /\ scan2.dedup = scan.dedup
        BY <1>14, <1>20
    <2>5. \/ t.kind = "other" /\ ScanCursor(scan2) = ScanCursor(scan) /\ scan2.saw = scan.saw /\ arch2 = arch
          \/ t.kind # "other" /\ AdvancedBy(kind, ScanCursor(scan), t, ScanCursor(scan2)) /\ scan2.saw
        BY <1>8, <1>17, <1>18, <2>1
    <2>6. ScheddScans(kind, h, w, c, f, arch2, scan2, n)
        BY <1>3, <1>5, <1>9, <1>10, <1>11, <1>15, <2>2, <2>4, <2>5, ScanTakes
    <2>7. ScanStepOf(s, t, scan2, arch2)
        BY <1>2, <1>5, <1>13, <2>1 DEF ScanStepOf, TableStepOf
    <2> QED BY <1>2, <1>8, <1>9, <1>15, <2>3, <2>6, <2>7, ScanStepKeeps
<1> QED BY <1>19, <1>20

LEMMA YieldEpochKeeps == ASSUME ImportInv, YieldEpoch PROVE ImportInv'
<1>1. ImportTypeOK
    BY DEF ImportInv
<1>2. PICK scan, s : scan = iloop.scan /\ s = Current
    OBVIOUS
<1>3. PICK t : t = Head(scan.todo)
    OBVIOUS
<1>4. PICK scan2 : scan2 =
                IF t.kind = "other" THEN [scan EXCEPT !.todo = Tail(@)]
                ELSE [scan EXCEPT !.todo = Tail(@), !.saw = TRUE,
                         !.at = IF t.date > @ THEN t.date ELSE @,
                         !.keys = IF t.date > scan.at THEN {t.id}
                                  ELSE IF t.date = scan.at THEN @ \cup {t.id} ELSE @]
    OBVIOUS
<1>5. /\ iloop.pc = "scan" /\ scan.todo # <<>> /\ isource.kind = "epoch"
      /\ iloop' = [iloop EXCEPT !.scan = scan2]
      /\ UNCHANGED <<isource, ihist, icursor, ifile, ileft>>
    BY <1>2, <1>3, <1>4 DEF YieldEpoch
<1>6. IF t.kind = "other" \/ Imported(icursor[s], t) THEN UNCHANGED <<iarch, ipending>> ELSE Appends(t)
    BY <1>2, <1>3 DEF YieldEpoch
<1>7. PICK h, w, kind, c, f, arch, n :
        /\ h = ihist[s] /\ w = ileft.written[s] /\ kind = isource.kind /\ c = icursor[s]
        /\ f = ifile[s] /\ arch = iarch[s] /\ n = Spent
    OBVIOUS
<1>8. /\ s \in Schedds /\ scan.todo \in Seq(ImportRecord) /\ t \in Held(scan.todo) /\ t \in ImportRecord
      /\ ScheddOK(kind, h, w, c, f, arch, ipending, s, n) /\ ScheddScans(kind, h, w, c, f, arch, scan, n)
      /\ TodoRecord(kind, c, t, h, w) /\ t.id \in 1..MaxHistory
    BY <1>2, <1>3, <1>5, <1>7, ScanFacts
<1>9. /\ h \in Seq(ImportRecord) /\ w \in Nat /\ w <= MaxHistory /\ kind \in ImportKinds /\ n \in Nat
      /\ c \in ImportCursor /\ f \in ImportCursor /\ arch \in ImportCounts /\ scan \in ImportScan
      /\ NoneNegative(arch)
    BY <1>2, <1>7, <1>8, ImportFacts, CountsFacts
<1>10. HistOK(h, w) /\ CursorOK(kind, c, h, w) /\ InTable(kind, c, h, arch)
    BY <1>8 DEF ScheddOK
<1>11. t.id \in Nat /\ t.date \in Nat
    BY <1>8, RecordType
<1>12. scan2 \in ImportScan /\ scan2.todo = Tail(scan.todo) /\ scan2.dedup = scan.dedup
       /\ (t.kind = "other" => scan2.at = scan.at /\ scan2.keys = scan.keys /\ scan2.saw = scan.saw)
       /\ (t.kind # "other" =>
             /\ scan2.at = IF t.date > scan.at THEN t.date ELSE scan.at
             /\ scan2.keys = IF t.date > scan.at THEN {t.id}
                             ELSE IF t.date = scan.at THEN scan.keys \cup {t.id} ELSE scan.keys
             /\ scan2.saw = TRUE)
    <2>1. Tail(scan.todo) \in Seq(ImportRecord)
        BY <1>5, <1>8
    <2>2. CASE t.kind = "other"
        BY <1>4, <1>9, <2>1, <2>2 DEF ImportScan
    <2>3. CASE t.kind # "other"
        <3>1. PICK at2 : at2 = IF t.date > scan.at THEN t.date ELSE scan.at
            OBVIOUS
        <3>2. PICK keys2 : keys2 = IF t.date > scan.at THEN {t.id}
                                   ELSE IF t.date = scan.at THEN scan.keys \cup {t.id} ELSE scan.keys
            OBVIOUS
        <3>3. at2 \in Nat /\ keys2 \in SUBSET Nat
            BY <1>9, <1>11, <3>1, <3>2 DEF ImportScan
        <3>4. scan2 = [scan EXCEPT !.todo = Tail(scan.todo), !.saw = TRUE, !.at = at2, !.keys = keys2]
            BY <1>4, <1>9, <2>3, <3>1, <3>2 DEF ImportScan
        <3>5. scan2 \in ImportScan /\ scan2.todo = Tail(scan.todo) /\ scan2.dedup = scan.dedup
              /\ scan2.at = at2 /\ scan2.keys = keys2 /\ scan2.saw = TRUE
            BY <1>9, <2>1, <3>3, <3>4 DEF ImportScan
        <3> QED BY <2>3, <3>1, <3>2, <3>5
    <2> QED BY <2>2, <2>3
<1>13. Imported(c, t) <=> PassedBy(kind, c, t)
    <2>1. t.date >= c.at /\ c.at \in Nat /\ (t.id \in c.keys => t.date = c.at)
        BY <1>5, <1>7, <1>8, <1>9 DEF TodoRecord, NewTo, KeyFor, ImportCursor
    <2> QED BY <1>5, <1>7, <1>11, <2>1 DEF Imported, PassedBy
<1>14. \/ t.kind = "other" /\ ScanCursor(scan2) = ScanCursor(scan) /\ scan2.saw = scan.saw
       \/ t.kind # "other" /\ AdvancedBy(kind, ScanCursor(scan), t, ScanCursor(scan2)) /\ scan2.saw
    <2>1. CASE t.kind = "other"
        BY <1>12, <2>1 DEF ScanCursor
    <2>2. CASE t.kind # "other"
        <3>1. AdvancedBy(kind, ScanCursor(scan), t, ScanCursor(scan2))
            BY <1>5, <1>7, <1>12, <2>2 DEF ScanCursor, AdvancedBy
        <3> QED BY <1>12, <2>2, <3>1
    <2> QED BY <2>1, <2>2
<1>15. PICK arch2 : TableStepOf(s, t, arch2) /\ (t.kind = "other" => arch2 = iarch[s])
    <2>1. CASE t.kind = "other" \/ PassedBy(kind, c, t)
        <3>1. UNCHANGED <<iarch, ipending>>
            BY <1>6, <1>7, <1>13, <2>1
        <3>2. t.kind # "ok" \/ PassedBy(isource.kind, icursor[s], t)
            BY <1>7, <2>1
        <3>3. TableStepOf(s, t, iarch[s])
            BY <1>8, <3>1, <3>2, SkipTakes
        <3> QED BY <3>3
    <2>2. CASE t.kind # "other" /\ ~PassedBy(kind, c, t)
        <3>1. Appends(t)
            BY <1>6, <1>7, <1>13, <2>2
        <3>2. \E arch2 : TableStepOf(s, t, arch2) /\ (t.kind = "deep" => arch2 = iarch[s])
            BY <1>2, <1>7, <1>8, <2>2, <3>1, AppendTakes
        <3> QED BY <2>2, <3>2
    <2> QED BY <2>1, <2>2
<1>16. TakenInto(kind, c, t, arch, arch2)
    BY <1>7, <1>15 DEF TableStepOf
<1>17. Grown(kind, c, t, arch, arch2)
    BY <1>8, <1>9, <1>16, TableGrows
<1>18. ScheddScans(kind, h, w, c, f, arch2, scan2, n)
    <2>1. \/ t.kind = "other" /\ ScanCursor(scan2) = ScanCursor(scan) /\ scan2.saw = scan.saw /\ arch2 = arch
          \/ t.kind # "other" /\ AdvancedBy(kind, ScanCursor(scan), t, ScanCursor(scan2)) /\ scan2.saw
        BY <1>7, <1>14, <1>15
    <2> QED BY <1>3, <1>5, <1>8, <1>9, <1>10, <1>12, <1>16, <2>1, ScanTakes
<1>19. ScanStepOf(s, t, scan2, arch2)
    BY <1>2, <1>5, <1>15 DEF ScanStepOf, TableStepOf
<1> QED BY <1>2, <1>7, <1>8, <1>12, <1>17, <1>18, <1>19, ScanStepKeeps

\* Steps between the scans.
LEMMA ListOfFound ==
    ASSUME NEW found \in SUBSET Schedds PROVE SetToSeq(found) \in Seq(Schedds)
<1>1. IsFiniteSet(found)
    BY ScheddsAssumption, FS_Subset
<1>2. Cardinality(found) \in Nat /\ \E g : g \in Bijection(1..Cardinality(found), found)
    BY <1>1, FS_NatBijection, FS_CountingElements, FS_CardinalityType DEF ExistsBijection
<1>3. PICK g : g \in Bijection(1..Cardinality(found), found)
    BY <1>2
<1>4. g \in [1..Cardinality(found) -> found] /\ IsInjective(g)
    BY <1>3 DEF Bijection, Injection, IsInjective
<1>5. SetToSeq(found) \in [1..Cardinality(found) -> found]
    BY <1>4 DEF SetToSeq
<1>6. SetToSeq(found) \in Seq(found)
    BY <1>2, <1>5
<1> QED BY <1>6

LEMMA RunJobKeeps == ASSUME ImportInv, RunJob PROVE ImportInv'
<1>1. ImportTypeOK
    BY DEF ImportInv
<1>2. iloop.pc = "wait" /\ ileft' = [ileft EXCEPT !.cycle = @ - 1]
      /\ UNCHANGED <<isource, ihist, icursor, ifile, iarch, ipending>>
    BY DEF RunJob
<1>3. PICK found \in SUBSET Schedds : iloop' = [iloop EXCEPT !.pc = "next", !.queue = SetToSeq(found)]
    BY DEF RunJob
<1>4. PICK queue \in Seq(Schedds) : iloop' = [iloop EXCEPT !.pc = "next", !.queue = queue]
    BY <1>3, ListOfFound
<1>5. iloop'.pc = "next" /\ iloop' \in [pc : {"wait", "next", "scan", "set", "down"}, queue : Seq(Schedds), scan : ImportScan]
    BY <1>1, <1>4 DEF ImportTypeOK
<1>6. ileft' \in [cycle : Int, fault : Int, written : [Schedds -> 0..MaxHistory]]
      /\ ileft'.fault = ileft.fault /\ ileft'.written = ileft.written
    <2>1. ileft \in [cycle : Int, fault : Int, written : [Schedds -> 0..MaxHistory]]
        BY <1>1 DEF ImportTypeOK
    <2>2. ileft.cycle - 1 \in Int
        BY <2>1
    <2> QED BY <1>2, <2>1, <2>2
<1>7. ImportTypeOK'
    BY <1>1, <1>2, <1>5, <1>6 DEF ImportTypeOK
<1>8. \A s \in Schedds : ~ScansNow(s) /\ ~ScansNow(s)'
    BY <1>2, <1>5 DEF ScansNow
<1>9. Spent' = Spent
    BY <1>6 DEF Spent
<1> QED BY <1>2, <1>5, <1>6, <1>7, <1>8, <1>9 DEF ImportInv

LEMMA CycleEndsKeeps == ASSUME ImportInv, CycleEnds PROVE ImportInv'
<1>1. ImportTypeOK
    BY DEF ImportInv
<1>2. iloop.pc = "next" /\ iloop' = IdleLoop
      /\ UNCHANGED <<isource, ihist, icursor, ifile, iarch, ipending, ileft>>
    BY DEF CycleEnds
<1>3. iloop'.pc = "wait" /\ iloop' \in [pc : {"wait", "next", "scan", "set", "down"}, queue : Seq(Schedds), scan : ImportScan]
    BY <1>2 DEF IdleLoop, NoScan, ImportScan
<1>4. ImportTypeOK'
    BY <1>1, <1>2, <1>3 DEF ImportTypeOK
<1>5. \A s \in Schedds : ~ScansNow(s) /\ ~ScansNow(s)'
    BY <1>2, <1>3 DEF ScansNow
<1>6. Spent' = Spent
    BY <1>2 DEF Spent
<1> QED BY <1>2, <1>3, <1>4, <1>5, <1>6 DEF ImportInv

\* The scan of a schedd that ends, with or without a cursor to store.
LEMMA FlushScheddKeeps == ASSUME ImportInv, FlushSchedd PROVE ImportInv'
<1>1. ImportTypeOK
    BY DEF ImportInv
<1>2. iloop.pc = "scan" /\ iloop.scan.todo = <<>> /\ UNCHANGED <<isource, ihist, icursor, ifile, iarch, ileft>>
    BY DEF FlushSchedd
<1>3. PICK s : s = Current
    OBVIOUS
<1>4. s \in Schedds /\ iloop.queue \in Seq(Schedds) /\ iloop.queue # <<>>
    BY <1>1, <1>2, <1>3, ImportFacts DEF ImportTypeOK
<1>5. \A q \in Schedds : ScansNow(q) <=> q = s
    BY <1>2, <1>3 DEF ScansNow
<1>6. Spent' = Spent
    BY <1>2 DEF Spent
<1>7. CASE iloop.scan.saw
    <2>1. ipending' = <<>> /\ iloop' = [iloop EXCEPT !.pc = "set"]
        BY <1>7 DEF FlushSchedd, FlushLeaves
    <2>2. iloop'.pc = "set" /\ iloop'.queue = iloop.queue /\ iloop'.scan = iloop.scan
        BY <1>1, <2>1 DEF ImportTypeOK
    <2>3. ImportTypeOK'
        <3>1. iloop' \in [pc : {"wait", "next", "scan", "set", "down"}, queue : Seq(Schedds), scan : ImportScan]
            BY <1>1, <2>1 DEF ImportTypeOK
        <3>2. ipending' \in Seq(Schedds \X (1..MaxHistory))
            BY <2>1
        <3> QED BY <1>1, <1>2, <2>2, <1>4, <3>1, <3>2 DEF ImportTypeOK
    <2>4. \A q \in Schedds : ScansNow(q)' <=> ScansNow(q)
        BY <1>2, <2>2 DEF ScansNow, Current
    <2>5. ASSUME NEW q \in Schedds
          PROVE  ScheddOK(isource.kind, ihist[q], ileft.written[q], icursor[q], ifile[q], iarch[q], <<>>, q, Spent)
        BY DEF ImportInv, ScheddOK, Unflushed
    <2>6. ASSUME NEW q \in Schedds, NEW i \in 1..MaxHistory
          PROVE  iarch[q][i] >= Cardinality(Losable(<<>>, q, i))
        <3>1. Losable(<<>>, q, i) = {}
            BY DEF Losable
        <3>2. Cardinality(Losable(<<>>, q, i)) = 0
            BY <3>1, FS_EmptySet
        <3> QED BY <3>2, CountsFacts DEF NoneNegative
    <2> QED BY <1>2, <1>6, <1>7, <2>1, <2>2, <2>3, <2>4, <2>5, <2>6 DEF ImportInv
<1>8. CASE ~iloop.scan.saw
    <2>1. ipending' = ipending /\ iloop' = [iloop EXCEPT !.pc = "next", !.queue = Tail(@), !.scan = NoScan]
        BY <1>8 DEF FlushSchedd
    <2>2. iloop'.pc = "next"
        BY <1>1, <2>1 DEF ImportTypeOK
    <2>3. ImportTypeOK'
        <3>1. Tail(iloop.queue) \in Seq(Schedds) /\ NoScan \in ImportScan
            BY <1>4 DEF NoScan, ImportScan
        <3>2. iloop' \in [pc : {"wait", "next", "scan", "set", "down"}, queue : Seq(Schedds), scan : ImportScan]
            BY <1>1, <2>1, <3>1 DEF ImportTypeOK
        <3> QED BY <1>1, <1>2, <2>1, <2>2, <3>2 DEF ImportTypeOK
    <2>4. \A q \in Schedds : ~ScansNow(q)'
        BY <2>2 DEF ScansNow
    <2>5. ASSUME NEW q \in Schedds
          PROVE  ScheddRests(isource.kind, ihist[q], icursor[q], ifile[q], iarch[q], Spent)
        <3>1. CASE q = s
            <4>1. ScheddScans(isource.kind, ihist[q], ileft.written[q], icursor[q], ifile[q], iarch[q],
                              iloop.scan, Spent)
                BY <1>5, <3>1 DEF ImportInv
            <4>2. \A r \in Held(ihist[q]) : iarch[q][r.id] > Spent => PassedBy(isource.kind, icursor[q], r)
                BY <1>8, <4>1 DEF ScheddScans, ScanCount
            <4>3. isource.kind = "history" /\ ifile[q].at = 0 => NoHoleBelow(ihist[q], iarch[q])
                BY <1>2, <4>1 DEF ScheddScans, ScanHoles, NoHoleBelow
            <4> QED BY <4>2, <4>3 DEF ScheddRests
        <3>2. CASE q # s
            BY <1>5, <3>2 DEF ImportInv
        <3> QED BY <3>1, <3>2
    <2> QED BY <1>2, <1>6, <2>1, <2>2, <2>3, <2>4, <2>5 DEF ImportInv
<1> QED BY <1>7, <1>8

\* The cursor sc that a scan from c has come to, stored.
LEMMA CursorStored ==
    ASSUME NEW kind \in ImportKinds, NEW h \in Seq(ImportRecord), NEW w \in Nat,
           NEW c \in ImportCursor, NEW f \in ImportCursor, NEW arch, NEW n, NEW scan \in ImportScan, NEW s,
           ScheddOK(kind, h, w, c, f, arch, <<>>, s, n), ScheddScans(kind, h, w, c, f, arch, scan, n),
           scan.todo = <<>>, scan.saw
    PROVE  LET sc == ScanCursor(scan) IN
           /\ sc \in ImportCursor
           /\ ScheddOK(kind, h, w, sc, sc, arch, <<>>, s, n) /\ ScheddOK(kind, h, w, sc, f, arch, <<>>, s, n)
           /\ ScheddRests(kind, h, sc, sc, arch, n) /\ ScheddRests(kind, h, sc, f, arch, n)
<1>1. PICK sc : sc = ScanCursor(scan)
    OBVIOUS
<1>2. sc \in ImportCursor /\ sc.at = scan.at
    BY <1>1 DEF ImportScan, ScanCursor, ImportCursor
<1>3. CursorOK(kind, sc, h, w) /\ (kind = "history" => sc.at # 0 /\ sc.at > c.at) /\ (kind # "history" => sc.at >= c.at)
    BY <1>1, <1>2 DEF ScheddScans, ScanOK
<1>4. c.at \in Nat /\ sc.at \in Nat /\ f.at \in Nat
    BY <1>2 DEF ImportCursor
<1>5. HistOK(h, w) /\ CursorOK(kind, c, h, w) /\ CursorOK(kind, f, h, w) /\ CursorsInOrder(kind, f, c, h)
      /\ InTable(kind, c, h, arch) /\ CountsOK(arch, w, n)
    BY DEF ScheddOK
<1>6. \A r \in Held(h) : r.id \in Nat /\ r.date \in Nat
    BY <1>5, HistFacts
<1>7. Reached(kind, c, sc, <<>>, h, arch)
    BY <1>1 DEF ScheddScans
<1>8. ASSUME NEW r \in Held(h), PassedBy(kind, c, r) PROVE PassedBy(kind, sc, r)
    <2>1. CASE kind = "history"
        BY <1>3, <1>4, <1>6, <1>8, <2>1 DEF PassedBy
    <2>2. CASE kind # "history"
        <3>1. r.id \in c.keys => PassedBy(kind, sc, r)
            BY <1>7, HeldEmpty DEF Reached
        <3>2. r.date < c.at => PassedBy(kind, sc, r)
            BY <1>3, <1>4, <1>6, <2>2 DEF PassedBy
        <3> QED BY <1>8, <2>2, <3>1, <3>2 DEF PassedBy
    <2> QED BY <2>1, <2>2
<1>9. CursorsInOrder(kind, f, sc, h) /\ CursorsInOrder(kind, sc, sc, h)
    BY <1>3, <1>4, <1>5, <1>8 DEF CursorsInOrder
<1>10. InTable(kind, sc, h, arch)
    <2>1. ASSUME NEW r \in Held(h), MustKeep(r), PassedBy(kind, sc, r) PROVE arch[r.id] > 0
        <3>1. CASE NewTo(kind, c, r)
            BY <1>7, <2>1, <3>1, HeldEmpty DEF Reached
        <3>2. CASE ~NewTo(kind, c, r)
            <4>1. PassedBy(kind, c, r)
                BY <1>4, <1>6, <3>2 DEF NewTo, PassedBy
            <4> QED BY <1>5, <2>1, <4>1 DEF InTable
        <3> QED BY <3>1, <3>2
    <2> QED BY <2>1 DEF InTable
<1>11. Unflushed(kind, sc, h, w, <<>>, s)
    BY DEF Unflushed
<1>12. ScheddOK(kind, h, w, sc, sc, arch, <<>>, s, n) /\ ScheddOK(kind, h, w, sc, f, arch, <<>>, s, n)
    BY <1>3, <1>5, <1>9, <1>10, <1>11 DEF ScheddOK
<1>13. \A r \in Held(h) : arch[r.id] > n => PassedBy(kind, sc, r)
    BY <1>1, <1>8 DEF ScheddScans, ScanCount
<1>14. kind = "history" /\ f.at = 0 => NoHoleBelow(h, arch)
    BY DEF ScheddScans, ScanHoles, NoHoleBelow
<1>15. ScheddRests(kind, h, sc, sc, arch, n) /\ ScheddRests(kind, h, sc, f, arch, n)
    BY <1>3, <1>13, <1>14 DEF ScheddRests
<1> QED BY <1>1, <1>2, <1>12, <1>15

\* A failure leaves more room in the counts.
LEMMA FailureCounts ==
    ASSUME NEW kind, NEW h \in Seq(ImportRecord), NEW w \in Nat, w <= MaxHistory, NEW c, NEW f,
           NEW arch \in ImportCounts, NEW pending, NEW s, NEW n \in Nat,
           ScheddOK(kind, h, w, c, f, arch, pending, s, n)
    PROVE  /\ ScheddOK(kind, h, w, c, f, arch, pending, s, n + 1)
           /\ ScheddRests(kind, h, c, f, arch, n) => ScheddRests(kind, h, c, f, arch, n + 1)
<1>1. \A i \in 1..MaxHistory : arch[i] \in Int
    BY DEF ImportCounts
<1>2. HistOK(h, w)
    BY DEF ScheddOK
<1>3. \A r \in Held(h) : r.id \in 1..MaxHistory
    BY <1>2, HistFacts, ImportBoundAssumption
<1>4. CountsOK(arch, w, n + 1)
    BY <1>1 DEF ScheddOK, CountsOK
<1>5. ScheddOK(kind, h, w, c, f, arch, pending, s, n + 1)
    BY <1>4 DEF ScheddOK
<1>6. ScheddRests(kind, h, c, f, arch, n) => \A r \in Held(h) : arch[r.id] > n + 1 => PassedBy(kind, c, r)
    BY <1>1, <1>3 DEF ScheddRests
<1>7. ScheddRests(kind, h, c, f, arch, n) => ScheddRests(kind, h, c, f, arch, n + 1)
    BY <1>6 DEF ScheddRests
<1> QED BY <1>5, <1>7

LEMMA SetCursorKeeps == ASSUME ImportInv, SetCursor PROVE ImportInv'
<1>1. ImportTypeOK
    BY DEF ImportInv
<1>2. PICK s, new : s = Current /\ new = ScanCursor(iloop.scan)
    OBVIOUS
<1>3. /\ iloop.pc = "set" /\ icursor' = [icursor EXCEPT ![s] = new]
      /\ iloop' = [iloop EXCEPT !.pc = "next", !.queue = Tail(@), !.scan = NoScan]
      /\ UNCHANGED <<isource, ihist, iarch, ipending>>
    BY <1>2 DEF SetCursor, ScanCursor
<1>4. iloop.scan.todo = <<>> /\ iloop.scan.saw /\ ipending = <<>>
    BY <1>3 DEF ImportInv
<1>5. s \in Schedds /\ iloop.queue \in Seq(Schedds) /\ iloop.queue # <<>> /\ iloop.scan \in ImportScan
    BY <1>1, <1>2, <1>3, ImportFacts DEF ImportTypeOK
<1>6. \A q \in Schedds : ScansNow(q) <=> q = s
    BY <1>2, <1>3 DEF ScansNow
<1>7. PICK kind, n : kind = isource.kind /\ n = Spent
    OBVIOUS
<1>8. kind \in ImportKinds /\ n \in Nat
    BY <1>7, ImportFacts
<1>9. ASSUME NEW q \in Schedds
      PROVE  /\ ihist[q] \in Seq(ImportRecord) /\ ileft.written[q] \in Nat /\ ileft.written[q] <= MaxHistory
             /\ icursor[q] \in ImportCursor /\ ifile[q] \in ImportCursor /\ iarch[q] \in ImportCounts
             /\ ScheddOK(kind, ihist[q], ileft.written[q], icursor[q], ifile[q], iarch[q], <<>>, q, n)
             /\ q # s => ScheddRests(kind, ihist[q], icursor[q], ifile[q], iarch[q], n)
             /\ q = s => ScheddScans(kind, ihist[q], ileft.written[q], icursor[q], ifile[q], iarch[q], iloop.scan, n)
    <2>1. ihist[q] \in Seq(ImportRecord) /\ ileft.written[q] \in Nat /\ ileft.written[q] <= MaxHistory
          /\ icursor[q] \in ImportCursor /\ ifile[q] \in ImportCursor /\ iarch[q] \in ImportCounts
        BY ImportFacts
    <2>2. ScheddOK(kind, ihist[q], ileft.written[q], icursor[q], ifile[q], iarch[q], <<>>, q, n)
        BY <1>4, <1>7 DEF ImportInv
    <2>3. q # s => ScheddRests(kind, ihist[q], icursor[q], ifile[q], iarch[q], n)
        BY <1>6, <1>7 DEF ImportInv
    <2>4. q = s => ScheddScans(kind, ihist[q], ileft.written[q], icursor[q], ifile[q], iarch[q], iloop.scan, n)
        BY <1>6, <1>7 DEF ImportInv
    <2> QED BY <2>1, <2>2, <2>3, <2>4
<1>10. icursor'[s] = new /\ \A q \in Schedds : q # s => icursor'[q] = icursor[q]
    BY <1>1, <1>3, <1>5 DEF ImportTypeOK
<1>11. ASSUME NEW q \in Schedds
       PROVE  LET c == icursor'[q] IN
              /\ c \in ImportCursor
              /\ ScheddOK(kind, ihist[q], ileft.written[q], c, c, iarch[q], <<>>, q, n)
              /\ ScheddRests(kind, ihist[q], c, c, iarch[q], n)
              /\ ScheddOK(kind, ihist[q], ileft.written[q], c, ifile[q], iarch[q], <<>>, q, n)
              /\ ScheddRests(kind, ihist[q], c, ifile[q], iarch[q], n)
    <2>1. CASE q = s
        <3>1. /\ new \in ImportCursor
              /\ ScheddOK(kind, ihist[q], ileft.written[q], new, new, iarch[q], <<>>, q, n)
              /\ ScheddOK(kind, ihist[q], ileft.written[q], new, ifile[q], iarch[q], <<>>, q, n)
              /\ ScheddRests(kind, ihist[q], new, new, iarch[q], n)
              /\ ScheddRests(kind, ihist[q], new, ifile[q], iarch[q], n)
            BY <1>2, <1>4, <1>5, <1>8, <1>9, <2>1, CursorStored
        <3> QED BY <1>10, <2>1, <3>1
    <2>2. CASE q # s
        <3>1. PICK c, f : c = icursor[q] /\ f = ifile[q]
            OBVIOUS
        <3>2. ScheddOK(kind, ihist[q], ileft.written[q], c, f, iarch[q], <<>>, q, n)
              /\ ScheddRests(kind, ihist[q], c, f, iarch[q], n) /\ c \in ImportCursor /\ f \in ImportCursor
            BY <1>9, <2>2, <3>1
        <3>3. c.at \in Nat /\ f.at \in Nat
            BY <3>2 DEF ImportCursor
        <3>4. ScheddOK(kind, ihist[q], ileft.written[q], c, c, iarch[q], <<>>, q, n)
            BY <3>2, <3>3 DEF ScheddOK, CursorsInOrder
        <3>5. kind = "history" /\ c.at = 0 => f.at = 0
            BY <3>2, <3>3 DEF ScheddOK, CursorsInOrder
        <3>6. ScheddRests(kind, ihist[q], c, c, iarch[q], n)
            BY <3>2, <3>5 DEF ScheddRests
        <3> QED BY <1>10, <2>2, <3>1, <3>2, <3>4, <3>6
    <2> QED BY <2>1, <2>2
<1>12. iloop'.pc = "next"
    BY <1>1, <1>3 DEF ImportTypeOK
<1>13. \A q \in Schedds : ~ScansNow(q)'
    BY <1>12 DEF ScansNow
<1>14. \A q \in Schedds, i \in 1..MaxHistory : iarch'[q][i] >= Cardinality(Losable(ipending', q, i))
    BY <1>3 DEF ImportInv
<1>15. icursor' \in [Schedds -> ImportCursor]
       /\ iloop' \in [pc : {"wait", "next", "scan", "set", "down"}, queue : Seq(Schedds), scan : ImportScan]
    <2>1. Tail(iloop.queue) \in Seq(Schedds) /\ NoScan \in ImportScan
        BY <1>5 DEF NoScan, ImportScan
    <2>2. new \in ImportCursor
        BY <1>5, <1>10, <1>11
    <2> QED BY <1>1, <1>3, <2>1, <2>2 DEF ImportTypeOK
<1>16. CASE ifile' = icursor' /\ UNCHANGED ileft
    <2>1. Spent' = n /\ isource'.kind = kind
        BY <1>3, <1>7, <1>16 DEF Spent
    <2>2. ImportTypeOK'
        BY <1>1, <1>3, <1>12, <1>15, <1>16 DEF ImportTypeOK
    <2>3. \A q \in Schedds :
            /\ ScheddOK(isource'.kind, ihist'[q], ileft'.written[q], icursor'[q], ifile'[q], iarch'[q], ipending', q, Spent')
            /\ ScheddRests(isource'.kind, ihist'[q], icursor'[q], ifile'[q], iarch'[q], Spent')
        BY <1>3, <1>4, <1>11, <1>16, <2>1
    <2> QED BY <1>12, <1>13, <1>14, <2>2, <2>3 DEF ImportInv
<1>17. CASE ileft.fault > 0 /\ ileft' = [ileft EXCEPT !.fault = @ - 1] /\ UNCHANGED ifile
    <2>1. ileft'.fault = ileft.fault - 1 /\ ileft'.written = ileft.written
          /\ ileft' \in [cycle : Int, fault : Int, written : [Schedds -> 0..MaxHistory]]
          /\ ileft.fault \in Int /\ ileft.fault <= MaxImportFault
        <3>1. ileft \in [cycle : Int, fault : Int, written : [Schedds -> 0..MaxHistory]]
              /\ ileft.fault <= MaxImportFault
            BY <1>1 DEF ImportTypeOK
        <3>2. ileft.fault - 1 \in Int
            BY <3>1
        <3> QED BY <1>17, <3>1, <3>2
    <2>2. Spent' = n + 1 /\ isource'.kind = kind
        BY <1>3, <1>7, <2>1, ImportBoundAssumption DEF Spent
    <2>3. ileft'.fault <= MaxImportFault
        BY <2>1, ImportBoundAssumption
    <2>4. ImportTypeOK'
        BY <1>1, <1>3, <1>12, <1>15, <1>17, <2>1, <2>3 DEF ImportTypeOK
    <2>5. ASSUME NEW q \in Schedds
          PROVE  /\ ScheddOK(kind, ihist[q], ileft.written[q], icursor'[q], ifile[q], iarch[q], <<>>, q, n + 1)
                 /\ ScheddRests(kind, ihist[q], icursor'[q], ifile[q], iarch[q], n + 1)
        BY <1>8, <1>9, <1>11, FailureCounts
    <2>6. \A q \in Schedds :
            /\ ScheddOK(isource'.kind, ihist'[q], ileft'.written[q], icursor'[q], ifile'[q], iarch'[q], ipending', q, Spent')
            /\ ScheddRests(isource'.kind, ihist'[q], icursor'[q], ifile'[q], iarch'[q], Spent')
        BY <1>3, <1>4, <1>17, <2>1, <2>2, <2>5
    <2> QED BY <1>12, <1>13, <1>14, <2>4, <2>6 DEF ImportInv
<1> QED BY <1>16, <1>17 DEF SetCursor

\* A cycle that is cut short: the schedd, the table or the process fails.  The
\* table may lose what was not flushed.
CutShort ==
    /\ iloop.pc # "down" /\ iloop'.pc \in {"next", "down"} /\ Fails
    /\ \A s \in Schedds, i \in 1..MaxHistory :
         /\ iarch'[s][i] <= iarch[s][i] /\ iarch'[s][i] >= Cardinality(Losable(ipending', s, i))
         /\ iarch'[s][i] = iarch[s][i] \/ Losable(ipending, s, i) # {}
    /\ ipending' \in {ipending, <<>>}
    /\ UNCHANGED <<isource, ihist, icursor, ifile>>

LEMMA CutShortKeeps ==
    ASSUME ImportInv, CutShort, ImportTypeOK' PROVE ImportInv'
<1>1. ImportTypeOK
    BY DEF ImportInv
<1>2. ileft' = [ileft EXCEPT !.fault = @ - 1] /\ (Bootstrapping => "bootstrap_cut" \in ImportFaults)
      /\ UNCHANGED <<isource, ihist, icursor, ifile>>
    BY DEF CutShort, Fails
<1>3. ileft'.fault = ileft.fault - 1 /\ ileft'.written = ileft.written /\ ileft.fault \in Int
    BY <1>1, <1>2 DEF ImportTypeOK
<1>4. PICK kind, n : kind = isource.kind /\ n = Spent
    OBVIOUS
<1>5. kind \in ImportKinds /\ n \in Nat /\ Spent' = n + 1 /\ isource'.kind = kind
    <2>1. Spent' = n + 1
        BY <1>3, <1>4, ImportBoundAssumption DEF Spent
    <2> QED BY <1>2, <1>4, <2>1, ImportFacts
<1>6. \A q \in Schedds : ~ScansNow(q)'
    BY DEF CutShort, ScansNow
<1>7. ASSUME NEW s \in Schedds
      PROVE  /\ ScheddOK(kind, ihist[s], ileft.written[s], icursor[s], ifile[s], iarch'[s], ipending', s, n + 1)
             /\ ScheddRests(kind, ihist[s], icursor[s], ifile[s], iarch'[s], n + 1)
             /\ \A i \in 1..MaxHistory : iarch'[s][i] <= n + 1
    <2>1. PICK h, w, c, f, arch, arch2 :
            /\ h = ihist[s] /\ w = ileft.written[s] /\ c = icursor[s] /\ f = ifile[s]
            /\ arch = iarch[s] /\ arch2 = iarch'[s]
        OBVIOUS
    <2>2. h \in Seq(ImportRecord) /\ w \in Nat /\ w <= MaxHistory /\ arch \in ImportCounts /\ arch2 \in ImportCounts
        BY <2>1, ImportFacts DEF ImportTypeOK
    <2>3. \A i \in 1..MaxHistory : arch[i] \in Int /\ arch2[i] \in Int
        BY <2>2 DEF ImportCounts
    <2>4. ScheddOK(kind, h, w, c, f, arch, ipending, s, n)
        BY <1>4, <2>1 DEF ImportInv
    <2>5. HistOK(h, w) /\ InTable(kind, c, h, arch) /\ Unflushed(kind, c, h, w, ipending, s) /\ CountsOK(arch, w, n)
        BY <2>4 DEF ScheddOK
    <2>6. \A r \in Held(h) : r.id \in 1..MaxHistory
        BY <2>2, <2>5, HistFacts, ImportBoundAssumption
    <2>7. \A i \in 1..MaxHistory : arch2[i] <= arch[i] /\ (arch2[i] = arch[i] \/ Losable(ipending, s, i) # {})
        BY <2>1 DEF CutShort
    <2>8. ASSUME NEW r \in Held(h), PassedBy(kind, c, r) PROVE arch2[r.id] = arch[r.id]
        <3> SUFFICES ASSUME Losable(ipending, s, r.id) # {} PROVE FALSE
            BY <2>6, <2>7
        <3>1. PICK p \in 1..Len(ipending) : ipending[p] = <<s, r.id>>
            BY DEF Losable
        <3>2. ipending[p][1] = s /\ ipending[p][2] = r.id
            BY <3>1
        <3> QED BY <2>5, <2>8, <3>2 DEF Unflushed
    <2>9. InTable(kind, c, h, arch2)
        BY <2>5, <2>8 DEF InTable
    <2>10. \A i \in 1..MaxHistory : arch2[i] <= n + 1 /\ (arch2[i] > 0 => i <= w)
        BY <1>5, <2>3, <2>5, <2>7 DEF CountsOK
    <2>11. CountsOK(arch2, w, n + 1)
        BY <1>5, <2>3, <2>10 DEF CountsOK
    <2>12. Unflushed(kind, c, h, w, ipending', s)
        <3>1. CASE ipending' = ipending
            BY <2>5, <3>1
        <3>2. CASE ipending' = <<>>
            BY <3>2 DEF Unflushed
        <3> QED BY <3>1, <3>2 DEF CutShort
    <2>13. ScheddOK(kind, h, w, c, f, arch2, ipending', s, n + 1)
        BY <2>4, <2>9, <2>11, <2>12 DEF ScheddOK
    <2>14. \A r \in Held(h) : ~(arch2[r.id] > n + 1)
        BY <1>5, <2>3, <2>6, <2>10
    <2>15. ASSUME kind = "history", f.at = 0 PROVE NoHoleBelow(h, arch2)
        <3>1. CASE ~\E i \in 1..MaxHistory : arch[i] > 0
            <4>1. \A i \in 1..MaxHistory : ~(arch2[i] > 0)
                BY <2>3, <2>7, <3>1
            <4> QED BY <4>1 DEF NoHoleBelow, HoleBelow
        <3>2. CASE "bootstrap_cut" \in ImportFaults
            BY <3>2 DEF NoHoleBelow, HoleBelow, MustKeep
        <3>3. CASE "bootstrap_cut" \notin ImportFaults /\ \E i \in 1..MaxHistory : arch[i] > 0
            <4>1. ~(iloop.pc = "scan" /\ Current = s) /\ ~\E p \in DOMAIN ipending : ipending[p][1] = s
                BY <1>2, <1>4, <2>1, <2>15, <3>3 DEF Bootstrapping
            <4>2. \A i \in 1..MaxHistory : Losable(ipending, s, i) = {}
                <5>1. DOMAIN ipending = 1..Len(ipending)
                    BY ImportFacts
                <5>2. \A p \in 1..Len(ipending) : ipending[p][1] # s
                    BY <4>1, <5>1
                <5>3. \A i : <<s, i>>[1] = s
                    OBVIOUS
                <5> QED BY <5>2, <5>3 DEF Losable
            <4>3. \A i \in 1..MaxHistory : arch2[i] = arch[i]
                BY <2>7, <4>2
            <4>4. NoHoleBelow(h, arch)
                <5>1. CASE ScansNow(s)
                    <6>1. iloop.pc = "set"
                        BY <4>1, <5>1 DEF ScansNow
                    <6>2. ScheddScans(kind, h, w, c, f, arch, iloop.scan, n)
                        BY <1>4, <2>1, <5>1 DEF ImportInv
                    <6>3. iloop.scan.todo = <<>>
                        BY <6>1 DEF ImportInv
                    <6> QED BY <2>15, <6>2, <6>3 DEF ScheddScans, ScanHoles, NoHoleBelow
                <5>2. CASE ~ScansNow(s)
                    <6>1. ScheddRests(kind, h, c, f, arch, n)
                        BY <1>4, <2>1, <5>2 DEF ImportInv
                    <6> QED BY <2>15, <6>1 DEF ScheddRests
                <5> QED BY <5>1, <5>2
            <4> QED BY <2>6, <4>3, <4>4 DEF NoHoleBelow, HoleBelow
        <3> QED BY <3>1, <3>2, <3>3
    <2>16. ScheddRests(kind, h, c, f, arch2, n + 1)
        BY <2>14, <2>15 DEF ScheddRests
    <2> QED BY <2>1, <2>10, <2>13, <2>16
<1>8. \A s \in Schedds, i \in 1..MaxHistory : iarch'[s][i] >= Cardinality(Losable(ipending', s, i))
    BY DEF CutShort
<1>9. iloop'.pc # "set"
    BY DEF CutShort
<1>10. \A s \in Schedds :
         /\ ScheddOK(isource'.kind, ihist'[s], ileft'.written[s], icursor'[s], ifile'[s], iarch'[s], ipending', s, Spent')
         /\ ScheddRests(isource'.kind, ihist'[s], icursor'[s], ifile'[s], iarch'[s], Spent')
         /\ \A i \in 1..MaxHistory : iarch'[s][i] <= Spent'
    BY <1>2, <1>3, <1>5, <1>7
<1> QED BY <1>6, <1>8, <1>9, <1>10 DEF ImportInv

LEMMA FailsType ==
    ASSUME ImportTypeOK, Fails
    PROVE  /\ ileft' \in [cycle : Int, fault : Int, written : [Schedds -> 0..MaxHistory]]
           /\ ileft'.fault <= MaxImportFault
<1>1. ileft \in [cycle : Int, fault : Int, written : [Schedds -> 0..MaxHistory]] /\ ileft.fault <= MaxImportFault
    BY DEF ImportTypeOK
<1>2. ileft.fault - 1 \in Int /\ ileft.fault - 1 <= MaxImportFault
    BY <1>1, ImportBoundAssumption
<1> QED BY <1>1, <1>2 DEF Fails

LEMMA TableKept ==
    ASSUME ImportInv, UNCHANGED <<iarch, ipending>>
    PROVE  \A s \in Schedds, i \in 1..MaxHistory :
             /\ iarch'[s][i] <= iarch[s][i] /\ iarch'[s][i] >= Cardinality(Losable(ipending', s, i))
             /\ iarch'[s][i] = iarch[s][i] \/ Losable(ipending, s, i) # {}
<1>1. \A s \in Schedds, i \in 1..MaxHistory : iarch[s][i] \in Int
    BY CountsFacts
<1>2. \A s \in Schedds, i \in 1..MaxHistory : iarch[s][i] >= Cardinality(Losable(ipending, s, i))
    BY DEF ImportInv
<1> QED BY <1>1, <1>2

LEMMA ScheddFailsKeeps == ASSUME ImportInv, ScheddFails PROVE ImportInv'
<1>1. ImportTypeOK
    BY DEF ImportInv
<1>2. iloop.pc = "scan" /\ Fails /\ iloop' = [iloop EXCEPT !.pc = "next", !.queue = Tail(@), !.scan = NoScan]
      /\ UNCHANGED <<isource, ihist, icursor, ifile, iarch, ipending>>
    BY DEF ScheddFails
<1>3. iloop'.pc = "next"
    BY <1>1, <1>2 DEF ImportTypeOK
<1>4. ImportTypeOK'
    <2>1. iloop.queue \in Seq(Schedds) /\ iloop.queue # <<>>
        BY <1>1, <1>2 DEF ImportTypeOK
    <2>2. Tail(iloop.queue) \in Seq(Schedds) /\ NoScan \in ImportScan
        BY <2>1 DEF NoScan, ImportScan
    <2>3. iloop' \in [pc : {"wait", "next", "scan", "set", "down"}, queue : Seq(Schedds), scan : ImportScan]
        BY <1>1, <1>2, <2>2 DEF ImportTypeOK
    <2> QED BY <1>1, <1>2, <1>3, <2>3, FailsType DEF ImportTypeOK
<1>5. CutShort
    BY <1>2, <1>3, TableKept DEF CutShort
<1> QED BY <1>4, <1>5, CutShortKeeps

LEMMA DownLoop ==
    ASSUME iloop' = [IdleLoop EXCEPT !.pc = "down"]
    PROVE  /\ iloop'.pc = "down"
           /\ iloop' \in [pc : {"wait", "next", "scan", "set", "down"}, queue : Seq(Schedds), scan : ImportScan]
<1>1. NoScan \in ImportScan
    BY DEF NoScan, ImportScan
<1>2. IdleLoop \in [pc : {"wait", "next", "scan", "set", "down"}, queue : Seq(Schedds), scan : ImportScan]
    BY <1>1 DEF IdleLoop
<1> QED BY <1>2

LEMMA TableReadOnlyKeeps == ASSUME ImportInv, TableReadOnly PROVE ImportInv'
<1>1. ImportTypeOK
    BY DEF ImportInv
<1>2. iloop.pc = "scan" /\ Fails /\ iloop' = [IdleLoop EXCEPT !.pc = "down"]
      /\ UNCHANGED <<isource, ihist, icursor, ifile, iarch, ipending>>
    BY DEF TableReadOnly
<1>3. ImportTypeOK'
    BY <1>1, <1>2, DownLoop, FailsType DEF ImportTypeOK
<1>4. CutShort
    BY <1>2, DownLoop, TableKept DEF CutShort
<1> QED BY <1>3, <1>4, CutShortKeeps

LEMMA ImportCrashKeeps == ASSUME ImportInv, ImportCrash PROVE ImportInv'
<1>1. ImportTypeOK
    BY DEF ImportInv
<1>2. iloop.pc # "down" /\ Fails /\ iloop' = [IdleLoop EXCEPT !.pc = "down"] /\ ipending' = <<>>
      /\ UNCHANGED <<isource, ihist, icursor, ifile>>
    BY DEF ImportCrash
<1>3. PICK kept \in 0..Len(ipending) :
        iarch' = [s \in Schedds |-> [i \in 1..MaxHistory |->
            iarch[s][i] - Cardinality({p \in kept + 1..Len(ipending) : ipending[p] = <<s, i>>})]]
    BY DEF ImportCrash
<1>4. ipending \in Seq(Schedds \X (1..MaxHistory))
    BY <1>1 DEF ImportTypeOK
<1>5. ASSUME NEW s \in Schedds, NEW i \in 1..MaxHistory
      PROVE  /\ iarch'[s][i] \in Int /\ iarch'[s][i] <= iarch[s][i]
             /\ iarch'[s][i] >= Cardinality(Losable(<<>>, s, i))
             /\ iarch'[s][i] = iarch[s][i] \/ Losable(ipending, s, i) # {}
    <2>1. PICK lost : lost = {p \in kept + 1..Len(ipending) : ipending[p] = <<s, i>>}
        OBVIOUS
    <2>2. iarch'[s][i] = iarch[s][i] - Cardinality(lost)
        BY <1>3, <2>1
    <2>3. lost \subseteq Losable(ipending, s, i)
        <3>1. Len(ipending) \in Nat /\ kept \in Nat
            BY <1>4
        <3> QED BY <2>1, <3>1 DEF Losable
    <2>4. IsFiniteSet(Losable(ipending, s, i)) /\ Cardinality(Losable(ipending, s, i)) \in Nat
        BY <1>4, LosableAppend
    <2>5. IsFiniteSet(lost) /\ Cardinality(lost) <= Cardinality(Losable(ipending, s, i))
        BY <2>3, <2>4, FS_Subset
    <2>6. Cardinality(lost) \in Nat
        BY <2>5, FS_CardinalityType
    <2>7. iarch[s][i] \in Int /\ iarch[s][i] >= Cardinality(Losable(ipending, s, i))
        BY CountsFacts DEF ImportInv
    <2>8. Cardinality(Losable(<<>>, s, i)) = 0
        <3>1. Losable(<<>>, s, i) = {}
            BY DEF Losable
        <3> QED BY <3>1, FS_EmptySet
    <2>9. Losable(ipending, s, i) = {} => Cardinality(lost) = 0
        BY <2>3, FS_EmptySet
    <2> QED BY <2>2, <2>4, <2>5, <2>6, <2>7, <2>8, <2>9
<1>6. iarch' \in [Schedds -> ImportCounts]
    BY <1>3, <1>5 DEF ImportCounts
<1>7. ImportTypeOK'
    <2>1. ipending' \in Seq(Schedds \X (1..MaxHistory))
        BY <1>2
    <2> QED BY <1>1, <1>2, <1>6, <2>1, DownLoop, FailsType DEF ImportTypeOK
<1>8. CutShort
    BY <1>2, <1>5, DownLoop DEF CutShort
<1> QED BY <1>7, <1>8, CutShortKeeps

LEMMA ImportRestartKeeps == ASSUME ImportInv, ImportRestart PROVE ImportInv'
<1>1. ImportTypeOK
    BY DEF ImportInv
<1>2. iloop.pc = "down" /\ iloop' = IdleLoop /\ icursor' = ifile
      /\ UNCHANGED <<isource, ihist, ifile, iarch, ipending, ileft>>
    BY DEF ImportRestart
<1>3. iloop'.pc = "wait" /\ iloop' \in [pc : {"wait", "next", "scan", "set", "down"}, queue : Seq(Schedds), scan : ImportScan]
    BY <1>2 DEF IdleLoop, NoScan, ImportScan
<1>4. ImportTypeOK'
    BY <1>1, <1>2, <1>3 DEF ImportTypeOK
<1>5. Spent' = Spent /\ Spent \in Nat
    BY <1>2, ImportFacts DEF Spent
<1>6. \A s \in Schedds : ~ScansNow(s) /\ ~ScansNow(s)'
    BY <1>2, <1>3 DEF ScansNow
<1>7. ASSUME NEW s \in Schedds
      PROVE  /\ ScheddOK(isource.kind, ihist[s], ileft.written[s], ifile[s], ifile[s], iarch[s], ipending, s, Spent)
             /\ ScheddRests(isource.kind, ihist[s], ifile[s], ifile[s], iarch[s], Spent)
    <2>1. PICK kind, h, w, c, f, arch :
            /\ kind = isource.kind /\ h = ihist[s] /\ w = ileft.written[s] /\ c = icursor[s]
            /\ f = ifile[s] /\ arch = iarch[s]
        OBVIOUS
    <2>2. ScheddOK(kind, h, w, c, f, arch, ipending, s, Spent) /\ ScheddRests(kind, h, c, f, arch, Spent)
        BY <1>6, <2>1 DEF ImportInv
    <2>3. f.at \in Nat /\ h \in Seq(ImportRecord) /\ w \in Nat /\ w <= MaxHistory
        BY <2>1, ImportFacts DEF ImportCursor
    <2>4. CursorsInOrder(kind, f, f, h)
        BY <2>3 DEF CursorsInOrder
    <2>5. InTable(kind, f, h, arch)
        BY <2>2 DEF ScheddOK, CursorsInOrder, InTable
    <2>6. Unflushed(kind, f, h, w, ipending, s)
        BY <2>2 DEF ScheddOK, CursorsInOrder, Unflushed
    <2>7. ScheddOK(kind, h, w, f, f, arch, ipending, s, Spent)
        BY <2>2, <2>4, <2>5, <2>6 DEF ScheddOK
    <2>8. \A r \in Held(h) : ~(arch[r.id] > Spent)
        <3>1. \A r \in Held(h) : r.id \in 1..MaxHistory
            BY <2>2, <2>3, HistFacts, ImportBoundAssumption DEF ScheddOK
        <3>2. \A i \in 1..MaxHistory : arch[i] <= Spent /\ arch[i] \in Int
            BY <1>2, <2>1, CountsFacts DEF ImportInv
        <3> QED BY <1>5, <3>1, <3>2
    <2>9. ScheddRests(kind, h, f, f, arch, Spent)
        BY <2>2, <2>8 DEF ScheddRests
    <2> QED BY <2>1, <2>7, <2>9
<1>8. \A s \in Schedds, i \in 1..MaxHistory : iarch[s][i] >= Cardinality(Losable(ipending, s, i))
    BY DEF ImportInv
<1> QED BY <1>2, <1>3, <1>4, <1>5, <1>6, <1>7, <1>8 DEF ImportInv

LEMMA ImportInitOK == ASSUME ImportInit PROVE ImportInv
<1>1. PICK source \in ImportSources : ImportStart(source)
    BY DEF ImportInit
<1>2. /\ isource = source /\ ihist = [s \in Schedds |-> <<>>] /\ iloop = IdleLoop
      /\ icursor = [s \in Schedds |-> NoImportCursor] /\ ifile = icursor
      /\ iarch = [s \in Schedds |-> [i \in 1..MaxHistory |-> 0]] /\ ipending = <<>>
      /\ ileft = [cycle |-> MaxCycle, fault |-> MaxImportFault, written |-> [s \in Schedds |-> 0]]
    BY <1>1 DEF ImportStart
<1>3. iloop.pc = "wait" /\ iloop \in [pc : {"wait", "next", "scan", "set", "down"}, queue : Seq(Schedds), scan : ImportScan]
    BY <1>2 DEF IdleLoop, NoScan, ImportScan
<1>4. NoImportCursor \in ImportCursor /\ NoImportCursor.at = 0 /\ NoImportCursor.keys = {}
    BY DEF NoImportCursor, ImportCursor
<1>5. ImportTypeOK
    <2>1. ihist \in [Schedds -> Seq(ImportRecord)] /\ ipending \in Seq(Schedds \X (1..MaxHistory))
        BY <1>2
    <2>2. icursor \in [Schedds -> ImportCursor] /\ ifile \in [Schedds -> ImportCursor]
        BY <1>2, <1>4
    <2>3. iarch \in [Schedds -> ImportCounts]
        BY <1>2 DEF ImportCounts
    <2>4. ileft \in [cycle : Int, fault : Int, written : [Schedds -> 0..MaxHistory]] /\ ileft.fault <= MaxImportFault
        BY <1>2, ImportBoundAssumption
    <2> QED BY <1>2, <1>3, <2>1, <2>2, <2>3, <2>4 DEF ImportTypeOK
<1>6. Spent = 0
    BY <1>2, ImportBoundAssumption DEF Spent
<1>7. \A s \in Schedds : ~ScansNow(s)
    BY <1>3 DEF ScansNow
<1>8. ASSUME NEW s \in Schedds
      PROVE  /\ ScheddOK(isource.kind, ihist[s], ileft.written[s], icursor[s], ifile[s], iarch[s], ipending, s, Spent)
             /\ ScheddRests(isource.kind, ihist[s], icursor[s], ifile[s], iarch[s], Spent)
             /\ \A i \in 1..MaxHistory : iarch[s][i] >= Cardinality(Losable(ipending, s, i))
    <2>1. PICK kind, c, arch : kind = isource.kind /\ c = NoImportCursor /\ arch = [i \in 1..MaxHistory |-> 0]
        OBVIOUS
    <2>2. ihist[s] = <<>> /\ ileft.written[s] = 0 /\ icursor[s] = c /\ ifile[s] = c /\ iarch[s] = arch
        BY <1>2, <2>1
    <2>3. HistOK(<<>>, 0) /\ Held(<<>>) = {}
        BY HeldEmpty DEF HistOK
    <2>4. CursorOK(kind, c, <<>>, 0)
        BY <1>4, <2>1, HeldEmpty DEF CursorOK, LastDate
    <2>5. CursorsInOrder(kind, c, c, <<>>) /\ InTable(kind, c, <<>>, arch)
        BY <1>4, <2>1, HeldEmpty DEF CursorsInOrder, InTable
    <2>6. Unflushed(kind, c, <<>>, 0, <<>>, s)
        BY DEF Unflushed
    <2>7. CountsOK(arch, 0, 0)
        BY <2>1 DEF CountsOK
    <2>8. ScheddOK(kind, <<>>, 0, c, c, arch, <<>>, s, 0)
        BY <2>3, <2>4, <2>5, <2>6, <2>7 DEF ScheddOK
    <2>9. ScheddRests(kind, <<>>, c, c, arch, 0)
        BY HeldEmpty DEF ScheddRests, NoHoleBelow
    <2>10. ASSUME NEW i \in 1..MaxHistory PROVE arch[i] >= Cardinality(Losable(<<>>, s, i))
        <3>1. Losable(<<>>, s, i) = {}
            BY DEF Losable
        <3>2. Cardinality(Losable(<<>>, s, i)) = 0
            BY <3>1, FS_EmptySet
        <3> QED BY <2>1, <3>2
    <2> QED BY <1>2, <1>6, <2>1, <2>2, <2>8, <2>9, <2>10
<1> QED BY <1>3, <1>5, <1>7, <1>8 DEF ImportInv

LEMMA ImportStepOK ==
    ASSUME ImportInv, [ImportNext]_importvars PROVE ImportInv'
<1>1. CASE UNCHANGED importvars
    <2>1. \A s \in Schedds : ScansNow(s)' <=> ScansNow(s)
        BY <1>1 DEF importvars, ScansNow, Current
    <2>2. Spent' = Spent
        BY <1>1 DEF importvars, Spent
    <2>3. ImportTypeOK'
        BY <1>1 DEF importvars, ImportInv, ImportTypeOK
    <2> QED BY <1>1, <2>1, <2>2, <2>3 DEF importvars, ImportInv
<1>2. CASE ImportNext
    <2>1. ASSUME NEW s \in Schedds, ScheddRecords(s) PROVE ImportInv'
        BY <2>1, ScheddRecordsKeeps
    <2>2. ASSUME NEW s \in Schedds, ScheddForgets(s) PROVE ImportInv'
        BY <2>2, ScheddForgetsKeeps
    <2>3. RunJob \/ BeginSchedd \/ CycleEnds => ImportInv'
        BY RunJobKeeps, BeginScheddKeeps, CycleEndsKeeps
    <2>4. YieldJob \/ YieldEpoch \/ FlushSchedd \/ SetCursor => ImportInv'
        BY YieldJobKeeps, YieldEpochKeeps, FlushScheddKeeps, SetCursorKeeps
    <2>5. ScheddFails \/ TableReadOnly \/ ImportCrash \/ ImportRestart => ImportInv'
        BY ScheddFailsKeeps, TableReadOnlyKeeps, ImportCrashKeeps, ImportRestartKeeps
    <2> QED BY <1>2, <2>1, <2>2, <2>3, <2>4, <2>5 DEF ImportNext
<1> QED BY <1>1, <1>2

LEMMA ImportInvBehind == ASSUME ImportInv, "bootstrap_cut" \notin ImportFaults PROVE CursorBehindArchive
<1> SUFFICES ASSUME NEW s \in Schedds, NEW i \in DOMAIN ihist[s],
                    Passed(ifile[s], ihist[s][i]), ihist[s][i].kind = "ok"
             PROVE  iarch[s][ihist[s][i].id] > 0 /\ ~Contains(ipending, <<s, ihist[s][i].id>>)
    BY DEF CursorBehindArchive
<1>1. PICK r : r = ihist[s][i]
    OBVIOUS
<1>2. r \in Held(ihist[s])
    <2>1. DOMAIN ihist[s] = 1..Len(ihist[s])
        BY ImportFacts
    <2> QED BY <1>1, <2>1 DEF Held
<1>3. PassedBy(isource.kind, ifile[s], r)
    BY <1>1 DEF Passed, PassedBy
<1>4. ScheddOK(isource.kind, ihist[s], ileft.written[s], icursor[s], ifile[s], iarch[s], ipending, s, Spent)
    BY DEF ImportInv
<1>5. PassedBy(isource.kind, icursor[s], r)
    BY <1>2, <1>3, <1>4 DEF ScheddOK, CursorsInOrder
<1>6. iarch[s][r.id] > 0
    BY <1>1, <1>2, <1>4, <1>5 DEF ScheddOK, InTable, MustKeep
<1>7. ASSUME Contains(ipending, <<s, r.id>>) PROVE FALSE
    <2>1. DOMAIN ipending = 1..Len(ipending)
        BY ImportFacts
    <2>2. PICK p \in 1..Len(ipending) : ipending[p] = <<s, r.id>>
        BY <1>7, <2>1 DEF Contains
    <2>3. ipending[p][1] = s /\ ipending[p][2] = r.id
        BY <2>2
    <2> QED BY <1>2, <1>4, <1>5, <2>3 DEF ScheddOK, Unflushed
<1> QED BY <1>1, <1>6, <1>7

LEMMA ImportInvOnce == ASSUME ImportInv PROVE ImportedOnce
<1>1. ASSUME NEW s \in Schedds, NEW i \in 1..MaxHistory PROVE iarch[s][i] <= 1 + (MaxImportFault - ileft.fault)
    <2>1. iarch[s][i] <= Spent + 1
        BY DEF ImportInv, ScheddOK, CountsOK
    <2>2. Spent \in Nat
        BY ImportFacts
    <2>3. Spent = MaxImportFault - ileft.fault
        BY DEF Spent
    <2>4. 1 + Spent = Spent + 1
        BY <2>2
    <2> QED BY <2>1, <2>3, <2>4
<1> QED BY <1>1 DEF ImportedOnce

LEMMA ImportInvariant == ImportSpec => []ImportInv
<1>1. ImportInit => ImportInv
    BY ImportInitOK
<1>2. ImportInv /\ [ImportNext]_importvars => ImportInv'
    BY ImportStepOK
<1> QED BY <1>1, <1>2, PTL DEF ImportSpec

\* The stored cursor of a schedd never passes over a record that the table does
\* not have for good (Flush before Cursors.Set, the scan that stops at the first
\* record the table has, the failed write of the cursor file), provided that the
\* first scan of a schedd is not cut short: then it can, as the run import_cut shows.
THEOREM CursorStaysBehind ==
    ASSUME "bootstrap_cut" \notin ImportFaults PROVE ImportSpec => []CursorBehindArchive
<1>1. ImportInv => CursorBehindArchive
    BY ImportInvBehind
<1> QED BY <1>1, ImportInvariant, PTL

\* A record is imported once, and once more at most for each failure or crash:
\* the cursor's job or second and the keys at that second (epochCursor) are
\* exactly what a later scan has to leave out, first scans that are cut short
\* included.
THEOREM ImportsOncePerFailure == ImportSpec => []ImportedOnce
<1>1. ImportInv => ImportedOnce
    BY ImportInvOnce
<1> QED BY <1>1, ImportInvariant, PTL
=============================================================================
