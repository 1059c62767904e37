--------------------------- MODULE JobSyncSafety ---------------------------
(***************************************************************************)
(* Safety of JobSync when none of the Faults occur, from the inductive     *)
(* invariant IndInv, for every set of keys, tables and inodes and every    *)
(* number of compactions, entries, crashes, stops, conflicts and resyncs.  *)
(***************************************************************************)
EXTENDS JobSyncProofs, WellFoundedInduction

-----------------------------------------------------------------------------
(***************************************************************************)
(* Facts about one file of the log.                                        *)
(***************************************************************************)
\* Appending changes nothing about the prefixes that were there.
LEMMA AppendedFile ==
    ASSUME NEW f \in Seq(Entry), NEW e \in Entry, NEW g, g = Append(f, e)
    PROVE  /\ Len(g) = Len(f) + 1
           /\ \A n \in 0..Len(f) : /\ QueueAfter(g, n) = QueueAfter(f, n)
                                   /\ OpenAfter(g, n) <=> OpenAfter(f, n)
           /\ \A n \in 0..Len(f), m \in Nat, k \in Key :
                Touches(g, k, m, n) <=> Touches(f, k, m, n)
           /\ \A m \in Nat, k \in Key :
                Touches(f, k, m, Len(f)) => Touches(g, k, m, Len(g))
<1>1. Len(g) = Len(f) + 1 /\ Len(f) \in Nat
    OBVIOUS
<1>2. \A i \in 1..Len(f) : g[i] = f[i]
    OBVIOUS
<1> QED
    BY <1>1, <1>2 DEF QueueAfter, OpenAfter, Touches

\* The entry after the first n, and what it does to key k of the queue.
LEMMA NextEntry ==
    ASSUME NEW f \in Seq(Entry), FileOK(f), NEW n \in Nat, n < Len(f), NEW k \in Key
    PROVE  /\ f[n + 1] \in Entry
           /\ QueueAfter(f, n + 1)[k] = IF f[n + 1].key = k THEN f[n + 1].val
                                        ELSE QueueAfter(f, n)[k]
           /\ \A m \in Nat : m <= n =>
                (Touches(f, k, m, n + 1) <=> Touches(f, k, m, n) \/ f[n + 1].key = k)
           /\ Touches(f, k, n, Len(f)) <=> f[n + 1].key = k \/ Touches(f, k, n + 1, Len(f))
<1>1. n + 1 \in 1..Len(f) /\ Len(f) \in Nat /\ (n + 1) - 1 = n
    OBVIOUS
<1>2. f[n + 1] \in Entry
    BY <1>1
<1>3. QueueAfter(f, n + 1) = f[n + 1].q
    BY <1>1 DEF QueueAfter
<1>4. f[n + 1].q[k] = IF f[n + 1].key = k THEN f[n + 1].val ELSE QueueAfter(f, n)[k]
    BY <1>1 DEF FileOK
<1>5. \A m \in Nat : m <= n =>
        (Touches(f, k, m, n + 1) <=> Touches(f, k, m, n) \/ f[n + 1].key = k)
    BY <1>1 DEF Touches
<1>6. Touches(f, k, n, Len(f)) <=> f[n + 1].key = k \/ Touches(f, k, n + 1, Len(f))
    BY <1>1 DEF Touches
<1> QED
    BY <1>2, <1>3, <1>4, <1>5, <1>6

\* Whether a transaction is open one entry further.
LEMMA NextTxn ==
    ASSUME NEW f \in Seq(Entry), FileOK(f), NEW n \in Nat, n < Len(f)
    PROVE  /\ f[n + 1].op \in {"begin", "end", "write"}
           /\ f[n + 1].op = "begin" => OpenAfter(f, n + 1)
           /\ f[n + 1].op = "end" => ~OpenAfter(f, n + 1)
           /\ f[n + 1].op = "write" => (OpenAfter(f, n + 1) <=> OpenAfter(f, n))
           /\ f[n + 1].op = "write" <=> f[n + 1].key # NoKey
<1>1. n + 1 \in 1..Len(f) /\ (n + 1) - 1 = n
    OBVIOUS
<1>2. f[n + 1] \in Entry
    BY <1>1
<1>3. OpenAfter(f, n + 1) <=> f[n + 1].intx
    BY <1>1 DEF OpenAfter
<1> QED
    BY <1>1, <1>2, <1>3 DEF FileOK, Entry

\* A larger window sees more.
LEMMA TouchesMonotone ==
    ASSUME NEW f, NEW k \in Key, NEW m \in Nat, NEW n \in Nat, NEW p \in Nat, m <= n, n <= p
    PROVE  /\ Touches(f, k, m, n) => Touches(f, k, m, p)
           /\ Touches(f, k, n, p) => Touches(f, k, m, p)
           /\ ~Touches(f, k, n, n)
BY DEF Touches

\* A compacted file does to the queue what its entries say.
LEMMA SnapshotOK ==
    ASSUME NEW queue \in Queue, NEW s \in Snapshots(queue)
    PROVE  FileOK(s)
<1>1. PICK n \in Nat : \E order \in [1..n -> {k \in Key : queue[k] # NoRow}] :
             s = [i \in 1..n |->
                    [op |-> "write", key |-> order[i], val |-> queue[order[i]],
                     q |-> [k \in Key |-> IF \E j \in 1..i : order[j] = k
                                          THEN queue[k] ELSE NoRow],
                     intx |-> FALSE]]
    BY SnapshotShape
<1>2. PICK order \in [1..n -> {k \in Key : queue[k] # NoRow}] :
             s = [i \in 1..n |->
                    [op |-> "write", key |-> order[i], val |-> queue[order[i]],
                     q |-> [k \in Key |-> IF \E j \in 1..i : order[j] = k
                                          THEN queue[k] ELSE NoRow],
                     intx |-> FALSE]]
    BY <1>1
<1>3. Len(s) = n
    BY <1>2
<1>4. ASSUME NEW i \in 1..n
      PROVE  /\ s[i].op = "write" /\ s[i].key = order[i] /\ s[i].val = queue[order[i]]
             /\ s[i].intx = FALSE
             /\ \A k \in Key : s[i].q[k] = IF \E j \in 1..i : order[j] = k
                                           THEN queue[k] ELSE NoRow
    BY <1>2
<1>5. ASSUME NEW i \in 1..n, NEW k \in Key
      PROVE  s[i].q[k] = IF s[i].key = k THEN s[i].val ELSE QueueAfter(s, i - 1)[k]
    <2>0. /\ s[i].key = order[i] /\ s[i].val = queue[order[i]]
          /\ s[i].q[k] = IF \E j \in 1..i : order[j] = k THEN queue[k] ELSE NoRow
        BY <1>4
    <2>1. CASE s[i].key = k
        <3>1. \E j \in 1..i : order[j] = k
            <4>1. i \in 1..i /\ order[i] = k
                BY <2>0, <2>1
            <4> QED
                BY <4>1
        <3> QED
            BY <2>0, <2>1, <3>1
    <2>2. CASE s[i].key # k /\ i = 1
        <3>1. QueueAfter(s, i - 1)[k] = NoRow
            BY <2>2 DEF QueueAfter, EmptyQueue
        <3>2. ~\E j \in 1..i : order[j] = k
            BY <2>0, <2>2
        <3> QED
            BY <2>0, <2>2, <3>1, <3>2
    <2>3. CASE s[i].key # k /\ i # 1
        <3>1. i - 1 \in 1..n
            BY <2>3
        <3>2. QueueAfter(s, i - 1) = s[i - 1].q
            BY <1>3, <3>1 DEF QueueAfter
        <3>3. (\E j \in 1..i : order[j] = k) <=> (\E j \in 1..i - 1 : order[j] = k)
            BY <2>0, <2>3
        <3>4. s[i - 1].q[k] = IF \E j \in 1..i - 1 : order[j] = k THEN queue[k] ELSE NoRow
            BY <1>4, <3>1
        <3> QED
            BY <2>0, <2>3, <3>2, <3>3, <3>4
    <2> QED
        BY <2>1, <2>2, <2>3
<1>6. ASSUME NEW i \in 1..n PROVE ~s[i].intx /\ ~OpenAfter(s, i - 1) /\ s[i].op = "write"
    BY <1>3, <1>4 DEF OpenAfter
<1> QED
    BY <1>3, <1>5, <1>6 DEF FileOK

\* The current file, and the schedd's queue after n of its entries.
LEMMA CurrentFile ==
    ASSUME TypeOK
    PROVE  /\ gen \in Nat /\ gen \in 1..Len(files) /\ gen >= 1
           /\ Current \in Seq(Entry) /\ Len(Current) \in Nat
           /\ \A n : QueueAt(gen, n) = QueueAfter(Current, n)
           /\ \A n : InTxn(gen, n) <=> OpenAfter(Current, n)
BY DEF TypeOK, LogType, gen, Current, QueueAt, InTxn

\* Appending an entry that does what it says keeps a file right.
LEMMA AppendedOK ==
    ASSUME NEW f \in Seq(Entry), FileOK(f), NEW e \in Entry,
           \A k \in Key : e.q[k] = IF e.key = k THEN e.val ELSE QueueAfter(f, Len(f))[k],
           e.op = "begin" => e.intx,
           e.op = "end" => ~e.intx,
           e.op = "write" => (e.intx <=> OpenAfter(f, Len(f)))
    PROVE  FileOK(Append(f, e))
<1> DEFINE g == Append(f, e)
<1>1. /\ Len(g) = Len(f) + 1 /\ Len(f) \in Nat
      /\ \A n \in 0..Len(f) : QueueAfter(g, n) = QueueAfter(f, n)
                              /\ (OpenAfter(g, n) <=> OpenAfter(f, n))
      /\ \A i \in 1..Len(f) : g[i] = f[i]
      /\ g[Len(f) + 1] = e
    <2>1. /\ Len(f) \in Nat
          /\ \A i \in 1..Len(f) : g[i] = f[i]
          /\ g[Len(f) + 1] = e
        OBVIOUS
    <2>2. /\ Len(g) = Len(f) + 1
          /\ \A n \in 0..Len(f) : QueueAfter(g, n) = QueueAfter(f, n)
                                  /\ (OpenAfter(g, n) <=> OpenAfter(f, n))
        BY AppendedFile
    <2> QED
        BY <2>1, <2>2
<1> HIDE DEF g
<1>2. ASSUME NEW i \in 1..Len(f)
      PROVE  /\ \A k \in Key : g[i].q[k] = IF g[i].key = k THEN g[i].val
                                           ELSE QueueAfter(g, i - 1)[k]
             /\ g[i].op = "begin" => g[i].intx
             /\ g[i].op = "end" => ~g[i].intx
             /\ g[i].op = "write" => (g[i].intx <=> OpenAfter(g, i - 1))
    <2>1. i - 1 \in 0..Len(f) /\ g[i] = f[i]
        BY <1>1
    <2>2. QueueAfter(g, i - 1) = QueueAfter(f, i - 1) /\ (OpenAfter(g, i - 1) <=> OpenAfter(f, i - 1))
        BY <1>1, <2>1
    <2> QED
        BY <2>1, <2>2 DEF FileOK
<1>3. /\ \A k \in Key : e.q[k] = IF e.key = k THEN e.val ELSE QueueAfter(g, (Len(f) + 1) - 1)[k]
      /\ e.op = "write" => (e.intx <=> OpenAfter(g, (Len(f) + 1) - 1))
    BY <1>1
<1>4. FileOK(g)
    <2> SUFFICES ASSUME NEW i \in 1..Len(f) + 1
                 PROVE  /\ \A k \in Key : g[i].q[k] = IF g[i].key = k THEN g[i].val
                                                      ELSE QueueAfter(g, i - 1)[k]
                        /\ g[i].op = "begin" => g[i].intx
                        /\ g[i].op = "end" => ~g[i].intx
                        /\ g[i].op = "write" => (g[i].intx <=> OpenAfter(g, i - 1))
        BY <1>1 DEF FileOK
    <2>1. CASE i \in 1..Len(f)
        BY <1>2, <2>1
    <2>2. CASE i = Len(f) + 1
        BY <1>1, <1>3, <2>2
    <2> QED
        BY <1>1, <2>1, <2>2
<1> QED
    BY <1>4 DEF g

-----------------------------------------------------------------------------
(***************************************************************************)
(* The schedd.                                                             *)
(***************************************************************************)
\* An entry the schedd appends moves no row and no position: the invariant holds.
LEMMA AppendStep ==
    ASSUME IndInv, NEW e \in Entry, ScheddAppends(e), FileOK(Append(Current, e)), TypeOK'
    PROVE  IndInv'
<1> USE DEF durable, parser, ident, txn, conflict, reload
<1>1. TypeOK
    BY DEF IndInv
<1>2. gen' = gen /\ Current' = Append(Current, e)
    BY <1>1, CurrentFile DEF ScheddAppends, gen, Current, TypeOK, LogType
<1>3. UNCHANGED <<table, pos, pc, restored, offset, fd, headSeq, curSeq, curIno, explicit, buf,
                  persisted, before, seen, lost>>
    BY DEF ScheddAppends
<1>4. /\ Current \in Seq(Entry) /\ Len(Current) \in Nat /\ Len(Current') = Len(Current) + 1
      /\ \A n \in 0..Len(Current) : /\ QueueAfter(Current', n) = QueueAfter(Current, n)
                                    /\ OpenAfter(Current', n) <=> OpenAfter(Current, n)
      /\ \A n \in 0..Len(Current), m \in Nat, k \in Key :
            Touches(Current', k, m, n) <=> Touches(Current, k, m, n)
      /\ \A m \in Nat, k \in Key :
            Touches(Current, k, m, Len(Current)) => Touches(Current', k, m, Len(Current'))
    BY <1>1, <1>2, CurrentFile, AppendedFile
<1>5. /\ \A n \in 0..Len(Current) : QueueAt(gen, n)' = QueueAt(gen, n)
      /\ \A n \in 0..Len(Current) : InTxn(gen, n)' <=> InTxn(gen, n)
    BY <1>4 DEF QueueAt, InTxn, gen, Current
<1>6. offset \in Nat /\ persisted \in Nat /\ pos.off \in Nat
    BY <1>1 DEF TypeOK, ParserType, StoreType, Position
<1>7. FileOK(Current')
    BY <1>2
<1>8. ASSUME NEW k \in Key, NEW n \in 0..Len(Current), RowCovered(k, n)
      PROVE  RowCovered(k, n)'
    BY <1>3, <1>4, <1>5, <1>8 DEF RowCovered
<1>9. /\ (pos.seq <= gen)'
      /\ (pos.saved /\ pos.seq = gen => pos.off <= Len(Current))'
      /\ PersistedAtBoundary'
    BY <1>2, <1>3, <1>4, <1>5, <1>6 DEF IndInv, PersistedAtBoundary
<1>10. ProcessStart'
    <2>1. PositionOK => PositionOK'
        <3> SUFFICES ASSUME PositionOK, pos.saved, pos.seq = gen, NEW k \in Key
                     PROVE  RowCovered(k, pos.off)'
            BY <1>2, <1>3 DEF PositionOK
        <3>1. pos.off \in 0..Len(Current) /\ RowCovered(k, pos.off)
            BY <1>4, <1>6 DEF IndInv, PositionOK
        <3> QED
            BY <1>3, <1>8, <3>1
    <2> QED
        BY <1>3, <2>1 DEF IndInv, ProcessStart
<1>11. PassOK'
    <2>1. ASSUME pc \in Polling, restored, curSeq = gen, NEW k \in Key
          PROVE  PassRow(k)'
        <3>1. /\ persisted \in 0..Len(Current) /\ offset \in 0..Len(Current)
              /\ PassRow(k)
            BY <1>4, <1>6, <2>1 DEF IndInv, PassOK
        <3>2. RowCovered(k, offset) => RowCovered(k, offset)'
            BY <1>3, <1>8, <3>1
        <3> QED
            BY <1>3, <1>4, <1>5, <1>6, <3>1, <3>2 DEF PassRow
    <2> QED
        BY <1>2, <1>3, <1>4, <1>5, <1>6, <2>1 DEF IndInv, PassOK
<1>12. ReloadOK'
    <2>1. ASSUME pc \in Reloading, headSeq = gen, NEW k \in Key
          PROVE  (IF pc = "rlsave" THEN SavedRow(k) ELSE ReloadRow(k))'
        <3>1. offset \in 0..Len(Current) /\ (IF pc = "rlsave" THEN SavedRow(k) ELSE ReloadRow(k))
            BY <1>4, <1>6, <2>1 DEF IndInv, ReloadOK
        <3> QED
            BY <1>3, <1>4, <1>5, <3>1 DEF SavedRow, ReloadRow
    <2> QED
        BY <1>2, <1>3, <1>4, <1>5, <1>6, <2>1 DEF IndInv, ReloadOK
<1> QED
    BY <1>7, <1>9, <1>10, <1>11, <1>12 DEF IndInv

\* A compaction keeps the invariant: nothing it relates speaks of the new file yet.
LEMMA CompactStep ==
    ASSUME IndInv, ScheddCompacts, TypeOK'
    PROVE  IndInv'
<1> USE DEF durable, parser, ident, txn, conflict, reload
<1>1. TypeOK
    BY DEF IndInv
<1>2. gen \in 1..Len(files) /\ gen \in Nat
    BY <1>1, CurrentFile
<1>3. PICK i \in Inode, s \in Snapshots(Committed(gen)) : files' = Append(files, s)
    BY DEF ScheddCompacts
<1>4. Committed(gen) \in Queue
    BY <1>1, <1>2, QueueAtType DEF Committed
<1>5. gen' = gen + 1 /\ Current' = s
    BY <1>1, <1>3 DEF gen, Current, TypeOK, LogType
<1>6. FileOK(Current')
    BY <1>4, <1>5, SnapshotOK
<1>7. UNCHANGED <<table, pos, pc, restored, offset, fd, headSeq, curSeq, curIno, explicit, buf,
                  persisted, before, seen, lost>>
    BY DEF ScheddCompacts
<1>8. pos.seq \in Nat /\ pos.seq <= gen
    BY <1>1 DEF IndInv, TypeOK, StoreType, Position
<1>9. curSeq \in 0..gen /\ headSeq \in 0..gen
    BY <1>1 DEF TypeOK, ParserType, gen
<1>10. pos'.seq # gen' /\ pos'.seq <= gen' /\ curSeq' # gen' /\ headSeq' # gen'
    BY <1>2, <1>5, <1>7, <1>8, <1>9
<1>11. /\ (pos.saved /\ pos.seq = gen => pos.off <= Len(Current))'
       /\ PersistedAtBoundary' /\ PositionOK'
    BY <1>10 DEF PersistedAtBoundary, PositionOK
<1>12. ProcessStart'
    BY <1>7, <1>11 DEF IndInv, ProcessStart
<1>13. PassOK'
    BY <1>7, <1>10 DEF IndInv, PassOK
<1>14. ReloadOK'
    BY <1>7, <1>10 DEF IndInv, ReloadOK
<1> QED
    BY <1>6, <1>10, <1>11, <1>12, <1>13, <1>14 DEF IndInv

\* Every step of the schedd keeps the invariant.
LEMMA ScheddStep ==
    ASSUME IndInv, Schedd
    PROVE  IndInv'
<1>1. TypeOK /\ FileOK(Current)
    BY DEF IndInv
<1>2. TypeOK'
    BY <1>1, TypeSchedd
<1>3. /\ Current \in Seq(Entry)
      /\ QueueAt(gen, Len(Current)) = QueueAfter(Current, Len(Current))
      /\ InTxn(gen, Len(Current)) <=> OpenAfter(Current, Len(Current))
    BY <1>1, CurrentFile
<1>4. InTxn(gen, Len(Current)) \in BOOLEAN
    BY <1>1, <1>3 DEF InTxn, OpenAfter, Current, Entry
<1>5. CASE ScheddWrites
    <2>1. PICK k \in Key, v \in Row :
            ScheddAppends(Appended("write", k, v, InTxn(gen, Len(Current))))
        BY <1>5 DEF ScheddWrites
    <2> DEFINE e == Appended("write", k, v, InTxn(gen, Len(Current)))
    <2>2. e \in Entry
        BY <1>1, <1>4, AppendedType, KeyAssumption
    <2>3. FileOK(Append(Current, e))
        <3>1. /\ e.op = "write" /\ e.key = k /\ e.val = v
              /\ e.intx = InTxn(gen, Len(Current))
              /\ \A x \in Key : e.q[x] = IF x = k THEN v ELSE QueueAt(gen, Len(Current))[x]
            BY DEF Appended
        <3> HIDE DEF e
        <3> QED
            BY <1>1, <1>3, <2>2, <3>1, AppendedOK
    <2> QED
        BY <1>2, <2>1, <2>2, <2>3, AppendStep
<1>6. ASSUME NEW op \in {"begin", "end"}, NEW in \in BOOLEAN, in <=> op = "begin",
             ScheddAppends(Appended(op, NoKey, NoRow, in))
      PROVE  IndInv'
    <2> DEFINE e == Appended(op, NoKey, NoRow, in)
    <2>1. e \in Entry
        BY <1>1, AppendedType DEF Row
    <2>2. FileOK(Append(Current, e))
        <3>1. /\ e.op = op /\ e.key = NoKey /\ e.intx = in
              /\ \A x \in Key : e.q[x] = IF x = NoKey THEN NoRow ELSE QueueAt(gen, Len(Current))[x]
            BY DEF Appended
        <3> HIDE DEF e
        <3> QED
            BY <1>1, <1>3, <1>6, <2>1, <3>1, AppendedOK, KeyAssumption
    <2> QED
        BY <1>2, <1>6, <2>1, <2>2, AppendStep
<1>7. CASE ScheddBegins
    BY <1>6, <1>7 DEF ScheddBegins
<1>8. CASE ScheddEnds
    BY <1>6, <1>8 DEF ScheddEnds
<1>9. CASE ScheddCompacts
    BY <1>2, <1>9, CompactStep
<1> QED
    BY <1>5, <1>7, <1>8, <1>9 DEF Schedd

-----------------------------------------------------------------------------
(***************************************************************************)
(* Facts shared by the tailer's steps.                                     *)
(***************************************************************************)
\* The log does not move.
LEMMA SameFile ==
    ASSUME UNCHANGED files
    PROVE  /\ gen' = gen /\ Current' = Current
           /\ \A n : QueueAt(gen, n)' = QueueAt(gen, n)
           /\ \A n : InTxn(gen, n)' <=> InTxn(gen, n)
BY DEF gen, Current, QueueAt, InTxn

\* Neither do the rows nor anything they are compared with.
LEMMA SameRows ==
    ASSUME UNCHANGED <<files, table, offset, buf, persisted, before, seen, lost>>,
           NEW k \in Key
    PROVE  /\ PassRow(k)' <=> PassRow(k)
           /\ ReloadRow(k)' <=> ReloadRow(k)
           /\ SavedRow(k)' <=> SavedRow(k)
           /\ \A n : RowCovered(k, n)' <=> RowCovered(k, n)
<1>1. /\ gen' = gen /\ Current' = Current
      /\ \A n : QueueAt(gen, n)' = QueueAt(gen, n)
    BY SameFile
<1>2. \A n : RowCovered(k, n)' <=> RowCovered(k, n)
    BY <1>1 DEF RowCovered
<1>3. PassRow(k)' <=> PassRow(k)
    BY <1>1, <1>2 DEF PassRow
<1>4. (ReloadRow(k)' <=> ReloadRow(k)) /\ (SavedRow(k)' <=> SavedRow(k))
    BY <1>1 DEF ReloadRow, SavedRow
<1> QED
    BY <1>2, <1>3, <1>4

\* The saved position, when it is not saved again.
LEMMA SamePosition ==
    ASSUME IndInv, UNCHANGED <<files, pos>>
    PROVE  /\ FileOK(Current)' /\ (pos.seq <= gen)'
           /\ (pos.saved /\ pos.seq = gen => pos.off <= Len(Current))'
           /\ PersistedAtBoundary'
BY SameFile DEF IndInv, PersistedAtBoundary

\* A conflict or a crash may lose what is pending, and nothing else: the rows
\* stay right for the position on disk.
LEMMA PersistedCovered ==
    ASSUME IndInv, pc \in Polling, restored, curSeq = gen, NEW k \in Key
    PROVE  /\ RowCovered(k, persisted)
           /\ buf[k] # Unset => Touches(Current, k, persisted, Len(Current))
<1>1. /\ TypeOK /\ persisted <= offset /\ offset <= Len(Current) /\ PassRow(k)
    BY DEF IndInv, PassOK
<1>2. offset \in Nat /\ persisted \in Nat /\ Len(Current) \in Nat
    BY <1>1, CurrentFile DEF TypeOK, ParserType
<1>3. /\ Touches(Current, k, persisted, offset) => Touches(Current, k, persisted, Len(Current))
      /\ Touches(Current, k, offset, Len(Current)) => Touches(Current, k, persisted, Len(Current))
    BY <1>1, <1>2, TouchesMonotone
<1> QED
    BY <1>1, <1>3 DEF PassRow, RowCovered

\* The start of a reload.
LEMMA ReloadStarts ==
    ASSUME IndInv, TypeOK', NEW rows, rows = table', StartReload(rows), UNCHANGED <<files, pos>>
    PROVE  IndInv'
<1>1. /\ FileOK(Current)' /\ (pos.seq <= gen)'
      /\ (pos.saved /\ pos.seq = gen => pos.off <= Len(Current))'
      /\ PersistedAtBoundary'
    BY SamePosition
<1>2. pc' = "rlopen"
    BY DEF StartReload
<1>3. ProcessStart' /\ PassOK'
    BY <1>2 DEF ProcessStart, PassOK, Polling
<1>4. ASSUME NEW k \in Key PROVE ReloadRow(k)'
    <2>1. offset' = 0 /\ buf'[k] = Unset /\ seen' = {} /\ (table'[k] # NoRow => k \in before')
        BY DEF StartReload, NoWrites
    <2>2. QueueAt(gen, offset)'[k] = NoRow
        BY <2>1 DEF QueueAt, QueueAfter, EmptyQueue
    <2>3. ~Touches(Current', k, 0, 0)
        BY DEF Touches
    <2> QED
        BY <2>1, <2>2, <2>3 DEF ReloadRow
<1>5. TypeOK
    BY DEF IndInv
<1>6. gen \in Nat /\ gen >= 1 /\ gen' = gen /\ Current' = Current /\ Len(Current) \in Nat
    BY <1>5, CurrentFile, SameFile
<1>7. ReloadOK'
    BY <1>2, <1>4, <1>6 DEF ReloadOK, StartReload
<1> QED
    BY <1>1, <1>3, <1>7 DEF IndInv

\* A step between two reloads that moves no rows.
LEMMA QuietStep ==
    ASSUME IndInv, TypeOK', pc \in Polling, pc' \in Polling,
           UNCHANGED <<files, table, pos, restored, offset, curSeq, curIno, explicit, buf,
                       persisted, before, seen, lost>>,
           pc # "idle" \/ restored,
           pc' # "idle" => headSeq' = curSeq,
           pc' = "read" => fd' >= curSeq,
           pc # "read"
    PROVE  IndInv'
<1>1. /\ FileOK(Current)' /\ (pos.seq <= gen)'
      /\ (pos.saved /\ pos.seq = gen => pos.off <= Len(Current))'
      /\ PersistedAtBoundary'
    BY SamePosition
<1>2. restored
    BY DEF IndInv, ProcessStart, Polling
<1>3. ProcessStart' /\ ReloadOK'
    BY <1>2 DEF ProcessStart, ReloadOK, Polling, Reloading
<1>4. PassOK'
    <2>1. gen' = gen /\ Current' = Current /\ \A n : InTxn(gen, n)' <=> InTxn(gen, n)
        BY SameFile
    <2>2. \A k \in Key : PassRow(k)' <=> PassRow(k)
        BY SameRows
    <2> QED
        BY <1>2, <2>1, <2>2 DEF IndInv, PassOK
<1> QED
    BY <1>1, <1>3, <1>4 DEF IndInv

\* A pass reads the current file whenever the sequence number says so.
LEMMA ReadsCurrent ==
    ASSUME IndInv, pc = "read"
    PROVE  /\ restored /\ headSeq = curSeq /\ curSeq # 0 /\ inode[fd] \in Inode
           /\ pos.saved /\ pos.seq = curSeq /\ pos.off = persisted
           /\ curSeq \in Nat /\ gen \in Nat /\ curSeq <= gen
           /\ curSeq = gen => /\ fd = gen
                              /\ AtEOF <=> offset >= Len(Current)
                              /\ NextOp = Current[offset + 1]
<1>1. TypeOK
    BY DEF IndInv
<1>2. restored
    BY DEF IndInv, ProcessStart, Polling
<1>3. /\ headSeq = curSeq /\ curSeq # 0 /\ fd >= curSeq
      /\ pos.saved /\ pos.seq = curSeq /\ pos.off = persisted
    BY <1>2 DEF IndInv, PassOK, Polling
<1>4. fd \in 0..gen /\ curSeq \in 0..gen /\ gen \in Nat /\ fd # 0
    BY <1>1, CurrentFile DEF TypeOK, ParserType, gen
<1>5. inode[fd] \in Inode
    BY <1>1, <1>4, NextOpType
<1>6. curSeq = gen => fd = gen
    BY <1>3, <1>4
<1> QED
    BY <1>2, <1>3, <1>4, <1>5, <1>6 DEF AtEOF, NextOp, Current

\* Reading an entry that is not about k, or committing, keeps k's row right.
LEMMA RowAdvances ==
    ASSUME IndInv, pc = "read", curSeq = gen, ~AtEOF, NEW k \in Key, NextOp.key # k,
           UNCHANGED <<files, persisted>>, offset' = offset + 1,
           \/ buf'[k] = buf[k] /\ table'[k] = table[k] /\ (k \in lost' <=> k \in lost)
           \/ /\ buf'[k] = Unset
              /\ table'[k] = (IF buf[k] # Unset THEN buf[k] ELSE table[k])
              /\ buf[k] = Unset => (k \in lost' <=> k \in lost)
    PROVE  PassRow(k)'
<1>1. /\ TypeOK /\ FileOK(Current) /\ restored
    BY ReadsCurrent DEF IndInv
<1>2. /\ persisted <= offset /\ offset <= Len(Current) /\ PassRow(k)
    BY <1>1 DEF IndInv, PassOK, Polling
<1>3. offset \in Nat /\ persisted \in Nat /\ Len(Current) \in Nat /\ Current \in Seq(Entry)
    BY <1>1, CurrentFile DEF TypeOK, ParserType
<1>4. offset < Len(Current) /\ Current[offset + 1].key # k
    BY <1>3, ReadsCurrent
<1>5. /\ QueueAfter(Current, offset + 1)[k] = QueueAfter(Current, offset)[k]
      /\ Touches(Current, k, persisted, offset + 1) <=> Touches(Current, k, persisted, offset)
      /\ Touches(Current, k, offset, Len(Current)) <=> Touches(Current, k, offset + 1, Len(Current))
    BY <1>1, <1>2, <1>3, <1>4, NextEntry
<1>6. /\ gen' = gen /\ Current' = Current
      /\ QueueAt(gen, offset)' = QueueAfter(Current, offset + 1)
      /\ QueueAt(gen, offset) = QueueAfter(Current, offset)
      /\ QueueAt(gen, persisted)' = QueueAt(gen, persisted)
    BY SameFile DEF QueueAt, Current, gen
<1>7. CASE Touches(Current, k, persisted, offset)
    BY <1>2, <1>5, <1>6, <1>7 DEF PassRow
<1>8. CASE ~Touches(Current, k, persisted, offset)
    <2>1. /\ buf[k] = Unset /\ QueueAt(gen, offset)[k] = QueueAt(gen, persisted)[k]
          /\ RowCovered(k, offset)
        BY <1>2, <1>8 DEF PassRow
    <2>2. buf'[k] = Unset /\ table'[k] = table[k] /\ (k \in lost' <=> k \in lost)
        BY <2>1
    <2>3. RowCovered(k, offset)'
        BY <1>5, <1>6, <2>1, <2>2 DEF RowCovered
    <2> QED
        BY <1>5, <1>6, <1>8, <2>1, <2>2, <2>3 DEF PassRow
<1> QED
    BY <1>7, <1>8

\* What a commit does to one row.
LEMMA CommitRow ==
    ASSUME CommitAll, NEW k \in Key
    PROVE  /\ buf'[k] = Unset
           /\ table'[k] = (IF buf[k] # Unset THEN buf[k] ELSE table[k])
           /\ buf[k] = Unset => (k \in lost' <=> k \in lost)
           /\ k \in lost' => k \in lost
BY DEF CommitAll, Landed, Pending, NoWrites

\* Applying one entry (applyEntry), with the commit it may imply, keeps the invariant.
LEMMA ReadStep ==
    ASSUME IndInv, TypeOK', ReadWrite \/ ReadBegin \/ ReadEnd
    PROVE  IndInv'
<1> USE DEF logVars, durable, ident, conflict, reload
<1>1. /\ pc = "read" /\ pc' = "read" /\ ~AtEOF /\ offset' = offset + 1
      /\ UNCHANGED <<files, pos, restored, fd, headSeq, curSeq, curIno, persisted>>
    BY DEF ReadWrite, ReadBegin, ReadEnd
<1>2. /\ FileOK(Current)' /\ (pos.seq <= gen)'
      /\ (pos.saved /\ pos.seq = gen => pos.off <= Len(Current))'
      /\ PersistedAtBoundary'
    BY <1>1, SamePosition
<1>3. /\ restored /\ headSeq = curSeq /\ curSeq # 0
      /\ pos.saved /\ pos.seq = curSeq /\ pos.off = persisted
      /\ curSeq = gen => fd = gen /\ (AtEOF <=> offset >= Len(Current))
                                  /\ NextOp = Current[offset + 1]
    BY <1>1, ReadsCurrent
<1>4. TypeOK /\ FileOK(Current)
    BY DEF IndInv
<1>5. offset \in Nat /\ persisted \in Nat /\ Len(Current) \in Nat /\ Current \in Seq(Entry)
    BY <1>4, CurrentFile DEF TypeOK, ParserType
<1>6. ProcessStart' /\ ReloadOK'
    BY <1>1, <1>3 DEF ProcessStart, ReloadOK, Polling, Reloading
<1>7. ASSUME curSeq = gen
      PROVE  /\ (persisted <= offset /\ offset <= Len(Current))'
             /\ (explicit <=> InTxn(gen, offset))'
             /\ \A k \in Key : PassRow(k)'
    <2>1. /\ persisted <= offset /\ offset < Len(Current) /\ (explicit <=> InTxn(gen, offset))
          /\ \A k \in Key : PassRow(k)
        BY <1>1, <1>3, <1>5, <1>7 DEF IndInv, PassOK, Polling
    <2>2. gen' = gen /\ Current' = Current
        BY <1>1, SameFile
    <2>3. (persisted <= offset /\ offset <= Len(Current))'
        BY <1>1, <1>5, <2>1, <2>2
    <2>4. /\ InTxn(gen, offset)' <=> OpenAfter(Current, offset + 1)
          /\ InTxn(gen, offset) <=> OpenAfter(Current, offset)
        BY <1>1, <2>2 DEF InTxn, gen, Current
    <2>5. /\ NextOp.op = "begin" => OpenAfter(Current, offset + 1)
          /\ NextOp.op = "end" => ~OpenAfter(Current, offset + 1)
          /\ NextOp.op = "write" => (OpenAfter(Current, offset + 1) <=> OpenAfter(Current, offset))
          /\ NextOp.op = "write" <=> NextOp.key # NoKey
        BY <1>3, <1>4, <1>5, <1>7, <2>1, NextTxn
    <2>6. (explicit <=> InTxn(gen, offset))'
        BY <2>1, <2>4, <2>5 DEF ReadWrite, ReadBegin, ReadEnd, txn
    <2>7. ASSUME NEW k \in Key PROVE PassRow(k)'
        <3>1. CASE ReadWrite /\ NextOp.key = k
            <4>1. NextOp.val \in Row /\ NextOp = Current[offset + 1]
                <5>1. NextOp \in Entry
                    BY <1>3, <1>5, <1>7, <2>1
                <5> QED
                    BY <1>3, <1>7, <5>1 DEF Entry
            <4>2. buf'[k] = NextOp.val /\ buf'[k] # Unset
                BY <3>1, <4>1, <1>4, RowAssumption DEF ReadWrite, TypeOK, TxnType, Row
            <4>3. /\ QueueAfter(Current, offset + 1)[k] = NextOp.val
                  /\ Touches(Current, k, persisted, offset + 1)
                BY <1>4, <1>5, <2>1, <3>1, <4>1, NextEntry
            <4>4. QueueAt(gen, offset)' = QueueAfter(Current, offset + 1)
                BY <1>1, <2>2 DEF QueueAt, gen, Current
            <4> QED
                BY <1>1, <2>2, <4>2, <4>3, <4>4 DEF PassRow
        <3>2. CASE ReadWrite /\ NextOp.key # k
            <4>1. buf'[k] = buf[k] /\ table'[k] = table[k] /\ lost' = lost
                BY <3>2, <1>4 DEF ReadWrite, TypeOK, TxnType
            <4> QED
                BY <1>1, <1>7, <3>2, <4>1, RowAdvances
        <3>3. CASE ReadBegin \/ ReadEnd
            <4>1. NextOp.key # k
                BY <2>5, <3>3, KeyAssumption DEF ReadBegin, ReadEnd
            <4>2. CASE CommitAll
                BY <1>1, <1>7, <4>1, <4>2, CommitRow, RowAdvances
            <4>3. CASE UNCHANGED <<table, lost, buf>>
                BY <1>1, <1>7, <4>1, <4>3, RowAdvances
            <4> QED
                BY <3>3, <4>2, <4>3 DEF ReadBegin, ReadEnd, CommitImplicit
        <3> QED
            BY <3>1, <3>2, <3>3
    <2> QED
        BY <2>3, <2>6, <2>7
<1>8. PassOK'
    <2>1. gen' = gen
        BY <1>1, SameFile
    <2>2. curIno # NoInode /\ fd >= curSeq
        BY <1>1, <1>3 DEF IndInv, PassOK, Polling
    <2> QED
        BY <1>1, <1>3, <1>7, <2>1, <2>2 DEF PassOK
<1> QED
    BY <1>2, <1>6, <1>8 DEF IndInv

\* The end of a pass (readAndApply at EOF), saved or not, keeps the invariant.
LEMMA PassEndStep ==
    ASSUME IndInv, TypeOK', PassEnds
    PROVE  IndInv'
<1> USE DEF logVars, durable, ident, conflict, reload
<1>1. /\ pc = "read" /\ pc' = "idle" /\ AtEOF
      /\ curSeq' = headSeq /\ curIno' = inode[fd]
      /\ UNCHANGED <<files, restored, offset, explicit>>
    BY DEF PassEnds
<1>2. /\ restored /\ headSeq = curSeq /\ curSeq # 0 /\ inode[fd] \in Inode
      /\ pos.saved /\ pos.seq = curSeq /\ pos.off = persisted
      /\ curSeq \in Nat /\ gen \in Nat /\ curSeq <= gen
    BY <1>1, ReadsCurrent
<1>3. TypeOK /\ FileOK(Current)
    BY DEF IndInv
<1>4. /\ offset \in Nat /\ persisted \in Nat /\ Len(Current) \in Nat
      /\ gen' = gen /\ Current' = Current
      /\ \A n : QueueAt(gen, n)' = QueueAt(gen, n)
      /\ \A n : InTxn(gen, n)' <=> InTxn(gen, n)
    BY <1>1, <1>3, CurrentFile, SameFile DEF TypeOK, ParserType
<1>5. curSeq = gen => /\ persisted <= offset /\ offset <= Len(Current)
                      /\ explicit <=> InTxn(gen, offset)
                      /\ \A k \in Key : PassRow(k)
    BY <1>1, <1>2 DEF IndInv, PassOK, Polling
<1>6. ProcessStart' /\ ReloadOK'
    BY <1>1, <1>2 DEF ProcessStart, ReloadOK, Polling, Reloading
<1>7. FileOK(Current)' /\ curIno' # NoInode
    BY <1>1, <1>2, <1>3, <1>4, InodeAssumption
<1>8. CASE UNCHANGED <<pos, persisted>>
    <2>1. /\ (pos.seq <= gen)' /\ PersistedAtBoundary'
          /\ (pos.saved /\ pos.seq = gen => pos.off <= Len(Current))'
        BY <1>1, <1>8, SamePosition
    <2>2. ASSUME curSeq = gen, NEW k \in Key PROVE PassRow(k)'
        <3>1. CASE UNCHANGED <<table, lost, buf>>
            BY <1>1, <1>4, <1>5, <1>8, <2>2, <3>1 DEF PassRow, RowCovered
        <3>2. CASE CommitAll
            <4>1. /\ buf'[k] = Unset
                  /\ table'[k] = (IF buf[k] # Unset THEN buf[k] ELSE table[k])
                  /\ buf[k] = Unset => (k \in lost' <=> k \in lost)
                BY <3>2, CommitRow
            <4> QED
                BY <1>1, <1>4, <1>5, <1>8, <2>2, <4>1 DEF PassRow, RowCovered
        <3> QED
            BY <3>1, <3>2 DEF PassEnds, CommitImplicit
    <2>3. ~explicit => buf' = NoWrites
        BY DEF PassEnds, CommitImplicit, CommitAll
    <2>4. PassOK'
        BY <1>1, <1>2, <1>4, <1>5, <1>7, <1>8, <2>2, <2>3 DEF PassOK
    <2> QED
        BY <1>6, <1>7, <2>1, <2>4 DEF IndInv
<1>9. CASE ~UNCHANGED <<pos, persisted>>
    <2>1. /\ ~explicit /\ persisted' = offset
          /\ pos' = [saved |-> TRUE, ino |-> inode[fd], off |-> offset, seq |-> curSeq]
        BY <1>9 DEF PassEnds, MaybeCheckpoint, Checkpoint
    <2>2. CommitAll
        BY <2>1 DEF PassEnds, CommitImplicit
    <2>3. /\ (pos.seq <= gen)'
          /\ (pos.saved /\ pos.seq = gen => pos.off <= Len(Current))'
          /\ PersistedAtBoundary'
        BY <1>2, <1>4, <1>5, <2>1 DEF PersistedAtBoundary
    <2>4. ASSUME curSeq = gen, NEW k \in Key PROVE PassRow(k)'
        <3>1. /\ buf'[k] = Unset
              /\ table'[k] = (IF buf[k] # Unset THEN buf[k] ELSE table[k])
              /\ buf[k] = Unset => (k \in lost' <=> k \in lost)
            BY <2>2, CommitRow
        <3>2. PassRow(k)
            BY <1>5, <2>4
        <3>3. RowCovered(k, offset)'
            BY <1>1, <1>4, <3>1, <3>2 DEF PassRow, RowCovered
        <3>4. ~Touches(Current, k, offset, offset)
            BY <1>4, TouchesMonotone
        <3> QED
            BY <1>1, <1>4, <2>1, <3>1, <3>3, <3>4 DEF PassRow
    <2>5. buf' = NoWrites
        BY <2>2 DEF CommitAll
    <2>6. PassOK'
        BY <1>1, <1>2, <1>4, <1>5, <1>7, <2>1, <2>4, <2>5 DEF PassOK
    <2> QED
        BY <1>6, <1>7, <2>3, <2>6 DEF IndInv
<1> QED
    BY <1>8, <1>9

\* Resuming from the saved position (restore) establishes the pass invariant.
LEMMA ResumeStep ==
    ASSUME Faults = {}, IndInv, TypeOK', Resume
    PROVE  IndInv'
<1> USE DEF logVars, durable, ident, txn, conflict, reload
<1>1. /\ pc = "idle" /\ ~restored /\ pc' = "idle" /\ restored'
      /\ pos.saved /\ pos.seq = gen /\ Len(Current) >= pos.off
      /\ offset' = pos.off /\ persisted' = pos.off /\ curIno' = inode[gen] /\ curSeq' = gen
      /\ UNCHANGED <<files, table, pos, explicit, buf, lost>>
    BY DEF Resume, WouldResume, SeqKnown
<1>2. TypeOK /\ PositionOK /\ ~explicit /\ buf = NoWrites
    BY <1>1 DEF IndInv, ProcessStart, Polling
<1>3. /\ FileOK(Current)' /\ (pos.seq <= gen)'
      /\ (pos.saved /\ pos.seq = gen => pos.off <= Len(Current))'
      /\ PersistedAtBoundary'
    BY <1>1, SamePosition
<1>4. ProcessStart' /\ ReloadOK'
    BY <1>1 DEF ProcessStart, ReloadOK, Polling, Reloading
<1>5. /\ gen \in Nat /\ gen >= 1 /\ inode[gen] \in Inode /\ pos.off \in Nat /\ Len(Current) \in Nat
      /\ gen' = gen /\ Current' = Current
      /\ \A n : QueueAt(gen, n)' = QueueAt(gen, n)
      /\ \A n : InTxn(gen, n)' <=> InTxn(gen, n)
    BY <1>1, <1>2, CurrentFile, SameFile DEF TypeOK, LogType, StoreType, Position
<1>6. ~InTxn(gen, pos.off)
    BY <1>1 DEF IndInv, PersistedAtBoundary
<1>7. ASSUME NEW k \in Key PROVE PassRow(k)'
    <2>1. RowCovered(k, pos.off)
        BY <1>1, <1>2 DEF PositionOK
    <2>2. RowCovered(k, offset)'
        BY <1>1, <1>5, <2>1 DEF RowCovered
    <2>3. ~Touches(Current, k, pos.off, pos.off)
        BY <1>5, TouchesMonotone
    <2> QED
        BY <1>1, <1>2, <1>5, <2>2, <2>3 DEF PassRow, NoWrites
<1>8. PassOK'
    BY <1>1, <1>2, <1>5, <1>6, <1>7, InodeAssumption DEF PassOK
<1> QED
    BY <1>3, <1>4, <1>8 DEF IndInv

\* Every step of Poll keeps the invariant.
LEMMA PollStep ==
    ASSUME Faults = {}, IndInv, Poll
    PROVE  IndInv'
<1> USE DEF logVars, durable, parser, ident, txn, conflict, reload
<1>1. TypeOK'
    BY TypePoll DEF IndInv
<1>2. ASSUME StartReload(table), UNCHANGED <<files, table, pos>> PROVE IndInv'
    BY <1>1, <1>2, ReloadStarts
<1>3. CASE Resume
    BY <1>1, <1>3, ResumeStep
<1>4. CASE RestoreReloads \/ PollResyncs
    BY <1>2, <1>4 DEF RestoreReloads, PollResyncs
<1>5. CASE PollSequence
    <2>1. CASE SequenceChanged
        BY <1>2, <1>5, <2>1 DEF PollSequence
    <2>2. CASE ~SequenceChanged
        <3>1. /\ pc = "idle" /\ restored /\ headSeq' = gen /\ pc' = "stat"
              /\ UNCHANGED <<files, table, pos, restored, offset, curSeq, curIno, explicit, buf,
                             persisted, before, seen, lost>>
            BY <1>5, <2>2 DEF PollSequence
        <3>2. curSeq # 0
            BY <3>1 DEF IndInv, PassOK, Polling
        <3>3. headSeq' = curSeq
            BY <2>2, <3>1, <3>2 DEF SequenceChanged, SeqKnown
        <3> QED
            BY <1>1, <3>1, <3>3, QuietStep DEF Polling
    <2> QED
        BY <2>1, <2>2
<1>6. ASSUME pc \in {"stat", "probe", "open"}
      PROVE  headSeq = curSeq /\ curSeq <= gen
    <2>1. restored /\ TypeOK
        BY <1>6 DEF IndInv, ProcessStart, Polling
    <2> QED
        BY <1>6, <2>1 DEF IndInv, PassOK, Polling, TypeOK, ParserType, gen
<1>7. CASE PollIdentity
    <2>1. CASE curIno # NoInode /\ curIno # inode[gen]
        BY <1>2, <1>7, <2>1 DEF PollIdentity
    <2>2. CASE ~(curIno # NoInode /\ curIno # inode[gen])
        BY <1>1, <1>6, <1>7, <2>2, QuietStep DEF PollIdentity, Polling
    <2> QED
        BY <2>1, <2>2
<1>8. CASE PollProbe
    <2>1. CASE StartReload(table)
        BY <1>2, <1>8, <2>1 DEF PollProbe
    <2>2. CASE ~StartReload(table)
        <3>1. /\ pc = "probe" /\ pc' \in {"idle", "open"} /\ (pc' = "open" => headSeq' = headSeq)
              /\ UNCHANGED <<files, table, pos, restored, offset, curSeq, curIno, explicit, buf,
                             persisted, before, seen, lost>>
            BY <1>8, <2>2 DEF PollProbe
        <3> QED
            BY <1>1, <1>6, <3>1, QuietStep DEF Polling
    <2> QED
        BY <2>1, <2>2
<1>9. CASE PollOpen
    <2>1. /\ pc = "open" /\ pc' = "read" /\ fd' = gen
          /\ UNCHANGED <<files, table, pos, restored, offset, headSeq, curSeq, curIno, explicit,
                         buf, persisted, before, seen, lost>>
        BY <1>9 DEF PollOpen
    <2>2. headSeq' = curSeq /\ fd' >= curSeq
        <3>1. TypeOK
            BY DEF IndInv
        <3>2. gen \in Nat /\ curSeq \in Nat
            BY <3>1, CurrentFile DEF TypeOK, ParserType
        <3> QED
            BY <1>6, <2>1, <3>2
    <2> QED
        BY <1>1, <2>1, <2>2, QuietStep DEF Polling
<1>10. CASE ReadWrite \/ ReadBegin \/ ReadEnd
    BY <1>1, <1>10, ReadStep
<1>11. CASE PassEnds
    BY <1>1, <1>11, PassEndStep
<1> QED
    BY <1>3, <1>4, <1>5, <1>7, <1>8, <1>9, <1>10, <1>11 DEF Poll

\* A commit conflict rewinds to what is on disk, where the rows are right again.
LEMMA ConflictStep ==
    ASSUME IndInv, TypeOK', PassConflicts
    PROVE  IndInv'
<1> USE DEF logVars
<1>1. pc = "read" /\ UNCHANGED <<files, pos, restored, curSeq, persisted, lost>> /\ curIno' = inode[fd]
    BY DEF PassConflicts, AtCommit
<1>2. CASE StartReload(table')
    BY <1>1, <1>2, ReloadStarts
<1>3. CASE ~StartReload(table')
    <2>1. offset' = persisted /\ explicit' = FALSE /\ pc' = "idle"
        BY <1>3 DEF PassConflicts, RewindTo
    <2>2. PICK c \in SUBSET Pending : CommitConflicts(c)
        BY DEF PassConflicts
    <2>3. buf' = NoWrites
        BY <2>2 DEF CommitConflicts
    <2>4. /\ restored /\ headSeq = curSeq /\ curSeq # 0 /\ inode[fd] \in Inode
          /\ pos.saved /\ pos.seq = curSeq /\ pos.off = persisted
          /\ curSeq \in Nat /\ gen \in Nat /\ curSeq <= gen
        BY <1>1, ReadsCurrent
    <2>5. /\ FileOK(Current)' /\ (pos.seq <= gen)'
          /\ (pos.saved /\ pos.seq = gen => pos.off <= Len(Current))'
          /\ PersistedAtBoundary'
        BY <1>1, SamePosition
    <2>6. ProcessStart' /\ ReloadOK'
        BY <1>1, <2>1, <2>4 DEF ProcessStart, ReloadOK, Polling, Reloading
    <2>7. TypeOK
        BY DEF IndInv
    <2>8. /\ persisted \in Nat /\ Len(Current) \in Nat
          /\ gen' = gen /\ Current' = Current
          /\ \A n : QueueAt(gen, n)' = QueueAt(gen, n)
          /\ \A n : InTxn(gen, n)' <=> InTxn(gen, n)
        BY <1>1, <2>7, CurrentFile, SameFile DEF TypeOK, ParserType
    <2>9. ASSUME curSeq = gen, NEW k \in Key PROVE PassRow(k)'
        <3>1. /\ RowCovered(k, persisted)
              /\ buf[k] # Unset => Touches(Current, k, persisted, Len(Current))
            BY <1>1, <2>4, <2>9, PersistedCovered DEF Polling
        <3>2. buf[k] = Unset => table'[k] = table[k]
            BY <2>2 DEF CommitConflicts, Landed, Pending
        <3>3. RowCovered(k, offset)'
            BY <1>1, <2>1, <2>8, <3>1, <3>2 DEF RowCovered
        <3>4. ~Touches(Current, k, persisted, persisted)
            BY <2>8, TouchesMonotone
        <3> QED
            BY <1>1, <2>1, <2>3, <2>8, <3>3, <3>4 DEF PassRow, NoWrites
    <2>10. curSeq = gen => ~InTxn(gen, persisted) /\ persisted <= Len(Current)
        BY <2>4 DEF IndInv, PersistedAtBoundary
    <2>11. PassOK'
        BY <1>1, <2>1, <2>3, <2>4, <2>8, <2>9, <2>10, InodeAssumption DEF PassOK
    <2> QED
        BY <2>5, <2>6, <2>11 DEF IndInv
<1> QED
    BY <1>2, <1>3

-----------------------------------------------------------------------------
(***************************************************************************)
(* A reload.                                                               *)
(***************************************************************************)
\* A reload reads the current file whenever the sequence number says so.
LEMMA ReloadsCurrent ==
    ASSUME IndInv, pc \in Reloading
    PROVE  /\ ~explicit /\ headSeq # 0 /\ headSeq \in Nat /\ gen \in Nat /\ headSeq <= gen
           /\ offset \in Nat /\ Len(Current) \in Nat /\ Current \in Seq(Entry)
           /\ headSeq = gen => offset <= Len(Current)
           /\ pc = "rlread" => inode[fd] \in Inode
           /\ (pc = "rlread" /\ headSeq = gen) =>
                /\ fd = gen
                /\ AtEOF <=> offset >= Len(Current)
                /\ NextOp = Current[offset + 1]
<1>1. TypeOK
    BY DEF IndInv
<1>2. /\ ~explicit /\ headSeq # 0 /\ (pc = "rlread" => fd >= headSeq)
      /\ headSeq = gen => offset <= Len(Current)
    BY DEF IndInv, ReloadOK
<1>3. /\ fd \in 0..gen /\ headSeq \in 0..gen /\ gen \in Nat /\ (pc = "rlread" => fd # 0)
      /\ offset \in Nat
    BY <1>1, CurrentFile DEF TypeOK, ParserType, gen
<1>4. pc = "rlread" => inode[fd] \in Inode
    BY <1>1, <1>3, NextOpType
<1>5. (pc = "rlread" /\ headSeq = gen) => fd = gen
    BY <1>2, <1>3
<1>6. Len(Current) \in Nat /\ Current \in Seq(Entry)
    BY <1>1, CurrentFile
<1> QED
    BY <1>2, <1>3, <1>4, <1>5, <1>6 DEF AtEOF, NextOp, Current

\* A step inside a reload has only the reload's own invariant to keep.
LEMMA InReload ==
    ASSUME IndInv, TypeOK', pc' \in Reloading, UNCHANGED <<files, pos>>, ReloadOK'
    PROVE  IndInv'
<1>1. /\ FileOK(Current)' /\ (pos.seq <= gen)'
      /\ (pos.saved /\ pos.seq = gen => pos.off <= Len(Current))'
      /\ PersistedAtBoundary'
    BY SamePosition
<1>2. ProcessStart' /\ PassOK'
    BY DEF ProcessStart, PassOK, Polling, Reloading
<1> QED
    BY <1>1, <1>2 DEF IndInv

\* One entry through the reconciler keeps the invariant.
LEMMA ReloadEntryStep ==
    ASSUME IndInv, TypeOK', ReloadEntry
    PROVE  IndInv'
<1> USE DEF logVars, durable, conflict, ident
<1>1. /\ pc = "rlread" /\ pc' = "rlread" /\ ~AtEOF /\ offset' = offset + 1
      /\ UNCHANGED <<files, table, pos, fd, headSeq, explicit, before, lost>>
    BY DEF ReloadEntry
<1>2. /\ ~explicit /\ headSeq # 0 /\ offset \in Nat /\ Len(Current) \in Nat
      /\ Current \in Seq(Entry)
      /\ headSeq = gen => (offset >= Len(Current) <=> AtEOF) /\ NextOp = Current[offset + 1]
    BY <1>1, ReloadsCurrent DEF Reloading
<1>3. TypeOK /\ FileOK(Current) /\ (fd >= headSeq)
    BY <1>1 DEF IndInv, ReloadOK, Reloading
<1>4. gen' = gen /\ Current' = Current
    BY <1>1, SameFile
<1>5. ASSUME headSeq = gen, NEW k \in Key PROVE ReloadRow(k)'
    <2>1. ReloadRow(k) /\ offset < Len(Current)
        BY <1>1, <1>2, <1>5 DEF IndInv, ReloadOK, Reloading
    <2>2. /\ NextOp \in Entry
          /\ QueueAfter(Current, offset + 1)[k] = IF NextOp.key = k THEN NextOp.val
                                                  ELSE QueueAfter(Current, offset)[k]
          /\ Touches(Current, k, 0, offset + 1) <=> Touches(Current, k, 0, offset) \/ NextOp.key = k
        BY <1>2, <1>3, <1>5, <2>1, NextEntry
    <2>3. /\ QueueAt(gen, offset)' = QueueAfter(Current, offset + 1)
          /\ QueueAt(gen, offset) = QueueAfter(Current, offset)
        BY <1>1, <1>4 DEF QueueAt, gen, Current
    <2>4. buf \in [Key -> Row \cup {Unset}]
        BY <1>3 DEF TypeOK, TxnType
    <2>5. CASE NextOp.key = k
        <3>1. NextOp.op = "write" /\ NextOp.val \in Row /\ NextOp.val # Unset
            BY <2>2, <2>5, KeyAssumption, RowAssumption DEF Entry, Row
        <3>2. buf'[k] = NextOp.val /\ (k \in seen' <=> NextOp.val # NoRow)
            BY <2>4, <2>5, <3>1 DEF ReloadEntry
        <3> QED
            BY <1>1, <1>4, <2>2, <2>3, <2>5, <3>1, <3>2 DEF ReloadRow
    <2>6. CASE NextOp.key # k
        <3>1. buf'[k] = buf[k] /\ (k \in seen' <=> k \in seen)
            BY <2>4, <2>6 DEF ReloadEntry
        <3> QED
            BY <1>1, <1>4, <2>1, <2>2, <2>3, <2>6, <3>1 DEF ReloadRow
    <2> QED
        BY <2>5, <2>6
<1>6. ReloadOK'
    BY <1>1, <1>2, <1>3, <1>4, <1>5 DEF ReloadOK
<1> QED
    BY <1>1, <1>6, InReload DEF Reloading

\* A batch keeps a row right: it lands, or another writer's row is kept and
\* the key is lost.
LEMMA BatchRow ==
    ASSUME UNCHANGED <<files, offset, before, seen>>, NEW k \in Key, ReloadRow(k),
           \/ /\ buf'[k] = Unset
              /\ table'[k] = (IF buf[k] # Unset THEN buf[k] ELSE table[k])
              /\ buf[k] = Unset => (k \in lost' <=> k \in lost)
           \/ buf'[k] = Unset /\ buf[k] # Unset /\ k \in lost'
    PROVE  ReloadRow(k)'
<1>1. gen' = gen /\ Current' = Current /\ QueueAt(gen, offset)' = QueueAt(gen, offset)
    BY SameFile DEF QueueAt
<1> QED
    BY <1>1 DEF ReloadRow

\* A batch the reconciler commits, or loses to another writer, keeps the invariant.
LEMMA BatchStep ==
    ASSUME IndInv, TypeOK', ReloadBatch
    PROVE  IndInv'
<1> USE DEF logVars, parser, ident, conflict, reload
<1>1. /\ pc = "rlread" /\ pc' = "rlread"
      /\ UNCHANGED <<files, pos, offset, fd, headSeq, explicit, before, seen>>
    BY DEF ReloadBatch
<1>2. ~explicit /\ headSeq # 0 /\ fd >= headSeq
    BY <1>1 DEF IndInv, ReloadOK, Reloading
<1>3. gen' = gen /\ Current' = Current
    BY <1>1, SameFile
<1>4. ASSUME headSeq = gen, NEW k \in Key PROVE ReloadRow(k)'
    <2>1. ReloadRow(k)
        BY <1>1, <1>4 DEF IndInv, ReloadOK, Reloading
    <2>2. CASE CommitAll
        BY <1>1, <2>1, <2>2, CommitRow, BatchRow
    <2>3. CASE \E c \in SUBSET Pending : CommitConflicts(c) /\ lost' = (lost \ Pending) \cup c
        <3>1. PICK c \in SUBSET Pending : CommitConflicts(c) /\ lost' = (lost \ Pending) \cup c
            BY <2>3
        <3>2. buf'[k] = Unset
            BY <3>1 DEF CommitConflicts, NoWrites
        <3>3. CASE k \in c
            BY <1>1, <2>1, <3>1, <3>2, <3>3, BatchRow DEF Pending
        <3>4. CASE k \notin c
            <4>1. table'[k] = (IF buf[k] # Unset THEN buf[k] ELSE table[k])
                BY <3>1, <3>4 DEF CommitConflicts, Landed
            <4>2. buf[k] = Unset => (k \in lost' <=> k \in lost)
                BY <3>1, <3>4 DEF Pending
            <4> QED
                BY <1>1, <2>1, <3>2, <4>1, <4>2, BatchRow
        <3> QED
            BY <3>3, <3>4
    <2> QED
        BY <2>2, <2>3 DEF ReloadBatch
<1>5. ReloadOK'
    <2>1. headSeq = gen => offset <= Len(Current)
        BY <1>1 DEF IndInv, ReloadOK, Reloading
    <2> QED
        BY <1>1, <1>2, <1>3, <1>4, <2>1 DEF ReloadOK
<1> QED
    BY <1>1, <1>5, InReload DEF Reloading

\* Every other step of reconcileReload keeps the invariant.
LEMMA ReloadStep ==
    ASSUME Faults = {}, IndInv, Reload
    PROVE  IndInv'
<1> USE DEF logVars, durable, parser, ident, txn, conflict, reload
<1>1. TypeOK'
    BY TypeReload DEF IndInv
<1>2. CASE ReloadOpen
    <2>1. /\ pc = "rlopen" /\ pc' = "rlread" /\ fd' = gen
          /\ UNCHANGED <<files, table, pos, offset, headSeq, curSeq, curIno, explicit, buf,
                         persisted, before, seen, lost>>
        BY <1>2 DEF ReloadOpen
    <2>2. /\ ~explicit /\ headSeq # 0 /\ headSeq <= gen
          /\ headSeq = gen => offset <= Len(Current) /\ \A k \in Key : ReloadRow(k)
        BY <2>1, ReloadsCurrent DEF IndInv, ReloadOK, Reloading
    <2>3. gen' = gen /\ Current' = Current /\ gen \in Nat /\ headSeq \in Nat
        BY <2>1, SameFile, ReloadsCurrent DEF Reloading
    <2>4. \A k \in Key : ReloadRow(k) => ReloadRow(k)'
        BY <2>1, SameRows
    <2>5. ReloadOK'
        BY <2>1, <2>2, <2>3, <2>4 DEF ReloadOK
    <2> QED
        BY <1>1, <2>1, <2>5, InReload DEF Reloading
<1>3. CASE ReloadEntry
    BY <1>1, <1>3, ReloadEntryStep
<1>4. CASE ReloadEOF
    <2>1. /\ pc = "rlread" /\ pc' = "rlfinish" /\ curIno' = inode[fd] /\ curSeq' = headSeq
          /\ fd = gen => ~InTxn(fd, offset)
          /\ UNCHANGED <<files, table, pos, offset, headSeq, explicit, buf, persisted,
                         before, seen, lost>>
        BY <1>4 DEF ReloadEOF
    <2>2. /\ ~explicit /\ headSeq # 0 /\ inode[fd] \in Inode
          /\ headSeq = gen => fd = gen
        BY <2>1, ReloadsCurrent DEF Reloading
    <2>3. headSeq = gen => offset <= Len(Current) /\ \A k \in Key : ReloadRow(k)
        BY <2>1 DEF IndInv, ReloadOK, Reloading
    <2>4. gen' = gen /\ Current' = Current /\ (InTxn(gen, offset)' <=> InTxn(gen, offset))
        BY <2>1, SameFile DEF InTxn
    <2>5. \A k \in Key : ReloadRow(k) => ReloadRow(k)'
        BY <2>1, SameRows
    <2>6. ReloadOK'
        BY <2>1, <2>2, <2>3, <2>4, <2>5, InodeAssumption DEF ReloadOK
    <2> QED
        BY <1>1, <2>1, <2>6, InReload DEF Reloading
<1>5. CASE ReloadFinish
    <2>1. /\ pc = "rlfinish" /\ pc' = "rlsweep" /\ CommitAll
          /\ UNCHANGED <<files, pos, offset, headSeq, curSeq, curIno, explicit, before, seen>>
        BY <1>5 DEF ReloadFinish
    <2>2. /\ ~explicit /\ headSeq # 0 /\ curSeq = headSeq /\ curIno # NoInode
          /\ headSeq = gen => /\ offset <= Len(Current) /\ ~InTxn(gen, offset)
                              /\ \A k \in Key : ReloadRow(k)
        BY <2>1 DEF IndInv, ReloadOK, Reloading
    <2>3. gen' = gen /\ Current' = Current /\ (InTxn(gen, offset)' <=> InTxn(gen, offset))
        BY <2>1, SameFile DEF InTxn
    <2>4. \A k \in Key : ReloadRow(k) => ReloadRow(k)'
        BY <2>1, CommitRow, BatchRow
    <2>5. buf' = NoWrites
        BY <2>1 DEF CommitAll
    <2>6. ReloadOK'
        BY <2>1, <2>2, <2>3, <2>4, <2>5 DEF ReloadOK
    <2> QED
        BY <1>1, <2>1, <2>6, InReload DEF Reloading
<1>6. CASE ReloadSweep
    <2>1. /\ pc = "rlsweep" /\ pc' = "rlsave"
          /\ table' = Landed(Swept, Key) /\ lost' = lost \ (before \ seen)
          /\ UNCHANGED <<files, pos, offset, headSeq, curSeq, curIno, explicit, buf>>
        BY <1>6 DEF ReloadSweep
    <2>2. /\ ~explicit /\ headSeq # 0 /\ curSeq = headSeq /\ curIno # NoInode /\ buf = NoWrites
          /\ headSeq = gen => /\ offset <= Len(Current) /\ ~InTxn(gen, offset)
                              /\ \A k \in Key : ReloadRow(k)
        BY <2>1 DEF IndInv, ReloadOK, Reloading
    <2>3. /\ gen' = gen /\ Current' = Current /\ (InTxn(gen, offset)' <=> InTxn(gen, offset))
          /\ QueueAt(gen, offset)' = QueueAt(gen, offset)
        BY <2>1, SameFile DEF InTxn, QueueAt
    <2>4. ASSUME NEW k \in Key, ReloadRow(k) PROVE SavedRow(k)'
        <3>1. table'[k] = IF k \in before \ seen THEN NoRow ELSE table[k]
            BY <2>1, RowAssumption DEF Landed, Swept
        <3>2. buf[k] = Unset
            BY <2>2 DEF NoWrites
        <3> QED
            BY <2>1, <2>3, <2>4, <3>1, <3>2 DEF ReloadRow, SavedRow
    <2>5. ReloadOK'
        BY <2>1, <2>2, <2>3, <2>4 DEF ReloadOK
    <2> QED
        BY <1>1, <2>1, <2>5, InReload DEF Reloading
<1>7. CASE ReloadSave
    <2>1. /\ pc = "rlsave" /\ pc' = "idle" /\ restored' = TRUE /\ Checkpoint(curIno)
          /\ UNCHANGED <<files, table, offset, curSeq, curIno, explicit, buf, lost>>
        BY <1>7 DEF ReloadSave, ReloadEnds
    <2>2. /\ ~explicit /\ headSeq # 0 /\ curSeq = headSeq /\ curIno # NoInode /\ buf = NoWrites
          /\ headSeq = gen => /\ offset <= Len(Current) /\ ~InTxn(gen, offset)
                              /\ \A k \in Key : SavedRow(k)
        BY <2>1 DEF IndInv, ReloadOK, Reloading
    <2>3. /\ pos' = [saved |-> TRUE, ino |-> curIno, off |-> offset, seq |-> curSeq]
          /\ persisted' = offset
        BY <2>1, <2>2 DEF Checkpoint
    <2>4. /\ gen' = gen /\ Current' = Current /\ FileOK(Current)
          /\ \A n : InTxn(gen, n)' <=> InTxn(gen, n)
          /\ \A n : QueueAt(gen, n)' = QueueAt(gen, n)
        BY <2>1, SameFile DEF IndInv
    <2>5. headSeq \in Nat /\ gen \in Nat /\ headSeq <= gen /\ offset \in Nat /\ Len(Current) \in Nat
        BY <2>1, ReloadsCurrent DEF Reloading
    <2>6. /\ (pos.seq <= gen)'
          /\ (pos.saved /\ pos.seq = gen => pos.off <= Len(Current))'
          /\ PersistedAtBoundary'
        BY <2>2, <2>3, <2>4, <2>5 DEF PersistedAtBoundary
    <2>7. ProcessStart' /\ ReloadOK'
        BY <2>1 DEF ProcessStart, ReloadOK, Polling, Reloading
    <2>8. ASSUME headSeq = gen, NEW k \in Key PROVE PassRow(k)'
        <3>1. SavedRow(k)
            BY <2>2, <2>8
        <3>2. RowCovered(k, offset)'
            BY <2>1, <2>4, <3>1 DEF RowCovered, SavedRow
        <3>3. ~Touches(Current, k, offset, offset)
            BY <2>5, TouchesMonotone
        <3> QED
            BY <2>1, <2>2, <2>3, <2>4, <3>2, <3>3 DEF PassRow, NoWrites
    <2>9. PassOK'
        BY <2>1, <2>2, <2>3, <2>4, <2>5, <2>8 DEF PassOK
    <2> QED
        BY <1>1, <2>4, <2>6, <2>7, <2>9 DEF IndInv
<1> QED
    BY <1>2, <1>3, <1>4, <1>5, <1>6, <1>7 DEF Reload

-----------------------------------------------------------------------------
(***************************************************************************)
(* The process.                                                            *)
(***************************************************************************)
\* A process that ends leaves a position that is safe to resume from.
LEMMA DownStep ==
    ASSUME IndInv, TypeOK', Down, UNCHANGED files, PositionOK',
           (pos.seq <= gen)', PersistedAtBoundary',
           (pos.saved /\ pos.seq = gen => pos.off <= Len(Current))'
    PROVE  IndInv'
<1>1. FileOK(Current)'
    BY SameFile DEF IndInv
<1>2. ProcessStart'
    BY DEF ProcessStart, Down
<1>3. PassOK' /\ ReloadOK'
    BY DEF PassOK, ReloadOK, Down, Polling, Reloading
<1> QED
    BY <1>1, <1>2, <1>3 DEF IndInv

\* A shutdown between two polls saves a position that is safe to resume from.
LEMMA StopStep ==
    ASSUME IndInv, TypeOK', Stop
    PROVE  IndInv'
<1> USE DEF logVars
<1>1. /\ pc = "idle" /\ curIno # NoInode /\ Down /\ UNCHANGED <<files, table, lost>>
    BY DEF Stop
<1>2. restored
    BY <1>1 DEF IndInv, ProcessStart, Polling
<1>3. /\ TypeOK /\ pos.saved /\ pos.seq = curSeq /\ pos.off = persisted
      /\ ~explicit => buf = NoWrites
      /\ curSeq = gen => /\ persisted <= offset /\ offset <= Len(Current)
                         /\ explicit <=> InTxn(gen, offset)
                         /\ \A k \in Key : PassRow(k)
    BY <1>1, <1>2 DEF IndInv, PassOK, Polling
<1>4. /\ gen' = gen /\ Current' = Current
      /\ \A n : InTxn(gen, n)' <=> InTxn(gen, n)
      /\ \A n : QueueAt(gen, n)' = QueueAt(gen, n)
    BY <1>1, SameFile
<1>5. curSeq \in Nat /\ gen \in Nat /\ curSeq <= gen
    BY <1>3, CurrentFile DEF TypeOK, ParserType, gen
<1>6. CASE explicit
    <2>1. pos' = pos
        BY <1>6 DEF Stop
    <2>2. PositionOK'
        <3> SUFFICES ASSUME pos.seq = gen, NEW k \in Key PROVE RowCovered(k, pos.off)'
            BY <1>4, <2>1 DEF PositionOK
        <3>1. RowCovered(k, persisted)
            BY <1>1, <1>2, <1>3, PersistedCovered DEF Polling
        <3> QED
            BY <1>1, <1>3, <1>4, <2>1, <3>1 DEF RowCovered
    <2> QED
        BY <1>1, <2>1, <2>2, SamePosition, DownStep
<1>7. CASE ~explicit
    <2>1. pos' = [saved |-> TRUE, ino |-> curIno, off |-> offset, seq |-> curSeq]
        BY <1>7 DEF Stop
    <2>2. /\ (pos.seq <= gen)' /\ PersistedAtBoundary'
          /\ (pos.saved /\ pos.seq = gen => pos.off <= Len(Current))'
        BY <1>3, <1>4, <1>5, <1>7, <2>1 DEF PersistedAtBoundary
    <2>3. PositionOK'
        <3> SUFFICES ASSUME curSeq = gen, NEW k \in Key PROVE RowCovered(k, pos.off)'
            BY <1>4, <2>1 DEF PositionOK
        <3>1. buf[k] = Unset /\ PassRow(k)
            BY <1>3, <1>7 DEF NoWrites
        <3>2. RowCovered(k, offset)
            BY <3>1 DEF PassRow, RowCovered
        <3> QED
            BY <1>1, <1>4, <2>1, <3>2 DEF RowCovered
    <2> QED
        BY <1>1, <2>2, <2>3, DownStep
<1> QED
    BY <1>6, <1>7

\* A crash, between any two of the tables' commits, keeps the invariant.
LEMMA CrashStep ==
    ASSUME Faults = {}, IndInv, TypeOK', Crash
    PROVE  IndInv'
<1> USE DEF logVars
<1>1. /\ pc # "down" /\ Down /\ UNCHANGED <<files, pos>>
      /\ ~(pc \in Reloading /\ pos.saved /\ pos.seq = gen)
    BY DEF Crash
<1>2. /\ gen' = gen /\ Current' = Current
      /\ \A n : QueueAt(gen, n)' = QueueAt(gen, n)
    BY <1>1, SameFile
<1>3. PICK ks \in SUBSET Key :
        /\ \A k \in ks : Committing[k] # Unset
        /\ table' = Landed(Committing, ks)
        /\ lost' = lost \ ks
    <2>1. PICK done \in SUBSET Table :
            LET ks == {k \in Key : TableOf[k] \in done /\ Committing[k] # Unset} IN
            table' = Landed(Committing, ks) /\ lost' = lost \ ks
        BY DEF Crash
    <2> DEFINE ks == {k \in Key : TableOf[k] \in done /\ Committing[k] # Unset}
    <2>2. ks \in SUBSET Key /\ \A k \in ks : Committing[k] # Unset
        OBVIOUS
    <2> QED
        BY <2>1, <2>2
<1>4. ASSUME NEW k \in Key, k \notin ks
      PROVE  table'[k] = table[k] /\ (k \in lost' <=> k \in lost)
    BY <1>3, <1>4 DEF Landed
<1>5. PositionOK'
    <2> SUFFICES ASSUME pos.saved, pos.seq = gen, NEW k \in Key PROVE RowCovered(k, pos.off)'
        BY <1>1, <1>2 DEF PositionOK
    <2>1. pc \in Polling
        BY <1>1 DEF IndInv, TypeOK, ControlType
    <2>2. CASE ~restored
        <3>1. PositionOK /\ pc = "idle"
            BY <1>1, <2>1, <2>2 DEF IndInv, ProcessStart
        <3>2. k \notin ks
            BY <1>3, <3>1 DEF Committing, AtCommit, NoWrites
        <3> QED
            BY <1>1, <1>2, <1>4, <3>1, <3>2 DEF PositionOK, RowCovered
    <2>3. CASE restored
        <3>1. pos.off = persisted /\ curSeq = gen
            BY <2>1, <2>3 DEF IndInv, PassOK
        <3>2. /\ RowCovered(k, persisted)
              /\ buf[k] # Unset => Touches(Current, k, persisted, Len(Current))
            BY <2>1, <2>3, <3>1, PersistedCovered
        <3>3. k \in ks => buf[k] # Unset
            BY <1>3, <2>1 DEF Committing, NoWrites, Polling
        <3> QED
            BY <1>1, <1>2, <1>4, <3>1, <3>2, <3>3 DEF RowCovered
    <2> QED
        BY <2>2, <2>3
<1> QED
    BY <1>1, <1>5, SamePosition, DownStep

\* A step that moves neither rows nor control.
LEMMA SameStep ==
    ASSUME IndInv, TypeOK',
           UNCHANGED <<files, table, pos, pc, restored, offset, fd, headSeq, curSeq, curIno,
                       explicit, buf, persisted, before, seen, lost>>
    PROVE  IndInv'
<1>1. /\ FileOK(Current)' /\ (pos.seq <= gen)'
      /\ (pos.saved /\ pos.seq = gen => pos.off <= Len(Current))'
      /\ PersistedAtBoundary'
    BY SamePosition
<1>2. gen' = gen /\ Current' = Current /\ \A n : InTxn(gen, n)' <=> InTxn(gen, n)
    BY SameFile
<1>3. \A k \in Key : /\ PassRow(k)' <=> PassRow(k)
                     /\ ReloadRow(k)' <=> ReloadRow(k)
                     /\ SavedRow(k)' <=> SavedRow(k)
                     /\ \A n : RowCovered(k, n)' <=> RowCovered(k, n)
    BY SameRows
<1>4. PositionOK' <=> PositionOK
    BY <1>2, <1>3 DEF PositionOK
<1>5. ProcessStart'
    BY <1>4 DEF IndInv, ProcessStart
<1>6. PassOK'
    BY <1>2, <1>3 DEF IndInv, PassOK
<1>7. ReloadOK'
    BY <1>2, <1>3 DEF IndInv, ReloadOK
<1> QED
    BY <1>1, <1>5, <1>6, <1>7 DEF IndInv

\* A restart keeps the invariant.
LEMMA StartStep ==
    ASSUME IndInv, TypeOK', Start
    PROVE  IndInv'
<1> USE DEF logVars, durable, ident, txn
<1>1. /\ pc = "down" /\ pc' = "idle"
      /\ UNCHANGED <<files, table, pos, restored, offset, curSeq, curIno, explicit, buf, lost>>
    BY DEF Start, parser
<1>2. /\ FileOK(Current)' /\ (pos.seq <= gen)'
      /\ (pos.saved /\ pos.seq = gen => pos.off <= Len(Current))'
      /\ PersistedAtBoundary'
    BY <1>1, SamePosition
<1>3. /\ PositionOK /\ offset = 0 /\ curSeq = 0 /\ curIno = NoInode /\ ~explicit /\ buf = NoWrites
      /\ ~restored
    BY <1>1 DEF IndInv, ProcessStart
<1>4. PositionOK'
    BY <1>1, <1>3, SameFile DEF PositionOK, RowCovered
<1>5. ProcessStart'
    BY <1>1, <1>3, <1>4 DEF ProcessStart
<1>6. PassOK' /\ ReloadOK'
    BY <1>1, <1>3 DEF PassOK, ReloadOK, Reloading
<1> QED
    BY <1>2, <1>5, <1>6 DEF IndInv

-----------------------------------------------------------------------------
\* The initial state satisfies the inductive invariant.
LEMMA IndInit == Init => IndInv
<1> SUFFICES ASSUME Init PROVE IndInv
    OBVIOUS
<1>1. TypeOK
    BY TypeInit
<1>2. gen = 1 /\ Current = <<>> /\ Len(Current) = 0
    BY DEF Init, gen, Current
<1>3. FileOK(Current)
    BY <1>2 DEF FileOK
<1>4. pos = NoPosition /\ ~pos.saved /\ pos.seq = 0
    BY DEF Init, NoPosition
<1>5. PersistedAtBoundary /\ PositionOK
    BY <1>4 DEF PersistedAtBoundary, PositionOK
<1>6. ProcessStart /\ PassOK /\ ReloadOK
    BY <1>5 DEF Init, ProcessStart, PassOK, ReloadOK, Polling, Reloading
<1> QED
    BY <1>1, <1>2, <1>3, <1>4, <1>5, <1>6 DEF IndInv

\* Every step keeps the inductive invariant when no fault is enabled.
LEMMA IndStep ==
    ASSUME Faults = {}, IndInv, [Next]_vars
    PROVE  IndInv'
<1>1. TypeOK'
    BY TypeStep DEF IndInv
<1>2. CASE Environment
    <2>1. ~PassUnapplied /\ ~ReloadSaveFails /\ ~ReloadFails /\ ~StopInRead
        BY DEF PassUnapplied, ReloadSaveFails, ReloadFails, StopInRead
    <2>2. CASE Resync
        BY <1>1, <2>2, SameStep DEF Resync, logVars, durable, parser, ident, txn, reload
    <2> QED
        BY <1>1, <1>2, <2>1, <2>2, ConflictStep, BatchStep, StopStep, CrashStep DEF Environment
<1>3. CASE UNCHANGED vars
    BY <1>1, <1>3, SameStep DEF vars
<1> QED
    BY <1>1, <1>2, <1>3, ScheddStep, StartStep, PollStep, ReloadStep DEF Next

\* The inductive invariant.
THEOREM Inductive ==
    ASSUME Faults = {}
    PROVE  Spec => []IndInv
<1>1. IndInv /\ [Next]_vars => IndInv'
    BY IndStep
<1> QED
    BY IndInit, <1>1, PTL DEF Spec

\* Whatever compactions, crashes, stops, conflicts and resyncs happened, a
\* position that restore() would accept misses nothing of the log.
THEOREM ResumeIsSafe ==
    ASSUME Faults = {}
    PROVE  Spec => []ResumeSafe
<1>1. IndInv => ResumeSafe
    BY DEF IndInv, ProcessStart, PositionOK, ResumeSafe, WouldResume, SeqKnown
<1> QED
    BY <1>1, Inductive, PTL

\* An idle tailer at the end of the log, outside a transaction, mirrors the
\* schedd's queue exactly.
THEOREM CaughtUpIsExact ==
    ASSUME Faults = {}
    PROVE  Spec => []CaughtUpExact
<1>1. IndInv => CaughtUpExact
    <2> SUFFICES ASSUME IndInv, pc = "idle", restored, curSeq = gen, offset = Len(Current),
                        ~explicit, NEW k \in Key \ lost
                 PROVE  table[k] = QueueAt(gen, offset)[k]
        BY DEF CaughtUpExact
    <2>1. PassRow(k) /\ buf = NoWrites /\ TypeOK
        BY DEF IndInv, PassOK, Polling
    <2>2. offset \in Nat
        BY <2>1 DEF TypeOK, ParserType
    <2>3. ~Touches(Current, k, offset, Len(Current))
        BY <2>2, TouchesMonotone
    <2> QED
        BY <2>1, <2>3 DEF PassRow, RowCovered, NoWrites
<1> QED
    BY <1>1, Inductive, PTL

\* The position on disk is a transaction boundary of the current log.
THEOREM PersistedIsBoundary ==
    ASSUME Faults = {}
    PROVE  Spec => []PersistedAtBoundary
<1>1. IndInv => PersistedAtBoundary
    BY DEF IndInv
<1> QED
    BY <1>1, Inductive, PTL

\* A reload that completes leaves the tables equal to the log it read.
THEOREM ReloadIsExact ==
    ASSUME Faults = {}
    PROVE  Spec => []ReloadExact
<1>1. IndInv => ReloadExact
    BY DEF IndInv, ReloadOK, ReloadExact, SavedRow, Reloading
<1> QED
    BY <1>1, Inductive, PTL

\* No step of a reload deletes the row of an ad that is live where it read.
THEOREM NoLiveRowIsDeleted ==
    ASSUME Faults = {}
    PROVE  Spec => NoLiveRowDeleted
<1> DEFINE Keeps == \A k \in Key :
             (/\ table[k] # NoRow /\ table'[k] = NoRow
              /\ pc \in {"rlfinish", "rlsweep"} /\ curSeq = gen /\ k \notin lost')
             => QueueAt(gen, offset)[k] = NoRow
<1>1. IndInv /\ [Next]_vars => [Keeps]_vars
    <2> SUFFICES ASSUME IndInv, Next, NEW k \in Key, table[k] # NoRow, table'[k] = NoRow,
                        pc \in {"rlfinish", "rlsweep"}, curSeq = gen, k \notin lost'
                 PROVE  QueueAt(gen, offset)[k] = NoRow
        OBVIOUS
    <2>1. ReloadRow(k) /\ TypeOK
        BY DEF IndInv, ReloadOK, Reloading
    <2>2. CASE ReloadFinish
        <3>1. table'[k] = (IF buf[k] # Unset THEN buf[k] ELSE table[k])
            BY <2>2, CommitRow DEF ReloadFinish
        <3> QED
            BY <2>1, <3>1 DEF ReloadRow
    <2>3. CASE ReloadSweep
        <3>1. k \in before \ seen
            BY <2>3 DEF ReloadSweep, Landed, Swept
        <3> QED
            BY <2>1, <3>1 DEF ReloadRow
    <2>4. CASE Crash
        <3>1. Committing[k] = NoRow
            BY <2>4 DEF Crash, Landed
        <3>2. CASE pc = "rlfinish"
            BY <2>1, <3>1, <3>2, RowAssumption DEF Committing, ReloadRow, AtCommit
        <3>3. CASE pc = "rlsweep"
            BY <2>1, <3>1, <3>3, RowAssumption DEF Committing, ReloadRow, AtCommit, Swept
        <3> QED
            BY <3>2, <3>3
    <2>5. table' = table \/ ReloadFinish \/ ReloadSweep \/ Crash
        BY DEF Next, Schedd, ScheddWrites, ScheddBegins, ScheddEnds, ScheddCompacts,
               ScheddAppends, Start, Poll, Resume, RestoreReloads, PollResyncs, PollSequence,
               PollIdentity, PollProbe, PollOpen, ReadWrite, ReadBegin, ReadEnd, PassEnds,
               Reload, ReloadOpen, ReloadEntry, ReloadEOF, ReloadSave, Environment,
               PassConflicts, AtCommit, PassUnapplied, ReloadBatch, ReloadSaveFails,
               ReloadFails, Stop, StopInRead, Resync, durable
    <2> QED
        BY <2>2, <2>3, <2>4, <2>5
<1>2. Spec => [][Keeps]_vars
    BY <1>1, Inductive, PTL DEF Spec
<1> QED
    BY <1>2 DEF NoLiveRowDeleted

-----------------------------------------------------------------------------
(***************************************************************************)
(* An unfinished transaction.  IndInv lets a row run ahead of the position *)
(* when any later entry overwrites it, an entry of the open transaction    *)
(* too.  The rows are better than that: what runs ahead was written by a   *)
(* commit, and a commit happens where a transaction ends, so the entry     *)
(* that overwrites the row is before a boundary that is in the file.       *)
(***************************************************************************)
DoneTouches(f, k, n) == \E b \in n..Len(f) : ~OpenAfter(f, b) /\ Touches(f, k, n, b)

\* Key k's row is right for position n, or for a boundary after it.
RowSettled(k, n) == table[k] = QueueAt(gen, n)[k] \/ DoneTouches(Current, k, n) \/ k \in lost

\* The last boundary at or before position n.
LastBoundary(f, b, n) ==
    b \in 0..n /\ ~OpenAfter(f, b) /\ \A m \in b + 1..n : OpenAfter(f, m)

PositionSettled ==
    (pc = "down" \/ pc \in Polling) /\ pos.saved /\ pos.seq = gen =>
        \A k \in Key : RowSettled(k, pos.off)

TxnUnshown ==
    pc \in Polling /\ restored /\ curSeq = gen /\ explicit =>
        \A b \in 0..offset : LastBoundary(Current, b, offset) => \A k \in Key : RowSettled(k, b)

TxnInv == PositionSettled /\ TxnUnshown

\* Every position has a last boundary: the start of the file is one.
LEMMA LastBoundaryExists ==
    ASSUME NEW f, Len(f) \in Nat, NEW n \in Nat
    PROVE  \E b \in 0..n : LastBoundary(f, b, n)
<1> DEFINE S == {d \in 0..n : ~OpenAfter(f, n - d)}
<1>1. S \in SUBSET Nat
    OBVIOUS
<1>2. n \in S
    <2>1. n - n = 0 /\ ~OpenAfter(f, 0)
        BY DEF OpenAfter
    <2> QED BY <2>1
<1>3. PICK d \in S : \A y \in S : d <= y
    <2>1. IsWellFoundedOn(OpToRel(<, Nat), Nat)
        BY NatLessThanWellFounded
    <2>2. PICK d \in S : \A y \in S : ~(<<y, d>> \in OpToRel(<, Nat))
        BY <1>1, <1>2, <2>1, WFMin
    <2>3. ASSUME NEW y \in S, y < d PROVE FALSE
        <3>1. y \in Nat /\ d \in Nat
            BY <1>1
        <3>2. <<y, d>> \in Nat \X Nat /\ <<y, d>>[1] < <<y, d>>[2]
            BY <2>3, <3>1
        <3>3. <<y, d>> \in OpToRel(<, Nat)
            BY <3>2 DEF OpToRel
        <3> QED BY <2>2, <3>3
    <2> HIDE DEF S
    <2>4. \A y \in S : y \in Nat /\ d \in Nat
        BY <1>1
    <2> QED BY <2>3, <2>4
<1>4. d \in 0..n /\ n - d \in 0..n /\ ~OpenAfter(f, n - d)
    OBVIOUS
<1>5. ASSUME NEW m \in (n - d) + 1..n, ~OpenAfter(f, m) PROVE FALSE
    <2>1. n - m \in 0..n /\ n - m < d /\ n - (n - m) = m
        BY <1>4, <1>5
    <2>2. n - m \in S
        BY <1>5, <2>1
    <2> QED BY <1>3, <1>4, <2>1, <2>2
<1> QED BY <1>4, <1>5 DEF LastBoundary

\* What lies before a boundary, seen from an earlier and from a later position.
LEMMA DoneMoves ==
    ASSUME NEW f, Len(f) \in Nat, NEW k \in Key, NEW m \in Nat, NEW n \in Nat, m <= n
    PROVE  /\ DoneTouches(f, k, n) => DoneTouches(f, k, m)
           /\ DoneTouches(f, k, m) /\ ~Touches(f, k, m, n) => DoneTouches(f, k, n)
           /\ \A b \in n..Len(f) : ~OpenAfter(f, b) /\ Touches(f, k, m, n) => DoneTouches(f, k, m)
<1>1. DoneTouches(f, k, n) => DoneTouches(f, k, m)
    <2> SUFFICES ASSUME NEW b \in n..Len(f), ~OpenAfter(f, b), Touches(f, k, n, b)
                 PROVE  DoneTouches(f, k, m)
        BY DEF DoneTouches
    <2>1. b \in m..Len(f) /\ Touches(f, k, m, b)
        BY DEF Touches
    <2> QED BY <2>1 DEF DoneTouches
<1>2. ASSUME DoneTouches(f, k, m), ~Touches(f, k, m, n) PROVE DoneTouches(f, k, n)
    <2>1. PICK b \in m..Len(f) : ~OpenAfter(f, b) /\ Touches(f, k, m, b)
        BY <1>2 DEF DoneTouches
    <2>2. PICK i \in m + 1..b : f[i].key = k
        BY <2>1 DEF Touches
    <2>3. ~(i \in m + 1..n)
        BY <1>2, <2>2 DEF Touches
    <2>4. i \in n + 1..b /\ b \in n..Len(f)
        BY <2>1, <2>2, <2>3
    <2>5. Touches(f, k, n, b)
        BY <2>2, <2>4 DEF Touches
    <2> QED BY <2>1, <2>4, <2>5 DEF DoneTouches
<1>3. ASSUME NEW b \in n..Len(f), ~OpenAfter(f, b), Touches(f, k, m, n) PROVE DoneTouches(f, k, m)
    <2>1. b \in m..Len(f) /\ Touches(f, k, m, b)
        BY <1>3 DEF Touches
    <2> QED BY <1>3, <2>1 DEF DoneTouches
<1> QED BY <1>1, <1>2, <1>3

\* A row that is not written, in a log that is not.
LEMMA SettledSame ==
    ASSUME UNCHANGED files, NEW k \in Key, NEW n, table'[k] = table[k], k \in lost => k \in lost',
           RowSettled(k, n)
    PROVE  RowSettled(k, n)'
<1>1. Current' = Current /\ QueueAt(gen, n)' = QueueAt(gen, n)
    BY SameFile
<1> QED BY <1>1 DEF RowSettled

\* A restored tailer of the current file.
LEMMA InPass ==
    ASSUME IndInv, PositionSettled, pc \in Polling, restored, curSeq = gen
    PROVE  /\ offset \in Nat /\ persisted \in Nat /\ Len(Current) \in Nat /\ Current \in Seq(Entry)
           /\ persisted <= offset /\ offset <= Len(Current)
           /\ pos.saved /\ pos.seq = gen /\ pos.off = persisted
           /\ explicit <=> OpenAfter(Current, offset)
           /\ \A k \in Key : PassRow(k) /\ RowSettled(k, persisted)
<1>1. TypeOK
    BY DEF IndInv
<1>2. /\ persisted <= offset /\ offset <= Len(Current)
      /\ pos.saved /\ pos.seq = gen /\ pos.off = persisted
      /\ explicit <=> InTxn(gen, offset)
      /\ \A k \in Key : PassRow(k)
    BY DEF IndInv, PassOK
<1>3. \A k \in Key : RowSettled(k, persisted)
    BY <1>2 DEF PositionSettled
<1>4. offset \in Nat /\ persisted \in Nat
    BY <1>1 DEF TypeOK, ParserType
<1> QED BY <1>1, <1>2, <1>3, <1>4, CurrentFile

\* A key that was not met since the position was saved is right at the offset.
LEMMA UntouchedSettled ==
    ASSUME IndInv, PositionSettled, pc \in Polling, restored, curSeq = gen, NEW k \in Key,
           ~Touches(Current, k, persisted, offset)
    PROVE  RowSettled(k, offset) /\ buf[k] = Unset
<1>1. /\ offset \in Nat /\ persisted \in Nat /\ Len(Current) \in Nat /\ persisted <= offset
      /\ PassRow(k) /\ RowSettled(k, persisted)
    BY InPass
<1>2. buf[k] = Unset /\ QueueAt(gen, offset)[k] = QueueAt(gen, persisted)[k]
    BY <1>1 DEF PassRow
<1>3. DoneTouches(Current, k, persisted) => DoneTouches(Current, k, offset)
    BY <1>1, DoneMoves
<1> QED BY <1>1, <1>2, <1>3 DEF RowSettled

\* commitAll makes every row right at the offset.
LEMMA CommitSettles ==
    ASSUME IndInv, PositionSettled, pc \in Polling, restored, curSeq = gen, UNCHANGED files,
           NEW k \in Key, NEW n, n = offset,
           table'[k] = (IF buf[k] # Unset THEN buf[k] ELSE table[k]),
           buf[k] = Unset => (k \in lost => k \in lost')
    PROVE  RowSettled(k, n)'
<1>1. PassRow(k)
    BY InPass
<1>2. CASE Touches(Current, k, persisted, offset)
    <2>1. table'[k] = QueueAt(gen, n)[k]
        BY <1>1, <1>2 DEF PassRow
    <2>2. QueueAt(gen, n)' = QueueAt(gen, n)
        BY SameFile
    <2> QED BY <2>1, <2>2 DEF RowSettled
<1>3. CASE ~Touches(Current, k, persisted, offset)
    BY <1>3, UntouchedSettled, SettledSame
<1> QED BY <1>2, <1>3

\* A commit at a boundary, whole, in part or superseded, keeps the rows right
\* for the position on disk.
LEMMA CommitKeeps ==
    ASSUME IndInv, PositionSettled, pc \in Polling, restored, curSeq = gen, UNCHANGED files,
           NEW b \in offset..Len(Current), ~OpenAfter(Current, b),
           NEW k \in Key, NEW n, n = persisted,
           buf[k] = Unset => table'[k] = table[k] /\ (k \in lost => k \in lost')
    PROVE  RowSettled(k, n)'
<1>1. /\ offset \in Nat /\ persisted \in Nat /\ Len(Current) \in Nat /\ persisted <= offset
      /\ RowSettled(k, n)
    BY InPass
<1>2. CASE Touches(Current, k, persisted, offset)
    <2>1. DoneTouches(Current, k, n)
        BY <1>1, <1>2, DoneMoves
    <2>2. Current' = Current
        BY SameFile
    <2> QED BY <2>1, <2>2 DEF RowSettled
<1>3. CASE ~Touches(Current, k, persisted, offset)
    BY <1>1, <1>3, UntouchedSettled, SettledSame
<1> QED BY <1>2, <1>3

\* Where commitAll runs, the file has a boundary at or after the offset.
LEMMA CommitBoundary ==
    ASSUME IndInv, PositionSettled, pc = "read", curSeq = gen,
           \/ ~explicit
           \/ ~AtEOF /\ NextOp.op = "end"
    PROVE  \E b \in offset..Len(Current) : ~OpenAfter(Current, b)
<1>1. restored /\ (AtEOF <=> offset >= Len(Current)) /\ NextOp = Current[offset + 1]
    BY ReadsCurrent
<1>2. /\ offset \in Nat /\ Len(Current) \in Nat /\ offset <= Len(Current) /\ Current \in Seq(Entry)
      /\ explicit <=> OpenAfter(Current, offset)
    BY <1>1, InPass DEF Polling
<1>3. CASE ~explicit
    BY <1>2, <1>3
<1>4. CASE ~AtEOF /\ NextOp.op = "end"
    <2>1. offset < Len(Current) /\ FileOK(Current)
        BY <1>1, <1>2, <1>4 DEF IndInv
    <2>2. ~OpenAfter(Current, offset + 1)
        BY <1>1, <1>2, <1>4, <2>1, NextTxn
    <2> QED BY <1>2, <2>1, <2>2
<1> QED BY <1>3, <1>4

-----------------------------------------------------------------------------
\* A step that writes no row and no position, and does not enter a pass.
LEMMA TxnFrame ==
    ASSUME TxnInv, UNCHANGED <<files, table, pos, lost>>,
           pc' = "down" \/ pc' \in Polling => pc = "down" \/ pc \in Polling,
           \/ ~explicit'
           \/ ~(pc' \in Polling /\ restored')
           \/ pc \in Polling /\ restored /\ UNCHANGED <<offset, explicit, curSeq>>
    PROVE  TxnInv'
<1>1. gen' = gen /\ Current' = Current
    BY SameFile
<1>2. \A k \in Key : \A n : RowSettled(k, n) => RowSettled(k, n)'
    BY SettledSame
<1>3. PositionSettled'
    <2> SUFFICES ASSUME pc = "down" \/ pc \in Polling, pos.saved, pos.seq = gen, NEW k \in Key
                 PROVE  RowSettled(k, pos.off)'
        BY <1>1 DEF PositionSettled
    <2>1. PICK n : n = pos.off
        OBVIOUS
    <2>2. RowSettled(k, n)'
        BY <1>2, <2>1 DEF TxnInv, PositionSettled
    <2> QED BY <2>1, <2>2
<1>4. TxnUnshown'
    BY <1>1, <1>2 DEF TxnInv, TxnUnshown
<1> QED BY <1>3, <1>4 DEF TxnInv

\* During a reload the rows are the reload's business.
LEMMA TxnInReload ==
    ASSUME pc' \in Reloading
    PROVE  TxnInv'
BY DEF TxnInv, PositionSettled, TxnUnshown, Polling, Reloading

\* Reading one entry that commits nothing.
LEMMA TxnEntry ==
    ASSUME IndInv, IndInv', TxnInv, pc = "read", pc' = "read", ~AtEOF, offset' = offset + 1,
           UNCHANGED <<files, table, pos, lost, restored, curSeq>>,
           explicit' => explicit
    PROVE  TxnInv'
<1>1. gen' = gen /\ Current' = Current
    BY SameFile
<1>2. PositionSettled'
    <2> SUFFICES ASSUME pos.saved, pos.seq = gen, NEW k \in Key PROVE RowSettled(k, pos.off)'
        BY <1>1 DEF PositionSettled
    <2>1. PICK n : n = pos.off
        OBVIOUS
    <2>2. RowSettled(k, n)
        BY <2>1 DEF TxnInv, PositionSettled, Polling
    <2>3. RowSettled(k, n)'
        BY <2>2, SettledSame
    <2> QED BY <2>1, <2>3
<1>3. TxnUnshown'
    <2> SUFFICES ASSUME curSeq = gen, explicit', NEW b \in 0..offset + 1,
                        LastBoundary(Current, b, offset + 1), NEW k \in Key
                 PROVE  RowSettled(k, b)'
        BY <1>1 DEF TxnUnshown
    <2>1. restored /\ offset \in Nat /\ OpenAfter(Current, offset + 1)
        <3>1. restored /\ offset \in Nat
            BY ReadsCurrent DEF IndInv, TypeOK, ParserType
        <3>2. (explicit <=> InTxn(gen, offset))'
            BY <1>1, <3>1 DEF IndInv, PassOK, Polling
        <3>3. InTxn(gen, offset)' <=> OpenAfter(Current, offset + 1)
            BY <1>1 DEF InTxn, Current, gen
        <3> QED BY <3>1, <3>2, <3>3
    <2>2. b \in 0..offset /\ LastBoundary(Current, b, offset)
        BY <2>1 DEF LastBoundary
    <2>3. RowSettled(k, b)
        BY <2>1, <2>2 DEF TxnInv, TxnUnshown, Polling
    <2> QED BY <2>3, SettledSame
<1> QED BY <1>2, <1>3 DEF TxnInv

\* Committing, and keeping the position on disk.
LEMMA PositionKept ==
    ASSUME IndInv, PositionSettled, pc \in Polling, restored, UNCHANGED <<files, pos>>,
           curSeq = gen => \E b \in offset..Len(Current) : ~OpenAfter(Current, b),
           \A k \in Key : buf[k] = Unset => table'[k] = table[k] /\ (k \in lost => k \in lost')
    PROVE  PositionSettled'
<1>1. gen' = gen /\ Current' = Current /\ pos.seq = curSeq /\ pos.off = persisted
    BY SameFile DEF IndInv, PassOK
<1> SUFFICES ASSUME curSeq = gen, NEW k \in Key PROVE RowSettled(k, pos.off)'
    BY <1>1 DEF PositionSettled
<1>2. PICK n : n = persisted
    OBVIOUS
<1>3. RowSettled(k, n)'
    BY <1>2, CommitKeeps
<1> QED BY <1>1, <1>2, <1>3

\* A BeginTransaction commits the implicit batch before it (applyEntry).
LEMMA TxnBegins ==
    ASSUME IndInv, IndInv', TxnInv, ReadBegin
    PROVE  TxnInv'
<1> USE DEF logVars, ident, conflict, reload
<1>1. /\ pc = "read" /\ pc' = "read" /\ ~AtEOF /\ offset' = offset + 1 /\ NextOp.op = "begin"
      /\ UNCHANGED <<files, pos, restored, curSeq>> /\ CommitImplicit
    BY DEF ReadBegin
<1>2. CASE explicit
    <2>1. UNCHANGED <<table, lost>>
        BY <1>1, <1>2 DEF CommitImplicit
    <2> QED BY <1>1, <1>2, <2>1, TxnEntry
<1>3. CASE ~explicit
    <2>1. CommitAll /\ restored /\ pc \in Polling
        BY <1>1, <1>3, ReadsCurrent DEF CommitImplicit, Polling
    <2>2. \A k \in Key : /\ table'[k] = (IF buf[k] # Unset THEN buf[k] ELSE table[k])
                         /\ buf[k] = Unset => (k \in lost => k \in lost')
        BY <2>1, CommitRow
    <2>3. gen' = gen /\ Current' = Current
        BY <1>1, SameFile
    <2>4. PositionSettled'
        <3>1. curSeq = gen => \E b \in offset..Len(Current) : ~OpenAfter(Current, b)
            BY <1>1, <1>3, CommitBoundary DEF TxnInv
        <3> QED BY <1>1, <2>1, <2>2, <3>1, PositionKept DEF TxnInv
    <2>5. TxnUnshown'
        <3> SUFFICES ASSUME curSeq = gen, explicit', NEW b \in 0..offset + 1,
                            LastBoundary(Current, b, offset + 1), NEW k \in Key
                     PROVE  RowSettled(k, b)'
            BY <1>1, <2>3 DEF TxnUnshown
        <3>1. offset \in Nat /\ ~OpenAfter(Current, offset)
            BY <1>3, <2>1, InPass DEF TxnInv
        <3>2. OpenAfter(Current, offset + 1)
            <4>1. (explicit <=> InTxn(gen, offset))'
                BY <1>1, <2>1, <2>3 DEF IndInv, PassOK, Polling
            <4>2. InTxn(gen, offset)' <=> OpenAfter(Current, offset + 1)
                BY <1>1, <2>3 DEF InTxn, Current, gen
            <4> QED BY <4>1, <4>2
        <3>3. b = offset
            BY <3>1, <3>2 DEF LastBoundary
        <3> QED BY <1>1, <2>1, <2>2, <3>3, CommitSettles DEF TxnInv
    <2> QED BY <2>4, <2>5 DEF TxnInv
<1> QED BY <1>2, <1>3

LEMMA TxnReads ==
    ASSUME IndInv, IndInv', TxnInv, ReadWrite \/ ReadEnd
    PROVE  TxnInv'
<1> USE DEF logVars, durable, ident, conflict, reload
<1>1. CASE ReadWrite
    BY <1>1, TxnEntry DEF ReadWrite
<1>2. CASE ReadEnd
    <2>1. /\ pc = "read" /\ pc' = "read" /\ ~AtEOF /\ offset' = offset + 1 /\ NextOp.op = "end"
          /\ UNCHANGED <<files, pos, restored, curSeq>> /\ ~explicit'
        BY <1>2 DEF ReadEnd
    <2>2. CASE explicit
        <3>1. CommitAll /\ restored /\ pc \in Polling
            BY <1>2, <2>1, <2>2, ReadsCurrent DEF ReadEnd, Polling
        <3>2. \A k \in Key : /\ table'[k] = (IF buf[k] # Unset THEN buf[k] ELSE table[k])
                             /\ buf[k] = Unset => (k \in lost => k \in lost')
            BY <3>1, CommitRow
        <3>3. curSeq = gen => \E b \in offset..Len(Current) : ~OpenAfter(Current, b)
            BY <2>1, CommitBoundary DEF TxnInv
        <3>4. PositionSettled'
            BY <2>1, <3>1, <3>2, <3>3, PositionKept DEF TxnInv
        <3> QED BY <2>1, <3>4 DEF TxnInv, TxnUnshown
    <2>3. CASE ~explicit
        <3>1. UNCHANGED <<table, lost>>
            BY <1>2, <2>3 DEF ReadEnd
        <3> QED BY <2>1, <3>1, TxnEntry
    <2> QED BY <2>2, <2>3
<1> QED BY <1>1, <1>2

\* The end of a pass: the position moves only to a boundary, with every row
\* right there.
LEMMA TxnPassEnds ==
    ASSUME IndInv, TxnInv, PassEnds
    PROVE  TxnInv'
<1> USE DEF logVars, durable, ident, conflict, reload
<1>1. /\ pc = "read" /\ pc' = "idle" /\ AtEOF /\ curSeq' = headSeq
      /\ UNCHANGED <<files, restored, offset, explicit>>
    BY DEF PassEnds
<1>2. restored /\ headSeq = curSeq /\ pc \in Polling /\ pos.seq = curSeq /\ pos.off = persisted
    BY <1>1, ReadsCurrent DEF Polling
<1>3. gen' = gen /\ Current' = Current
    BY <1>1, SameFile
<1>4. CASE explicit
    <2>1. UNCHANGED <<table, pos, lost>>
        BY <1>4 DEF PassEnds, CommitImplicit, MaybeCheckpoint, Checkpoint
    <2> QED BY <1>1, <1>2, <2>1, TxnFrame DEF Polling
<1>5. CASE ~explicit
    <2>1. CommitAll
        BY <1>5 DEF PassEnds, CommitImplicit
    <2>2. \A k \in Key : /\ table'[k] = (IF buf[k] # Unset THEN buf[k] ELSE table[k])
                         /\ buf[k] = Unset => (k \in lost => k \in lost')
        BY <2>1, CommitRow
    <2>3. CASE UNCHANGED pos
        <3>1. curSeq = gen => \E b \in offset..Len(Current) : ~OpenAfter(Current, b)
            BY <1>1, <1>5, CommitBoundary DEF TxnInv
        <3>2. PositionSettled'
            BY <1>1, <1>2, <2>2, <2>3, <3>1, PositionKept DEF TxnInv
        <3> QED BY <1>1, <1>5, <3>2 DEF TxnInv, TxnUnshown
    <2>4. CASE ~UNCHANGED pos
        <3>1. pos'.off = offset /\ pos'.seq = curSeq
            BY <2>4 DEF PassEnds, MaybeCheckpoint, Checkpoint
        <3>2. PositionSettled'
            <4> SUFFICES ASSUME curSeq = gen, NEW k \in Key PROVE RowSettled(k, pos.off)'
                BY <1>3, <3>1 DEF PositionSettled
            <4>1. PICK n : n = offset
                OBVIOUS
            <4>2. RowSettled(k, n)'
                BY <1>1, <1>2, <2>2, <4>1, CommitSettles DEF TxnInv
            <4> QED BY <3>1, <4>1, <4>2
        <3> QED BY <1>1, <1>5, <3>2 DEF TxnInv, TxnUnshown
    <2> QED BY <2>3, <2>4
<1> QED BY <1>4, <1>5

\* A conflict leaves other writers' rows only where the retry overwrites them.
LEMMA TxnConflicts ==
    ASSUME IndInv, TxnInv, PassConflicts
    PROVE  TxnInv'
<1> USE DEF logVars
<1>1. pc = "read" /\ UNCHANGED <<files, pos, restored, curSeq, lost>> /\ AtCommit
    BY DEF PassConflicts, AtCommit
<1>2. CASE StartReload(table')
    BY <1>2, TxnInReload DEF StartReload, Reloading
<1>3. CASE ~StartReload(table')
    <2>1. explicit' = FALSE /\ pc' = "idle"
        BY <1>3 DEF PassConflicts
    <2>2. PICK c \in SUBSET Pending : CommitConflicts(c)
        BY DEF PassConflicts
    <2>3. \A k \in Key : buf[k] = Unset => table'[k] = table[k]
        BY <2>2 DEF CommitConflicts, Landed, Pending
    <2>4. curSeq = gen => \E b \in offset..Len(Current) : ~OpenAfter(Current, b)
        BY <1>1, CommitBoundary DEF TxnInv, AtCommit
    <2>5. restored /\ pc \in Polling
        BY <1>1, ReadsCurrent DEF Polling
    <2>6. PositionSettled'
        BY <1>1, <2>3, <2>4, <2>5, PositionKept DEF TxnInv
    <2> QED BY <2>1, <2>6 DEF TxnInv, TxnUnshown
<1> QED BY <1>2, <1>3

\* Run's ctx.Done: the position it saves is a boundary with every row right.
LEMMA TxnStops ==
    ASSUME IndInv, TxnInv, Stop
    PROVE  TxnInv'
<1> USE DEF logVars
<1>1. /\ pc = "idle" /\ curIno # NoInode /\ UNCHANGED <<files, table, lost>> /\ pc' = "down"
    BY DEF Stop, Down
<1>2. restored /\ pc \in Polling
    BY <1>1 DEF IndInv, ProcessStart, Polling
<1>3. TxnUnshown'
    BY <1>1 DEF TxnUnshown, Polling
<1>4. CASE explicit
    <2>1. pos' = pos
        BY <1>4 DEF Stop
    <2> QED BY <1>1, <1>2, <2>1, TxnFrame DEF Polling
<1>5. CASE ~explicit
    <2>1. pos'.off = offset /\ pos'.seq = curSeq
        BY <1>5 DEF Stop
    <2>2. gen' = gen /\ buf = NoWrites
        BY <1>1, <1>2, <1>5, SameFile DEF IndInv, PassOK
    <2>3. PositionSettled'
        <3> SUFFICES ASSUME curSeq = gen, NEW k \in Key PROVE RowSettled(k, pos.off)'
            BY <2>1, <2>2 DEF PositionSettled
        <3>1. PICK n : n = offset
            OBVIOUS
        <3>2. buf[k] = Unset /\ table'[k] = table[k]
            BY <1>1, <2>2 DEF NoWrites
        <3>3. RowSettled(k, n)'
            BY <1>1, <1>2, <3>1, <3>2, CommitSettles DEF TxnInv
        <3> QED BY <2>1, <3>1, <3>3
    <2> QED BY <1>3, <2>3 DEF TxnInv
<1> QED BY <1>4, <1>5

\* A crash after some of the tables' commits.
LEMMA TxnCrashes ==
    ASSUME Faults = {}, IndInv, TxnInv, Crash
    PROVE  TxnInv'
<1> USE DEF logVars
<1>1. /\ pc # "down" /\ pc' = "down" /\ UNCHANGED <<files, pos>>
      /\ ~(pc \in Reloading /\ pos.saved /\ pos.seq = gen)
    BY DEF Crash, Down
<1>2. gen' = gen
    BY <1>1, SameFile
<1>3. TxnUnshown'
    BY <1>1 DEF TxnUnshown, Polling
<1>4. \A k \in Key : Committing[k] = Unset => table'[k] = table[k] /\ (k \in lost => k \in lost')
    BY DEF Crash, Landed
<1>5. CASE pos.saved /\ pos.seq = gen
    <2>1. pc \in Polling
        BY <1>1, <1>5 DEF IndInv, TypeOK, ControlType
    <2>2. CASE AtCommit
        <3>1. pc = "read" /\ restored
            BY <2>2, ReadsCurrent DEF AtCommit
        <3>2. curSeq = gen => \E b \in offset..Len(Current) : ~OpenAfter(Current, b)
            BY <2>2, <3>1, CommitBoundary DEF TxnInv, AtCommit
        <3>3. Committing = buf
            BY <2>2 DEF Committing
        <3>4. PositionSettled'
            BY <1>1, <1>4, <2>1, <3>1, <3>2, <3>3, PositionKept DEF TxnInv
        <3> QED BY <1>3, <3>4 DEF TxnInv
    <2>3. CASE ~AtCommit
        <3>1. Committing = NoWrites
            BY <2>1, <2>3 DEF Committing, Polling
        <3>2. \A k \in Key : table'[k] = table[k] /\ (k \in lost => k \in lost')
            BY <1>4, <3>1 DEF NoWrites
        <3>3. PositionSettled'
            <4> SUFFICES ASSUME NEW k \in Key PROVE RowSettled(k, pos.off)'
                BY DEF PositionSettled
            <4>1. PICK n : n = pos.off
                OBVIOUS
            <4>2. RowSettled(k, n)
                BY <1>5, <2>1, <4>1 DEF TxnInv, PositionSettled
            <4>3. RowSettled(k, n)'
                BY <1>1, <3>2, <4>2, SettledSame
            <4> QED BY <1>1, <4>1, <4>3
        <3> QED BY <1>3, <3>3 DEF TxnInv
    <2> QED BY <2>2, <2>3
<1>6. CASE ~(pos.saved /\ pos.seq = gen)
    BY <1>1, <1>2, <1>3, <1>6 DEF TxnInv, PositionSettled
<1> QED BY <1>5, <1>6

\* A reload ends at a boundary, with every row right there.
LEMMA TxnReloadSaves ==
    ASSUME IndInv, ReloadSave
    PROVE  TxnInv'
<1> USE DEF logVars, parser, ident, txn, conflict
<1>1. /\ pc = "rlsave" /\ ~explicit /\ curSeq = headSeq
      /\ UNCHANGED <<files, table, offset, curSeq, explicit, lost>>
    BY DEF IndInv, ReloadOK, ReloadSave, Reloading
<1>2. pos'.off = offset /\ pos'.seq = curSeq
    BY <1>1 DEF ReloadSave, Checkpoint
<1>3. gen' = gen /\ Current' = Current
    BY <1>1, SameFile
<1>4. PositionSettled'
    <2> SUFFICES ASSUME curSeq = gen, NEW k \in Key PROVE RowSettled(k, pos.off)'
        BY <1>2, <1>3 DEF PositionSettled
    <2>1. PICK n : n = offset
        OBVIOUS
    <2>2. RowSettled(k, n)
        BY <1>1, <2>1 DEF IndInv, ReloadOK, Reloading, SavedRow, RowSettled
    <2>3. RowSettled(k, n)'
        BY <1>1, <2>2, SettledSame
    <2> QED BY <1>2, <2>1, <2>3
<1> QED BY <1>1, <1>4 DEF TxnInv, TxnUnshown

\* An entry that the schedd appends moves no boundary.
LEMMA TxnAppends ==
    ASSUME IndInv, TxnInv, NEW e \in Entry, ScheddAppends(e)
    PROVE  TxnInv'
<1> USE DEF durable, parser, ident, txn, conflict, reload
<1>1. TypeOK
    BY DEF IndInv
<1>2. gen' = gen /\ Current' = Append(Current, e)
    BY <1>1, CurrentFile DEF ScheddAppends, gen, Current, TypeOK, LogType
<1>3. UNCHANGED <<table, pos, pc, restored, offset, curSeq, explicit, lost>>
    BY DEF ScheddAppends
<1>4. /\ Current \in Seq(Entry) /\ Len(Current) \in Nat /\ Len(Current') = Len(Current) + 1
      /\ \A n \in 0..Len(Current) : /\ QueueAfter(Current', n) = QueueAfter(Current, n)
                                    /\ OpenAfter(Current', n) <=> OpenAfter(Current, n)
      /\ \A n \in 0..Len(Current), m \in Nat, k \in Key :
            Touches(Current', k, m, n) <=> Touches(Current, k, m, n)
    BY <1>1, <1>2, CurrentFile, AppendedFile
<1>5. \A n \in 0..Len(Current) : QueueAt(gen, n)' = QueueAt(gen, n)
    BY <1>4 DEF QueueAt, gen, Current
<1>6. ASSUME NEW k \in Key, NEW n \in 0..Len(Current), RowSettled(k, n)
      PROVE  RowSettled(k, n)'
    <2>1. CASE DoneTouches(Current, k, n)
        <3>1. PICK b \in n..Len(Current) : ~OpenAfter(Current, b) /\ Touches(Current, k, n, b)
            BY <2>1 DEF DoneTouches
        <3>2. b \in 0..Len(Current) /\ n \in Nat
            BY <1>4
        <3>3. b \in n..Len(Current') /\ ~OpenAfter(Current', b) /\ Touches(Current', k, n, b)
            BY <1>4, <3>1, <3>2
        <3>4. DoneTouches(Current', k, n)
            BY <3>3 DEF DoneTouches
        <3> QED BY <3>4 DEF RowSettled
    <2>2. CASE ~DoneTouches(Current, k, n)
        BY <1>3, <1>5, <1>6, <2>2 DEF RowSettled
    <2> QED BY <2>1, <2>2
<1>7. PositionSettled'
    <2> SUFFICES ASSUME pc = "down" \/ pc \in Polling, pos.saved, pos.seq = gen, NEW k \in Key
                 PROVE  RowSettled(k, pos.off)'
        BY <1>2, <1>3 DEF PositionSettled
    <2>1. pos.off \in 0..Len(Current)
        BY <1>1, <1>4 DEF IndInv, TypeOK, StoreType, Position
    <2>2. PICK n \in 0..Len(Current) : n = pos.off
        BY <2>1
    <2>3. RowSettled(k, n)
        BY <2>2 DEF TxnInv, PositionSettled
    <2>4. RowSettled(k, n)'
        BY <1>6, <2>3
    <2> QED BY <1>3, <2>2, <2>4
<1>8. TxnUnshown'
    <2> SUFFICES ASSUME pc \in Polling, restored, curSeq = gen, explicit, NEW b \in 0..offset,
                        LastBoundary(Current', b, offset), NEW k \in Key
                 PROVE  RowSettled(k, b)'
        BY <1>2, <1>3 DEF TxnUnshown
    <2>1. offset \in Nat /\ offset <= Len(Current)
        BY <1>1 DEF IndInv, PassOK, TypeOK, ParserType
    <2>2. LastBoundary(Current, b, offset) /\ b \in 0..Len(Current)
        BY <1>4, <2>1 DEF LastBoundary
    <2>3. RowSettled(k, b)
        BY <2>2 DEF TxnInv, TxnUnshown
    <2> QED BY <1>6, <2>2, <2>3
<1> QED BY <1>7, <1>8 DEF TxnInv

LEMMA TxnSchedd ==
    ASSUME IndInv, TxnInv, Schedd
    PROVE  TxnInv'
<1>1. TypeOK
    BY DEF IndInv
<1>2. InTxn(gen, Len(Current)) \in BOOLEAN
    BY <1>1, CurrentFile DEF InTxn, OpenAfter, Current, Entry
<1>3. CASE ScheddWrites
    <2>1. PICK k \in Key, v \in Row :
            ScheddAppends(Appended("write", k, v, InTxn(gen, Len(Current))))
        BY <1>3 DEF ScheddWrites
    <2>2. Appended("write", k, v, InTxn(gen, Len(Current))) \in Entry
        BY <1>1, <1>2, AppendedType, KeyAssumption
    <2> QED BY <2>1, <2>2, TxnAppends
<1>4. CASE ScheddBegins
    <2>1. Appended("begin", NoKey, NoRow, TRUE) \in Entry
        BY <1>1, AppendedType DEF Row
    <2> QED BY <1>4, <2>1, TxnAppends DEF ScheddBegins
<1>5. CASE ScheddEnds
    <2>1. Appended("end", NoKey, NoRow, FALSE) \in Entry
        BY <1>1, AppendedType DEF Row
    <2> QED BY <1>5, <2>1, TxnAppends DEF ScheddEnds
<1>6. CASE ScheddCompacts
    <2>1. gen' = gen + 1 /\ gen \in Nat
        BY <1>1, <1>6, CurrentFile DEF ScheddCompacts, gen, TypeOK, LogType
    <2>2. pos.seq \in Nat /\ pos.seq <= gen /\ curSeq \in 0..gen
        BY <1>1 DEF IndInv, TypeOK, StoreType, Position, ParserType, gen
    <2>3. pos'.seq # gen' /\ curSeq' # gen'
        BY <1>6, <2>1, <2>2 DEF ScheddCompacts, durable, ident
    <2> QED BY <2>3 DEF TxnInv, PositionSettled, TxnUnshown
<1> QED BY <1>3, <1>4, <1>5, <1>6 DEF Schedd

LEMMA TxnPolls ==
    ASSUME IndInv, IndInv', TxnInv, Poll
    PROVE  TxnInv'
<1> USE DEF logVars, durable, parser, ident, txn, conflict, reload
<1>1. CASE Resume
    <2>1. ~explicit' /\ pc' = pc /\ UNCHANGED <<files, table, pos, lost>>
        BY <1>1 DEF Resume, IndInv, ProcessStart, Polling
    <2> QED BY <2>1, TxnFrame
<1>2. CASE \E rows : StartReload(rows)
    BY <1>2, TxnInReload DEF StartReload, Reloading
<1>3. CASE /\ PollSequence \/ PollIdentity \/ PollProbe \/ PollOpen
           /\ ~\E rows : StartReload(rows)
    <2>1. /\ UNCHANGED <<files, table, pos, lost, offset, explicit, curSeq, restored>>
          /\ pc \in Polling /\ pc' \in Polling
        BY <1>3 DEF PollSequence, PollIdentity, PollProbe, PollOpen, Polling
    <2> QED BY <2>1, TxnFrame
<1>4. CASE RestoreReloads \/ PollResyncs
    BY <1>2, <1>4 DEF RestoreReloads, PollResyncs
<1> QED BY <1>1, <1>2, <1>3, <1>4, TxnReads, TxnBegins, TxnPassEnds DEF Poll

LEMMA TxnStep ==
    ASSUME Faults = {}, IndInv, IndInv', TxnInv, [Next]_vars
    PROVE  TxnInv'
<1> USE DEF logVars, durable, parser, ident, txn, conflict, reload
<1>1. CASE Start
    <2>1. /\ ~explicit' /\ pc = "down" /\ UNCHANGED <<files, table, pos, lost>>
        BY <1>1 DEF Start, IndInv, ProcessStart
    <2> QED BY <2>1, TxnFrame
<1>2. CASE Reload /\ ~ReloadSave
    BY <1>2, TxnInReload DEF Reload, ReloadOpen, ReloadEntry, ReloadEOF, ReloadFinish, ReloadSweep,
       Reloading
<1>3. CASE Resync
    <2>1. UNCHANGED <<files, table, pos, lost, pc, restored, offset, explicit, curSeq>>
        BY <1>3 DEF Resync
    <2> QED BY <2>1, TxnFrame
<1>4. CASE ReloadBatch
    BY <1>4, TxnInReload DEF ReloadBatch, Reloading
<1>5. ~PassUnapplied /\ ~ReloadSaveFails /\ ~ReloadFails /\ ~StopInRead
    BY DEF PassUnapplied, ReloadSaveFails, ReloadFails, StopInRead
<1>6. CASE UNCHANGED vars
    <2>1. UNCHANGED <<files, table, pos, lost, pc, restored, offset, explicit, curSeq>>
        BY <1>6 DEF vars
    <2> QED BY <2>1, TxnFrame
<1>7. CASE Environment
    BY <1>3, <1>4, <1>5, <1>7, TxnConflicts, TxnStops, TxnCrashes DEF Environment
<1>8. CASE Reload
    BY <1>2, <1>8, TxnReloadSaves
<1> QED BY <1>1, <1>6, <1>7, <1>8, TxnSchedd, TxnPolls DEF Next

\* When a running tailer is idle at the end of a log whose last transaction is
\* unfinished, the tables hold what the schedd had committed: nothing of the
\* transaction shows, whatever compactions, crashes, stops, conflicts and resyncs
\* happened before.  Of the tables while no process runs it says nothing: a crash
\* may leave some tables' commits done (applyEntry, readAndApply, commitAll).
THEOREM NoTransactionShowsInPart ==
    ASSUME Faults = {}
    PROVE  Spec => []NoPartialTxn
<1>1. Init => TxnInv
    BY DEF Init, TxnInv, PositionSettled, TxnUnshown, NoPosition, Polling
<1>2. IndInv /\ IndInv' /\ TxnInv /\ [Next]_vars => TxnInv'
    BY TxnStep
<1>3. IndInv /\ TxnInv => NoPartialTxn
    <2> SUFFICES ASSUME IndInv, TxnInv, pc = "idle", restored, curSeq = gen,
                        offset = Len(Current), InTxn(gen, offset), NEW k \in Key, k \notin lost
                 PROVE  table[k] = Committed(gen)[k]
        BY DEF NoPartialTxn
    <2>1. /\ offset \in Nat /\ Len(Current) \in Nat /\ pc \in Polling
          /\ explicit <=> OpenAfter(Current, offset)
        BY InPass DEF TxnInv, Polling
    <2>2. TypeOK
        BY DEF IndInv
    <2>3. explicit
        BY <2>1, <2>2, CurrentFile
    <2> DEFINE Last(n) == /\ ~InTxn(gen, n)
                          /\ \A m \in n + 1..Len(files[gen]) : InTxn(gen, m)
    <2>4. PICK b : b = CHOOSE n \in 0..Len(files[gen]) : Last(n)
        OBVIOUS
    <2>5. \A n \in 0..Len(Current) : Last(n) <=> LastBoundary(Current, n, offset)
        BY <2>2, CurrentFile DEF LastBoundary, Current
    <2>6. \E n \in 0..Len(Current) : LastBoundary(Current, n, offset)
        BY <2>1, LastBoundaryExists
    <2>7. b \in 0..Len(Current) /\ LastBoundary(Current, b, offset)
        BY <2>4, <2>5, <2>6 DEF Current
    <2>8. Committed(gen) = QueueAt(gen, b)
        BY <2>4 DEF Committed
    <2>9. RowSettled(k, b)
        BY <2>1, <2>3, <2>7 DEF TxnInv, TxnUnshown
    <2>10. ~DoneTouches(Current, k, b)
        <3> SUFFICES ASSUME NEW d \in b..Len(Current), ~OpenAfter(Current, d),
                            Touches(Current, k, b, d)
                     PROVE  FALSE
            BY DEF DoneTouches
        <3>1. d = b
            BY <2>1, <2>7 DEF LastBoundary
        <3> QED BY <2>7, <3>1 DEF Touches
    <2> QED BY <2>8, <2>9, <2>10 DEF RowSettled
<1> QED BY <1>1, <1>2, <1>3, Inductive, PTL DEF Spec
=============================================================================
