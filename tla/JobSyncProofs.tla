--------------------------- MODULE JobSyncProofs ---------------------------
(***************************************************************************)
(* Theorems about JobSync, for every set of keys, tables and inodes and    *)
(* every bound.                                                            *)
(***************************************************************************)
EXTENDS JobSync, FiniteSetTheorems, TLAPS

\* An entry that the schedd appends is an entry.
LEMMA AppendedType ==
    ASSUME TypeOK, NEW op \in {"begin", "end", "write"}, NEW k \in Key \cup {NoKey},
           NEW v \in Row, NEW in \in BOOLEAN, op = "write" <=> k # NoKey
    PROVE  Appended(op, k, v, in) \in Entry
<1>1. files[gen] \in Seq(Entry)
    BY DEF TypeOK, LogType, gen
<1>2. \A n \in 1..Len(files[gen]) : files[gen][n].q \in Queue
    <2>1. \A n \in 1..Len(files[gen]) : files[gen][n] \in Entry
        BY <1>1
    <2> QED
        BY <2>1 DEF Entry
<1>3. QueueAt(gen, Len(Current)) \in Queue
    BY <1>1, <1>2 DEF QueueAt, QueueAfter, Current, EmptyQueue, Queue, Row
<1> QED
    BY <1>3 DEF Appended, Entry, Queue, Row

\* A compacted file, seen through the order its ads were written in.
LEMMA SnapshotShape ==
    ASSUME NEW queue \in Queue, NEW s \in Snapshots(queue)
    PROVE  \E n \in Nat : \E order \in [1..n -> {k \in Key : queue[k] # NoRow}] :
             s = [i \in 1..n |->
                    [op |-> "write", key |-> order[i], val |-> queue[order[i]],
                     q |-> [k \in Key |-> IF \E j \in 1..i : order[j] = k
                                          THEN queue[k] ELSE NoRow],
                     intx |-> FALSE]]
<1> DEFINE live == {k \in Key : queue[k] # NoRow}
           n == Cardinality(live)
<1>1. n \in Nat
    BY KeyAssumption, FS_Subset, FS_CardinalityType
<1> HIDE DEF n
<1>2. \E order \in [1..n -> live] :
        s = [i \in 1..n |->
               [op |-> "write", key |-> order[i], val |-> queue[order[i]],
                q |-> [k \in Key |-> IF \E j \in 1..i : order[j] = k THEN queue[k] ELSE NoRow],
                intx |-> FALSE]]
    BY DEF Snapshots, n
<1> QED
    BY <1>1, <1>2

\* Every file a compaction can produce is a sequence of entries.
LEMMA SnapshotType ==
    ASSUME NEW queue \in Queue, NEW s \in Snapshots(queue)
    PROVE  s \in Seq(Entry)
<1>1. PICK n \in Nat : \E order \in [1..n -> {k \in Key : queue[k] # NoRow}] :
             s = [i \in 1..n |->
                    [op |-> "write", key |-> order[i], val |-> queue[order[i]],
                     q |-> [k \in Key |-> IF \E j \in 1..i : order[j] = k
                                          THEN queue[k] ELSE NoRow],
                     intx |-> FALSE]]
    BY SnapshotShape
<1>2. PICK order \in [1..n -> {k \in Key : queue[k] # NoRow}] :
             s = [i \in 1..n |->
                    [op |-> "write", key |-> order[i], val |-> queue[order[i]],
                     q |-> [k \in Key |-> IF \E j \in 1..i : order[j] = k
                                          THEN queue[k] ELSE NoRow],
                     intx |-> FALSE]]
    BY <1>1
<1>3. \A i \in 1..n : s[i] \in Entry
    BY <1>2, KeyAssumption DEF Entry, Queue, Row
<1>4. s = [i \in 1..n |-> s[i]]
    BY <1>2
<1> QED
    BY <1>3, <1>4

-----------------------------------------------------------------------------
\* The initial state has its types.
LEMMA TypeInit == Init => TypeOK
<1> SUFFICES ASSUME Init PROVE TypeOK
    OBVIOUS
<1>1. LogType /\ Len(files) = 1
    BY DEF Init, LogType
<1>2. StoreType
    BY DEF Init, StoreType, EmptyQueue, Queue, Row, NoPosition, Position
<1>3. ControlType
    BY DEF Init, ControlType
<1>4. ParserType
    BY <1>1 DEF Init, ParserType
<1>5. TxnType /\ ReloadType
    BY DEF Init, TxnType, NoWrites, ReloadType
<1>6. ConflictType /\ BudgetType
    BY BoundAssumption DEF Init, ConflictType, BudgetType
<1> QED
    BY <1>1, <1>2, <1>3, <1>4, <1>5, <1>6 DEF TypeOK

\* The parts of the type invariant that a step leaves alone.
LEMMA TypeFrame ==
    ASSUME TypeOK
    PROVE  /\ UNCHANGED logVars => LogType' /\ Len(files') = Len(files)
           /\ UNCHANGED <<table, pos, lost>> => StoreType'
           /\ UNCHANGED txn => TxnType'
           /\ UNCHANGED conflict => ConflictType'
           /\ UNCHANGED reload => ReloadType'
           /\ UNCHANGED budget => BudgetType'
<1>1. UNCHANGED logVars => LogType' /\ Len(files') = Len(files)
    BY DEF TypeOK, LogType, logVars
<1>2. UNCHANGED <<table, pos, lost>> => StoreType'
    BY DEF TypeOK, StoreType
<1>3. UNCHANGED txn => TxnType'
    BY DEF TypeOK, TxnType, txn
<1>4. UNCHANGED conflict => ConflictType'
    BY DEF TypeOK, ConflictType, conflict
<1>5. UNCHANGED reload => ReloadType'
    BY DEF TypeOK, ReloadType, reload
<1>6. UNCHANGED budget => BudgetType'
    BY DEF TypeOK, BudgetType
<1> QED
    BY <1>1, <1>2, <1>3, <1>4, <1>5, <1>6

\* What any prefix of a file leaves in the queue is a queue.
LEMMA QueueAtType ==
    ASSUME TypeOK, NEW g \in 1..Len(files), NEW n
    PROVE  QueueAt(g, n) \in Queue
<1>1. files[g] \in Seq(Entry)
    BY DEF TypeOK, LogType
<1>2. \A i \in 1..Len(files[g]) : files[g][i].q \in Queue
    <2>1. \A i \in 1..Len(files[g]) : files[g][i] \in Entry
        BY <1>1
    <2> QED
        BY <2>1 DEF Entry
<1> QED
    BY <1>2 DEF QueueAt, QueueAfter, EmptyQueue, Queue, Row

\* The schedd's appends and compactions keep the types.
LEMMA TypeSchedd ==
    ASSUME TypeOK, Schedd
    PROVE  TypeOK'
<1> USE DEF durable, parser, ident, txn, conflict, reload
<1>1. ASSUME LogType', Len(files') >= Len(files),
             UNCHANGED <<durable, pc, restored, parser, headSeq, ident, txn,
                         persisted, conflict, reload, resyncReq, lost, budget>>
      PROVE  TypeOK'
    <2>1. StoreType' /\ TxnType' /\ ConflictType' /\ ReloadType' /\ BudgetType'
        BY <1>1, TypeFrame
    <2>2. ControlType'
        BY <1>1 DEF TypeOK, ControlType
    <2>3. ParserType'
        BY <1>1 DEF TypeOK, ParserType, LogType
    <2> QED
        BY <1>1, <2>1, <2>2, <2>3 DEF TypeOK
<1>2. ASSUME NEW e \in Entry, ScheddAppends(e) PROVE TypeOK'
    <2>1. files[gen] \in Seq(Entry) /\ gen \in 1..Len(files)
        BY DEF TypeOK, LogType, gen
    <2>2. Append(files[gen], e) \in Seq(Entry)
        BY <2>1
    <2>3. LogType' /\ Len(files') = Len(files)
        BY <1>2, <2>1, <2>2 DEF TypeOK, LogType, ScheddAppends, Current
    <2>4. Len(files) \in Nat
        BY DEF TypeOK, LogType
    <2> QED
        BY <1>1, <1>2, <2>3, <2>4 DEF ScheddAppends
<1>3. CASE ScheddWrites
    <2>1. InTxn(gen, Len(Current)) \in BOOLEAN
        <3>1. files[gen] \in Seq(Entry)
            BY DEF TypeOK, LogType, gen
        <3>2. \A n \in 1..Len(files[gen]) : files[gen][n] \in Entry
            BY <3>1
        <3> QED
            BY <3>2 DEF InTxn, OpenAfter, Entry
    <2> QED
        BY <1>2, <1>3, <2>1, AppendedType, KeyAssumption DEF ScheddWrites
<1>4. CASE ScheddBegins
    BY <1>2, <1>4, AppendedType DEF ScheddBegins, Row
<1>5. CASE ScheddEnds
    BY <1>2, <1>5, AppendedType DEF ScheddEnds, Row
<1>6. CASE ScheddCompacts
    <2>1. gen \in 1..Len(files)
        BY DEF TypeOK, LogType, gen
    <2>2. Committed(gen) \in Queue
        BY <2>1, QueueAtType DEF Committed
    <2>3. PICK i \in Inode, s \in Snapshots(Committed(gen)) :
            files' = Append(files, s) /\ inode' = Append(inode, i)
        BY <1>6 DEF ScheddCompacts
    <2>4. s \in Seq(Entry)
        BY <2>2, SnapshotType
    <2>5. files' \in Seq(Seq(Entry)) /\ Len(files') = Len(files) + 1 /\ files' # <<>>
        BY <2>3, <2>4 DEF TypeOK, LogType
    <2>6. inode' \in Seq(Inode) /\ Len(inode') = Len(inode) + 1
        BY <2>3 DEF TypeOK, LogType
    <2>7. LogType' /\ Len(files') >= Len(files)
        BY <2>5, <2>6 DEF TypeOK, LogType
    <2> QED
        BY <1>1, <1>6, <2>7 DEF ScheddCompacts
<1> QED
    BY <1>3, <1>4, <1>5, <1>6 DEF Schedd

\* What the parser reads is an entry, and the file it reads has an identity.
LEMMA NextOpType ==
    ASSUME TypeOK, fd # 0
    PROVE  /\ inode[fd] \in Inode
           /\ ~AtEOF => NextOp \in Entry
<1>1. fd \in 1..Len(files) /\ offset \in Nat
    BY DEF TypeOK, LogType, ParserType
<1>2. inode[fd] \in Inode /\ files[fd] \in Seq(Entry)
    BY <1>1 DEF TypeOK, LogType
<1>3. ASSUME ~AtEOF PROVE offset + 1 \in 1..Len(files[fd])
    BY <1>1, <1>2, <1>3 DEF AtEOF
<1> QED
    BY <1>1, <1>2, <1>3 DEF NextOp

\* Committed rows are rows.
LEMMA LandedType ==
    ASSUME TypeOK, NEW w \in [Key -> Row \cup {Unset}], NEW ks
    PROVE  Landed(w, ks) \in Queue
<1>1. table \in [Key -> Row]
    BY DEF TypeOK, StoreType, Queue
<1> QED
    BY <1>1 DEF Landed, Queue

\* A commit leaves rows that are rows and nothing pending.
LEMMA CommitType ==
    ASSUME TypeOK, CommitAll
    PROVE  table' \in Queue /\ lost' \subseteq Key /\ buf' \in [Key -> Row \cup {Unset}]
<1>1. buf \in [Key -> Row \cup {Unset}] /\ lost \subseteq Key
    BY DEF TypeOK, TxnType, StoreType
<1>2. table' \in Queue
    BY <1>1, LandedType DEF CommitAll
<1> QED
    BY <1>1, <1>2 DEF CommitAll, NoWrites

\* The start of a reload, whatever rows it snapshots.
LEMMA StartReloadType ==
    ASSUME TypeOK, NEW rows, StartReload(rows), StoreType', BudgetType',
           UNCHANGED <<logVars, restored, persisted, curSeq>>, ConflictType',
           curIno' \in Inode \cup {NoInode}, resyncReq' \in BOOLEAN
    PROVE  TypeOK'
<1>1. LogType' /\ Len(files') = Len(files)
    BY TypeFrame
<1>2. ControlType'
    BY DEF TypeOK, ControlType, StartReload, Reloading
<1>3. gen \in 1..Len(files)
    BY DEF TypeOK, LogType, gen
<1>4. ParserType'
    BY <1>1, <1>3 DEF TypeOK, ParserType, StartReload
<1>5. TxnType' /\ ReloadType'
    BY DEF StartReload, TxnType, ReloadType, NoWrites
<1> QED
    BY <1>1, <1>2, <1>4, <1>5 DEF TypeOK

\* What checkpoint() saves is a position.
LEMMA CheckpointType ==
    ASSUME TypeOK, NEW i \in Inode \cup {NoInode}, Checkpoint(i)
    PROVE  pos' \in Position /\ persisted' \in Nat
<1>1. offset \in Nat /\ curSeq \in Nat /\ persisted \in Nat /\ pos \in Position
    BY DEF TypeOK, ParserType, StoreType
<1>2. [saved |-> TRUE, ino |-> i, off |-> offset, seq |-> curSeq] \in Position
    BY <1>1 DEF Position
<1> QED
    BY <1>1, <1>2 DEF Checkpoint

\* The steps of Poll, restore and readAndApply keep the types.
LEMMA TypePoll ==
    ASSUME TypeOK, Poll
    PROVE  TypeOK'
<1> USE DEF logVars, durable, parser, ident, txn, conflict, reload
<1>1. gen \in 1..Len(files) /\ inode[gen] \in Inode
    BY DEF TypeOK, LogType, gen
<1>2. ASSUME StartReload(table), resyncReq' \in BOOLEAN,
             UNCHANGED <<logVars, durable, restored, ident, persisted, conflict, lost, budget>>
      PROVE  TypeOK'
    <2>1. curIno' \in Inode \cup {NoInode}
        BY <1>2 DEF TypeOK, ParserType
    <2> QED
        BY <1>2, <2>1, TypeFrame, StartReloadType
<1>3. resyncReq \in BOOLEAN
    BY DEF TypeOK, ControlType
<1>4. CASE Resume
    <2>1. /\ LogType' /\ Len(files') = Len(files) /\ StoreType' /\ TxnType' /\ ConflictType'
          /\ ReloadType' /\ BudgetType'
        BY <1>4, TypeFrame DEF Resume
    <2>2. ControlType' /\ ParserType'
        BY <1>1, <1>4, <2>1
           DEF Resume, TypeOK, ControlType, ParserType, StoreType, Position
    <2> QED
        BY <2>1, <2>2 DEF TypeOK
<1>5. CASE RestoreReloads
    BY <1>2, <1>3, <1>5 DEF RestoreReloads
<1>6. CASE PollResyncs
    BY <1>2, <1>6 DEF PollResyncs
<1>7. ASSUME pc' \in {"idle", "stat", "probe", "open"}, headSeq' \in {headSeq, 0, gen},
             UNCHANGED <<logVars, durable, restored, parser, ident, txn, persisted,
                         conflict, reload, resyncReq, lost, budget>>
      PROVE  TypeOK'
    <2>1. /\ LogType' /\ Len(files') = Len(files) /\ StoreType' /\ TxnType' /\ ConflictType'
          /\ ReloadType' /\ BudgetType'
        BY <1>7, TypeFrame
    <2>2. ControlType' /\ ParserType'
        BY <1>1, <1>7, <2>1 DEF TypeOK, ControlType, ParserType, Polling
    <2> QED
        BY <2>1, <2>2 DEF TypeOK
<1>8. CASE PollSequence
    <2>1. CASE SequenceChanged
        BY <1>2, <1>3, <1>8, <2>1 DEF PollSequence
    <2>2. CASE ~SequenceChanged
        BY <1>7, <1>8, <2>2 DEF PollSequence
    <2> QED
        BY <2>1, <2>2
<1>9. CASE PollIdentity
    <2>1. CASE curIno # NoInode /\ curIno # inode[gen]
        BY <1>2, <1>3, <1>9, <2>1 DEF PollIdentity
    <2>2. CASE ~(curIno # NoInode /\ curIno # inode[gen])
        BY <1>7, <1>9, <2>2 DEF PollIdentity
    <2> QED
        BY <2>1, <2>2
<1>10. CASE PollProbe
    <2>1. CASE StartReload(table)
        BY <1>2, <1>3, <1>10, <2>1 DEF PollProbe
    <2>2. CASE ~StartReload(table)
        BY <1>7, <1>10, <2>2 DEF PollProbe
    <2> QED
        BY <2>1, <2>2
<1>11. CASE PollOpen
    <2>1. /\ LogType' /\ Len(files') = Len(files) /\ StoreType' /\ TxnType' /\ ConflictType'
          /\ ReloadType' /\ BudgetType'
        BY <1>11, TypeFrame DEF PollOpen
    <2>2. ControlType' /\ ParserType'
        BY <1>1, <1>11, <2>1 DEF PollOpen, TypeOK, ControlType, ParserType, Polling
    <2> QED
        BY <2>1, <2>2 DEF TypeOK
<1>12. ASSUME pc = "read", table' \in Queue, lost' \subseteq Key,
              buf' \in [Key -> Row \cup {Unset}], offset' = offset + 1,
              explicit' \in BOOLEAN,
              UNCHANGED <<logVars, pos, pc, restored, fd, headSeq, ident, persisted,
                          conflict, reload, resyncReq, budget>>
       PROVE  TypeOK'
    <2>1. LogType' /\ Len(files') = Len(files) /\ ConflictType' /\ ReloadType' /\ BudgetType'
        BY <1>12, TypeFrame
    <2>2. StoreType'
        BY <1>12 DEF TypeOK, StoreType
    <2>3. TxnType'
        BY <1>12 DEF TxnType
    <2>4. ControlType' /\ ParserType'
        BY <1>12, <2>1 DEF TypeOK, ControlType, ParserType
    <2> QED
        BY <2>1, <2>2, <2>3, <2>4 DEF TypeOK
<1>13. /\ table \in Queue /\ lost \subseteq Key /\ buf \in [Key -> Row \cup {Unset}]
       /\ explicit \in BOOLEAN
       /\ pc = "read" => fd # 0
    BY DEF TypeOK, StoreType, TxnType, ParserType
<1>14. CASE ReadWrite
    <2>1. NextOp \in Entry
        BY <1>13, <1>14, NextOpType DEF ReadWrite
    <2>2. buf' \in [Key -> Row \cup {Unset}]
        BY <1>13, <1>14, <2>1 DEF ReadWrite, Entry
    <2> QED
        BY <1>12, <1>13, <1>14, <2>2 DEF ReadWrite
<1>15. CASE ReadBegin
    <2>1. table' \in Queue /\ lost' \subseteq Key /\ buf' \in [Key -> Row \cup {Unset}]
        BY <1>13, <1>15, CommitType DEF ReadBegin, CommitImplicit
    <2> QED
        BY <1>12, <1>15, <2>1 DEF ReadBegin
<1>16. CASE ReadEnd
    <2>1. table' \in Queue /\ lost' \subseteq Key /\ buf' \in [Key -> Row \cup {Unset}]
        BY <1>13, <1>16, CommitType DEF ReadEnd
    <2> QED
        BY <1>12, <1>16, <2>1 DEF ReadEnd
<1>17. CASE PassEnds
    <2>1. table' \in Queue /\ lost' \subseteq Key /\ buf' \in [Key -> Row \cup {Unset}]
        BY <1>13, <1>17, CommitType DEF PassEnds, CommitImplicit
    <2>2. inode[fd] \in Inode
        BY <1>13, <1>17, NextOpType DEF PassEnds
    <2>3. pos' \in Position /\ persisted' \in Nat
        <3>1. persisted \in Nat /\ pos \in Position
            BY DEF TypeOK, ParserType, StoreType
        <3> QED
            BY <1>17, <2>2, <3>1, CheckpointType DEF PassEnds, MaybeCheckpoint
    <2>4. LogType' /\ Len(files') = Len(files) /\ ReloadType' /\ BudgetType'
        BY <1>17, TypeFrame DEF PassEnds
    <2>5. StoreType'
        BY <2>1, <2>3 DEF StoreType
    <2>6. TxnType' /\ ConflictType'
        BY <1>13, <1>17, <2>1, BoundAssumption DEF PassEnds, TxnType, ConflictType
    <2>7. ControlType' /\ ParserType'
        BY <1>17, <2>2, <2>3, <2>4 DEF PassEnds, TypeOK, ControlType, ParserType, Polling
    <2> QED
        BY <2>4, <2>5, <2>6, <2>7 DEF TypeOK
<1> QED
    BY <1>4, <1>5, <1>6, <1>8, <1>9, <1>10, <1>11, <1>14, <1>15, <1>16, <1>17 DEF Poll

\* The steps of reconcileReload keep the types.
LEMMA TypeReload ==
    ASSUME TypeOK, Reload
    PROVE  TypeOK'
<1> USE DEF logVars, durable, parser, ident, txn, conflict, reload
<1>1. gen \in 1..Len(files)
    BY DEF TypeOK, LogType, gen
<1>2. /\ table \in Queue /\ lost \subseteq Key /\ buf \in [Key -> Row \cup {Unset}]
      /\ explicit \in BOOLEAN /\ seen \subseteq Key /\ before \subseteq Key
      /\ pos \in Position
      /\ pc = "rlread" => fd # 0
    BY DEF TypeOK, StoreType, TxnType, ParserType, ReloadType
<1>3. CASE ReloadOpen
    <2>1. /\ LogType' /\ Len(files') = Len(files) /\ StoreType' /\ TxnType' /\ ConflictType'
          /\ ReloadType' /\ BudgetType'
        BY <1>3, TypeFrame DEF ReloadOpen
    <2>2. ControlType' /\ ParserType'
        BY <1>1, <1>3, <2>1 DEF ReloadOpen, TypeOK, ControlType, ParserType, Reloading
    <2> QED
        BY <2>1, <2>2 DEF TypeOK
<1>4. CASE ReloadEntry
    <2>1. NextOp \in Entry
        BY <1>2, <1>4, NextOpType DEF ReloadEntry
    <2>2. buf' \in [Key -> Row \cup {Unset}] /\ seen' \subseteq Key
        <3>1. CASE NextOp.op = "write"
            <4>1. NextOp.key \in Key /\ NextOp.val \in Row
                BY <2>1, <3>1 DEF Entry
            <4> QED
                BY <1>2, <1>4, <3>1, <4>1 DEF ReloadEntry
        <3>2. CASE NextOp.op # "write"
            BY <1>2, <1>4, <3>2 DEF ReloadEntry
        <3> QED
            BY <3>1, <3>2
    <2>3. /\ LogType' /\ Len(files') = Len(files) /\ StoreType' /\ ConflictType' /\ BudgetType'
        BY <1>4, TypeFrame DEF ReloadEntry
    <2>4. TxnType' /\ ReloadType'
        BY <1>2, <1>4, <2>2 DEF ReloadEntry, TxnType, ReloadType
    <2>5. ControlType' /\ ParserType'
        BY <1>4, <2>3 DEF ReloadEntry, TypeOK, ControlType, ParserType
    <2> QED
        BY <2>3, <2>4, <2>5 DEF TypeOK
<1>5. CASE ReloadEOF
    <2>1. /\ LogType' /\ Len(files') = Len(files) /\ StoreType' /\ TxnType' /\ ConflictType'
          /\ ReloadType' /\ BudgetType'
        BY <1>5, TypeFrame DEF ReloadEOF
    <2>2. inode[fd] \in Inode
        BY <1>2, <1>5, NextOpType DEF ReloadEOF
    <2>3. ControlType' /\ ParserType'
        BY <1>5, <2>1, <2>2 DEF ReloadEOF, TypeOK, ControlType, ParserType, Reloading
    <2> QED
        BY <2>1, <2>3 DEF TypeOK
<1>6. ASSUME pc' \in {"rlsweep", "rlsave"}, table' \in Queue, lost' \subseteq Key, TxnType',
             UNCHANGED <<logVars, pos, restored, parser, headSeq, ident,
                         persisted, conflict, reload, resyncReq, budget>>
      PROVE  TypeOK'
    <2>1. /\ LogType' /\ Len(files') = Len(files) /\ ConflictType' /\ ReloadType' /\ BudgetType'
        BY <1>6, TypeFrame
    <2>2. StoreType'
        BY <1>2, <1>6 DEF StoreType
    <2>3. ControlType' /\ ParserType'
        BY <1>6, <2>1 DEF TypeOK, ControlType, ParserType, Reloading
    <2> QED
        BY <1>6, <2>1, <2>2, <2>3 DEF TypeOK
<1>7. CASE ReloadFinish
    <2>1. table' \in Queue /\ lost' \subseteq Key /\ buf' \in [Key -> Row \cup {Unset}]
        BY <1>7, CommitType DEF ReloadFinish
    <2>2. TxnType'
        BY <1>2, <1>7, <2>1 DEF ReloadFinish, TxnType
    <2> QED
        BY <1>6, <1>7, <2>1, <2>2 DEF ReloadFinish
<1>8. CASE ReloadSweep
    <2>1. Swept \in [Key -> Row \cup {Unset}]
        BY DEF Swept, Row
    <2>2. table' \in Queue /\ lost' \subseteq Key
        BY <1>2, <1>8, <2>1, LandedType DEF ReloadSweep
    <2> QED
        BY <1>6, <1>8, <2>2, TypeFrame DEF ReloadSweep
<1>9. CASE ReloadSave
    <2>1. curIno \in Inode \cup {NoInode}
        BY DEF TypeOK, ParserType
    <2>2. pos' \in Position /\ persisted' \in Nat
        BY <1>9, <2>1, CheckpointType DEF ReloadSave
    <2>3. /\ LogType' /\ Len(files') = Len(files) /\ TxnType' /\ ConflictType' /\ BudgetType'
        BY <1>9, TypeFrame DEF ReloadSave
    <2>4. StoreType' /\ ReloadType'
        BY <1>2, <1>9, <2>2 DEF ReloadSave, ReloadEnds, StoreType, ReloadType
    <2>5. ControlType' /\ ParserType'
        BY <1>9, <2>2, <2>3
           DEF ReloadSave, ReloadEnds, TypeOK, ControlType, ParserType, Polling
    <2> QED
        BY <2>3, <2>4, <2>5 DEF TypeOK
<1> QED
    BY <1>3, <1>4, <1>5, <1>7, <1>8, <1>9 DEF Reload

\* Spending one unit of the environment's budget leaves a budget.
LEMMA SpendType ==
    ASSUME TypeOK
    PROVE  /\ budget.conflict > 0 => [budget EXCEPT !.conflict = @ - 1] \in
                [crash : Nat, stop : Nat, conflict : Nat, resync : Nat]
           /\ budget.stop > 0 => [budget EXCEPT !.stop = @ - 1] \in
                [crash : Nat, stop : Nat, conflict : Nat, resync : Nat]
           /\ budget.crash > 0 => [budget EXCEPT !.crash = @ - 1] \in
                [crash : Nat, stop : Nat, conflict : Nat, resync : Nat]
           /\ budget.resync > 0 => [budget EXCEPT !.resync = @ - 1] \in
                [crash : Nat, stop : Nat, conflict : Nat, resync : Nat]
BY DEF TypeOK, BudgetType

\* A commit conflict, with another writer's rows in place, keeps the types.
LEMMA ConflictsType ==
    ASSUME TypeOK, NEW c, CommitConflicts(c)
    PROVE  table' \in Queue /\ buf' \in [Key -> Row \cup {Unset}] /\ BudgetType'
<1>1. BudgetType'
    BY SpendType DEF CommitConflicts, BudgetType
<1>2. Landed(buf, Key) \in [Key -> Row]
    BY LandedType DEF TypeOK, TxnType, Queue
<1>3. PICK other \in [c -> Row] :
        table' = [k \in Key |-> IF k \in c THEN other[k] ELSE Landed(buf, Key)[k]]
    BY DEF CommitConflicts
<1>4. table' \in Queue
    BY <1>2, <1>3 DEF Queue
<1> QED
    BY <1>1, <1>4 DEF CommitConflicts, NoWrites

\* A process that ends leaves its in-memory state empty, and well typed.
LEMMA DownType ==
    ASSUME TypeOK, Down, StoreType', BudgetType', UNCHANGED logVars, persisted' = 0
    PROVE  TypeOK'
<1>1. LogType' /\ Len(files') = Len(files) /\ Len(files) \in Nat
    BY TypeFrame DEF TypeOK, LogType
<1>2. ControlType' /\ ReloadType'
    BY DEF Down, ControlType, ReloadType
<1>3. TxnType'
    BY DEF Down, TxnType, NoWrites
<1>4. ConflictType'
    BY BoundAssumption DEF Down, ConflictType
<1>5. ParserType'
    BY <1>1 DEF Down, ParserType
<1> QED
    BY <1>1, <1>2, <1>3, <1>4, <1>5 DEF TypeOK

\* Conflicts, refusals, stops, crashes and resyncs keep the types.
LEMMA TypeEnvironment ==
    ASSUME TypeOK, Environment
    PROVE  TypeOK'
<1> USE DEF logVars, durable, parser, ident, txn, conflict, reload
<1>1. /\ table \in Queue /\ lost \subseteq Key /\ buf \in [Key -> Row \cup {Unset}]
      /\ explicit \in BOOLEAN /\ seen \subseteq Key /\ before \subseteq Key
      /\ pos \in Position /\ offset \in Nat /\ persisted \in Nat
      /\ curIno \in Inode \cup {NoInode} /\ resyncReq \in BOOLEAN
      /\ curSeq \in Nat /\ headSeq \in Nat
      /\ pc \in {"read", "rlread"} => fd # 0
      /\ Pending \subseteq Key
    BY DEF TypeOK, StoreType, TxnType, ParserType, ReloadType, ControlType, Pending
<1>2. NoWrites \in [Key -> Row \cup {Unset}]
    BY DEF NoWrites
<1>3. pc \in {"read", "rlread"} => inode[fd] \in Inode
    BY <1>1, NextOpType
<1>4. CASE PassConflicts
    <2>1. PICK c \in SUBSET Pending : CommitConflicts(c)
        BY <1>4 DEF PassConflicts
    <2>2. table' \in Queue /\ BudgetType' /\ buf' \in [Key -> Row \cup {Unset}]
        BY <2>1, ConflictsType
    <2>3. StoreType' /\ curIno' \in Inode \cup {NoInode}
        BY <1>1, <1>3, <1>4, <2>2 DEF PassConflicts, AtCommit, StoreType
    <2>4. ConflictType'
        BY <1>1, <1>4, BoundAssumption DEF PassConflicts, Escalates, TypeOK, ConflictType
    <2>5. CASE StartReload(table')
        BY <1>1, <1>4, <2>2, <2>3, <2>4, <2>5, StartReloadType DEF PassConflicts
    <2>6. CASE ~StartReload(table')
        <3>1. /\ offset' = persisted /\ fd' = 0 /\ headSeq' = 0 /\ explicit' = FALSE
              /\ pc' = "idle" /\ UNCHANGED reload
            BY <1>4, <2>6 DEF PassConflicts, RewindTo
        <3>2. LogType' /\ Len(files') = Len(files) /\ ReloadType'
            BY <1>4, <3>1, TypeFrame DEF PassConflicts
        <3>3. ControlType' /\ ParserType'
            BY <1>1, <1>4, <2>3, <3>1, <3>2
               DEF PassConflicts, TypeOK, ControlType, ParserType, Polling
        <3>4. TxnType'
            BY <2>2, <3>1 DEF TxnType
        <3> QED
            BY <2>2, <2>3, <2>4, <3>2, <3>3, <3>4 DEF TypeOK
    <2> QED
        BY <2>5, <2>6
<1>5. CASE PassUnapplied
    <2>1. PICK u \in SUBSET Pending \ {{}} :
            table' = Landed(buf, Key \ u) /\ lost' = (lost \ Pending) \cup u
        BY <1>5 DEF PassUnapplied
    <2>2. StoreType'
        BY <1>1, <1>5, <2>1, LandedType DEF PassUnapplied, StoreType
    <2>3. BudgetType'
        BY <1>5, SpendType DEF PassUnapplied, BudgetType
    <2>4. LogType' /\ Len(files') = Len(files) /\ ReloadType'
        BY <1>5, TypeFrame DEF PassUnapplied
    <2>5. TxnType' /\ ConflictType'
        <3>1. TxnType'
            BY <1>2, <1>5 DEF PassUnapplied, TxnType
        <3>2. ConflictType'
            BY <1>5, BoundAssumption DEF PassUnapplied, ConflictType
        <3> QED
            BY <3>1, <3>2
    <2>6. ControlType' /\ ParserType'
        BY <1>1, <1>3, <1>5, <2>4
           DEF PassUnapplied, AtCommit, TypeOK, ControlType, ParserType, Polling
    <2> QED
        BY <2>2, <2>3, <2>4, <2>5, <2>6 DEF TypeOK
<1>6. CASE ReloadBatch
    <2>1. table' \in Queue /\ lost' \subseteq Key /\ buf' \in [Key -> Row \cup {Unset}] /\ BudgetType'
        <3>1. CASE CommitAll /\ UNCHANGED budget
            BY <3>1, CommitType, TypeFrame
        <3>2. CASE \E c \in SUBSET Pending : CommitConflicts(c) /\ lost' = (lost \ Pending) \cup c
            BY <1>1, <3>2, ConflictsType
        <3> QED
            BY <1>6, <3>1, <3>2 DEF ReloadBatch
    <2>2. LogType' /\ Len(files') = Len(files) /\ ConflictType' /\ ReloadType'
        BY <1>6, TypeFrame DEF ReloadBatch
    <2>3. StoreType' /\ TxnType'
        BY <1>1, <1>6, <2>1 DEF ReloadBatch, StoreType, TxnType
    <2>4. ControlType' /\ ParserType'
        BY <1>6, <2>2 DEF ReloadBatch, TypeOK, ControlType, ParserType
    <2> QED
        BY <2>1, <2>2, <2>3, <2>4 DEF TypeOK
<1>7. CASE ReloadFails
    <2>1. table' \in Queue /\ lost' \subseteq Key /\ buf' \in [Key -> Row \cup {Unset}] /\ BudgetType'
        <3>1. CASE \E c \in SUBSET Pending : CommitConflicts(c) /\ lost' = (lost \ Pending) \cup c
            BY <1>1, <3>1, ConflictsType
        <3>2. CASE pc = "rlsweep"
            <4>1. Swept \in [Key -> Row \cup {Unset}]
                BY DEF Swept, Row
            <4>2. budget.conflict > 0 /\ budget' = [budget EXCEPT !.conflict = @ - 1]
                BY <1>7, <3>2 DEF ReloadFails
            <4>3. BudgetType'
                BY <4>2, SpendType DEF BudgetType
            <4>4. \E c \in SUBSET (before \ seen) : /\ table' = Landed(Swept, Key \ c)
                                                    /\ lost' = (lost \ (before \ seen)) \cup c
                BY <1>7, <3>2 DEF ReloadFails
            <4>5. buf' = buf
                BY <1>7, <3>2 DEF ReloadFails
            <4> QED
                BY <1>1, <4>1, <4>3, <4>4, <4>5, LandedType
        <3> QED
            BY <1>7, <3>1, <3>2 DEF ReloadFails
    <2>2. LogType' /\ Len(files') = Len(files) /\ ConflictType'
        BY <1>7, TypeFrame DEF ReloadFails
    <2>3. StoreType' /\ TxnType' /\ ReloadType'
        BY <1>1, <1>7, <2>1 DEF ReloadFails, ReloadEnds, StoreType, TxnType, ReloadType
    <2>4. ControlType' /\ ParserType'
        BY <1>7, <2>2 DEF ReloadFails, ReloadEnds, TypeOK, ControlType, ParserType, Polling
    <2> QED
        BY <2>1, <2>2, <2>3, <2>4 DEF TypeOK
<1>8. CASE Stop
    <2>1. [saved |-> TRUE, ino |-> curIno, off |-> offset, seq |-> curSeq] \in Position
        BY <1>1 DEF Position
    <2>2. StoreType' /\ BudgetType'
        BY <1>1, <1>8, <2>1, SpendType DEF Stop, StoreType, BudgetType
    <2> QED
        BY <1>8, <2>2, DownType DEF Stop
<1>9. CASE StopInRead
    <2>1. [saved |-> TRUE, ino |-> inode[fd], off |-> offset,
           seq |-> IF pc = "rlread" THEN headSeq ELSE curSeq] \in Position
        BY <1>1, <1>3, <1>9 DEF StopInRead, Position
    <2>2. StoreType' /\ BudgetType'
        BY <1>1, <1>9, <2>1, SpendType DEF StopInRead, StoreType, BudgetType
    <2> QED
        BY <1>9, <2>2, DownType DEF StopInRead
<1>10. CASE Crash
    <2>1. Committing \in [Key -> Row \cup {Unset}]
        BY <1>1, <1>2 DEF Committing, Swept, Row
    <2>2. table' \in Queue /\ lost' \subseteq Key
        BY <1>1, <1>10, <2>1, LandedType DEF Crash
    <2>3. StoreType' /\ BudgetType'
        BY <1>1, <1>10, <2>2, SpendType DEF Crash, StoreType, BudgetType
    <2> QED
        BY <1>10, <2>3, DownType DEF Crash
<1>11. CASE Resync
    <2>1. /\ LogType' /\ Len(files') = Len(files) /\ StoreType' /\ TxnType' /\ ConflictType'
          /\ ReloadType'
        BY <1>11, TypeFrame DEF Resync
    <2>2. BudgetType'
        BY <1>11, SpendType DEF Resync, BudgetType
    <2>3. ControlType' /\ ParserType'
        BY <1>11, <2>1 DEF Resync, TypeOK, ControlType, ParserType
    <2> QED
        BY <2>1, <2>2, <2>3 DEF TypeOK
<1>12. CASE ReloadSaveFails
    <2>1. /\ LogType' /\ Len(files') = Len(files) /\ StoreType' /\ TxnType' /\ ConflictType'
          /\ BudgetType'
        BY <1>12, TypeFrame DEF ReloadSaveFails
    <2>2. ReloadType'
        BY <1>12 DEF ReloadSaveFails, ReloadEnds, ReloadType
    <2>3. ControlType' /\ ParserType'
        BY <1>12, <2>1 DEF ReloadSaveFails, ReloadEnds, TypeOK, ControlType, ParserType, Polling
    <2> QED
        BY <2>1, <2>2, <2>3 DEF TypeOK
<1> QED
    BY <1>4, <1>5, <1>6, <1>7, <1>8, <1>9, <1>10, <1>11, <1>12 DEF Environment

\* Every step keeps the types.
LEMMA TypeStep == TypeOK /\ [Next]_vars => TypeOK'
<1> SUFFICES ASSUME TypeOK, [Next]_vars PROVE TypeOK'
    OBVIOUS
<1>1. CASE Start
    <2>1. /\ LogType' /\ Len(files') = Len(files) /\ StoreType' /\ TxnType' /\ ConflictType'
          /\ ReloadType' /\ BudgetType'
        BY <1>1, TypeFrame DEF Start, logVars, durable, txn, conflict, reload
    <2>2. ControlType' /\ ParserType'
        BY <1>1, <2>1 DEF Start, parser, ident, TypeOK, ControlType, ParserType, Polling
    <2> QED
        BY <2>1, <2>2 DEF TypeOK
<1>2. CASE UNCHANGED vars
    <2>1. /\ LogType' /\ Len(files') = Len(files) /\ StoreType' /\ TxnType' /\ ConflictType'
          /\ ReloadType' /\ BudgetType'
        BY <1>2, TypeFrame DEF vars, logVars, durable, txn, conflict, reload
    <2>2. ControlType' /\ ParserType'
        BY <1>2, <2>1 DEF vars, TypeOK, ControlType, ParserType
    <2> QED
        BY <2>1, <2>2 DEF TypeOK
<1> QED
    BY <1>1, <1>2, TypeSchedd, TypePoll, TypeReload, TypeEnvironment DEF Next

\* Type correctness of JobSync, under every fault: in particular the conflict
\* streak never reaches MaxConflictRetries (handleCommitConflict escalates first).
THEOREM TypeCorrect == Spec => []TypeOK
BY TypeInit, TypeStep, PTL DEF Spec
=============================================================================
