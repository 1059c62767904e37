--------------------------- MODULE ControlProofs ---------------------------
EXTENDS Coordinator, Hub, Managers, Exporters, Session, Flight, QueueClient,
        FiniteSetTheorems, WellFoundedInduction, TLAPS

(***************************************************************************)
(* Theorems about the daemon's control plane (the raft coordinator, the    *)
(* exporter manager, the sync managers and the federation hub) and about   *)
(* what its clients are promised (a session's transactions, the schema of  *)
(* a Flight stream, the answers of the queue client).  These parts share   *)
(* no state, so each section has its own inductive invariant; the sections *)
(* are independent of each other.                                          *)
(***************************************************************************)
-----------------------------------------------------------------------------
(***************************************************************************)
(* Coordinator.  The tables of a node may run ahead of what it has applied *)
(* (a restart without a snapshot replays the log over them), so equality   *)
(* with the applied prefix is not inductive.  What is: each table was left *)
(* by an entry of the log that the node has seen and, unless an apply      *)
(* failed on it there, no entry that the node has applied wrote it later.  *)
(* Snapshots hold such tables too.                                         *)
(***************************************************************************)
Batch == ToSet(Batches)
CatalogTables == [CTable -> Nat]
CoordSnapshots == [at : Nat, seen : Nat, tables : CatalogTables, lost : SUBSET CTable]
CoordNodeState ==
    [applied : Nat, seen : Nat, tables : CatalogTables, lost : SUBSET CTable, snap : CoordSnapshots]
RaftState ==
    [voters : SUBSET Node, members : [Node -> SUBSET Node], adding : SUBSET [at : Node, id : Node]]
CoordBudget == [elect : Int, restart : Int, fail : Int]

ClientRequest ==
    [st : {"idle", "send", "proposed", "acked", "error"}, at : Node \cup {NoNode}, hops : Nat,
     batch : Batch \cup {<<>>}]

CoordTypeOK ==
    /\ clead \in Node \cup {NoNode}
    /\ cknown \in [Node -> Node \cup {NoNode}]
    /\ cclient \in ClientRequest
    /\ clog \in Seq(Batch)
    /\ cnode \in [Node -> CoordNodeState]
    /\ craft \in RaftState
    /\ csubmit \in Nat \ {0}
    /\ cleft \in CoordBudget

Replays(lg, tabs, lost, seen, n) ==
    \A t \in CTable :
        /\ tabs[t] \in 0..seen
        /\ tabs[t] > 0 => t \in Applies(lg[tabs[t]])
        /\ t \notin lost => \A i \in tabs[t] + 1..n : t \notin Applies(lg[i])

NodeReplays(lg, s) ==
    /\ {s.applied, s.seen, s.snap.at, s.snap.seen} \subseteq 0..Len(lg)
    /\ Replays(lg, s.tables, s.lost, s.seen, s.applied)
    /\ Replays(lg, s.snap.tables, s.snap.lost, s.snap.seen, s.snap.at)

ReplaysInv == \A n \in Node : NodeReplays(clog, cnode[n])

(***************************************************************************)
(* The client.  What is in the log was submitted before, each batch once;  *)
(* a request under way is the last one submitted and is not in the log.    *)
(***************************************************************************)
Sent(b, next) == \E i \in 1..next - 1 : i \in DOMAIN Batches /\ Batches[i] = b

ClientInv ==
    /\ \A i, j \in DOMAIN clog : i # j => clog[i] # clog[j]
    /\ \A i \in DOMAIN clog : Sent(clog[i], csubmit)
    /\ cclient.st \in {"send", "proposed"} =>
         /\ cclient.at \in Node /\ cclient.batch \in Batch
         /\ Sent(cclient.batch, csubmit) /\ ~Contains(clog, cclient.batch)
    /\ cclient.st = "acked" => Contains(clog, cclient.batch)

CoordIndInv == CoordTypeOK /\ ReplaysInv /\ ClientInv

-----------------------------------------------------------------------------
LEMMA CoordInitOK == CoordInit => CoordIndInv
<1> SUFFICES ASSUME NEW left \in CoordBudgets, CoordStart(left) PROVE CoordIndInv
    BY DEF CoordInit
<1>1. EmptyTables \in CatalogTables
    BY DEF EmptyTables, CatalogTables
<1>2. clog = <<>> /\ Len(clog) = 0 /\ clog \in Seq(Batch)
    BY DEF CoordStart
<1>3. CoordTypeOK
    <2>1. cnode \in [Node -> CoordNodeState]
        <3>1. NoSnapshot \in CoordSnapshots
            BY <1>1 DEF NoSnapshot, CoordSnapshots
        <3>2. EmptyNode \in CoordNodeState
            BY <1>1, <3>1 DEF EmptyNode, CoordNodeState
        <3> QED BY <3>2 DEF CoordStart
    <2>2. craft \in RaftState /\ cleft \in CoordBudget
        BY CoordAssumption DEF CoordStart, RaftState, CoordBudget
    <2>3. cclient \in ClientRequest
        BY DEF CoordStart, ClientRequest, NoRequest
    <2> QED BY <1>2, <2>1, <2>2, <2>3, CoordAssumption DEF CoordStart, CoordTypeOK
<1>4. Replays(clog, EmptyTables, {}, 0, 0)
    BY <1>2 DEF Replays, EmptyTables
<1>5. NodeReplays(clog, EmptyNode)
    <2>1. /\ EmptyNode.applied = 0 /\ EmptyNode.seen = 0 /\ EmptyNode.tables = EmptyTables
          /\ EmptyNode.lost = {} /\ EmptyNode.snap = NoSnapshot
        BY DEF EmptyNode
    <2>2. /\ NoSnapshot.at = 0 /\ NoSnapshot.seen = 0 /\ NoSnapshot.tables = EmptyTables
          /\ NoSnapshot.lost = {}
        BY DEF NoSnapshot
    <2> QED BY <1>2, <1>4, <2>1, <2>2 DEF NodeReplays
<1>6. ReplaysInv
    BY <1>5 DEF CoordStart, ReplaysInv
<1>7. ClientInv
    BY <1>2 DEF CoordStart, ClientInv, NoRequest
<1> QED BY <1>3, <1>6, <1>7 DEF CoordIndInv

\* A log that grew by an entry, or did not.
LEMMA LogLonger ==
    ASSUME NEW lg \in Seq(Batch), NEW b \in Batch, NEW mg \in {lg, Append(lg, b)}
    PROVE  /\ mg \in Seq(Batch) /\ Len(lg) \in Nat /\ Len(mg) \in Nat
           /\ Len(mg) \in {Len(lg), Len(lg) + 1}
           /\ \A i \in 1..Len(lg) : mg[i] = lg[i]
OBVIOUS

LEMMA ReplaysLonger ==
    ASSUME NEW lg \in Seq(Batch), NEW b \in Batch, NEW mg \in {lg, Append(lg, b)},
           NEW tabs, NEW lost, NEW seen \in 0..Len(lg), NEW n \in 0..Len(lg),
           Replays(lg, tabs, lost, seen, n)
    PROVE  Replays(mg, tabs, lost, seen, n)
<1>1. /\ Len(lg) \in Nat /\ Len(mg) \in {Len(lg), Len(lg) + 1}
      /\ \A i \in 1..Len(lg) : mg[i] = lg[i]
    BY LogLonger
<1> SUFFICES ASSUME NEW t \in CTable
             PROVE  /\ tabs[t] \in 0..seen
                    /\ tabs[t] > 0 => t \in Applies(mg[tabs[t]])
                    /\ t \notin lost => \A i \in tabs[t] + 1..n : t \notin Applies(mg[i])
    BY DEF Replays
<1>2. /\ tabs[t] \in 0..seen
      /\ tabs[t] > 0 => t \in Applies(lg[tabs[t]])
      /\ t \notin lost => \A i \in tabs[t] + 1..n : t \notin Applies(lg[i])
    BY DEF Replays
<1>3. tabs[t] > 0 => mg[tabs[t]] = lg[tabs[t]]
    BY <1>1, <1>2
<1>4. \A i \in tabs[t] + 1..n : mg[i] = lg[i]
    BY <1>1, <1>2
<1> QED BY <1>2, <1>3, <1>4

LEMMA NodeReplaysLonger ==
    ASSUME NEW lg \in Seq(Batch), NEW b \in Batch, NEW mg \in {lg, Append(lg, b)},
           NEW s, NodeReplays(lg, s)
    PROVE  NodeReplays(mg, s)
<1>1. Len(lg) \in Nat /\ Len(mg) \in {Len(lg), Len(lg) + 1}
    BY LogLonger
<1>2. Replays(mg, s.tables, s.lost, s.seen, s.applied)
    BY ReplaysLonger DEF NodeReplays
<1>3. Replays(mg, s.snap.tables, s.snap.lost, s.snap.seen, s.snap.at)
    BY ReplaysLonger DEF NodeReplays
<1> QED BY <1>1, <1>2, <1>3 DEF NodeReplays

\* A node's own failure writes fewer tables, never others.
LEMMA WritesFewer ==
    ASSUME NEW b, NEW failed
    PROVE  WrittenTables(b, failed) \subseteq Applies(b)
BY DEF WrittenTables, Applies, ApplyOps

\* The next entry of the log is applied, or in part.
LEMMA ReplaysApply ==
    ASSUME NEW lg \in Seq(Batch), NEW s \in CoordNodeState, NodeReplays(lg, s),
           NEW i \in 1..Len(lg), i = s.applied + 1, NEW failed
    PROVE  /\ ApplyBatch(s, lg[i], i, failed) \in CoordNodeState
           /\ NodeReplays(lg, ApplyBatch(s, lg[i], i, failed))
<1> DEFINE b == lg[i]
           tabs == [t \in CTable |-> IF t \in WrittenTables(b, failed) THEN i ELSE s.tables[t]]
           lost == s.lost \cup {t \in CTable : t \in Applies(b) \ WrittenTables(b, failed)}
           seen == IF i > s.seen THEN i ELSE s.seen
           q == ApplyBatch(s, b, i, failed)
<1>1. /\ i \in Nat /\ Len(lg) \in Nat /\ s.seen \in 0..Len(lg)
      /\ seen \in 0..Len(lg) /\ i <= seen /\ s.seen <= seen
    BY DEF NodeReplays
<1>2. tabs \in CatalogTables /\ lost \in SUBSET CTable
    BY <1>1 DEF CatalogTables, CoordNodeState
<1>3. Replays(lg, tabs, lost, seen, i)
    <2> SUFFICES ASSUME NEW t \in CTable
                 PROVE  /\ tabs[t] \in 0..seen
                        /\ tabs[t] > 0 => t \in Applies(lg[tabs[t]])
                        /\ t \notin lost => \A j \in tabs[t] + 1..i : t \notin Applies(lg[j])
        BY DEF Replays
    <2>1. CASE t \in WrittenTables(b, failed)
        <3>1. tabs[t] = i /\ t \in Applies(lg[i])
            BY <2>1, WritesFewer
        <3> QED BY <1>1, <3>1
    <2>2. CASE t \notin WrittenTables(b, failed)
        <3>1. /\ tabs[t] = s.tables[t] /\ s.tables[t] \in 0..s.seen
              /\ s.tables[t] > 0 => t \in Applies(lg[s.tables[t]])
              /\ t \notin s.lost => \A j \in s.tables[t] + 1..s.applied : t \notin Applies(lg[j])
            BY <2>2 DEF NodeReplays, Replays
        <3>2. t \notin lost => t \notin s.lost /\ t \notin Applies(lg[i])
            BY <2>2
        <3>3. s.applied \in Nat
            BY DEF CoordNodeState
        <3> HIDE DEF tabs, lost, seen
        <3> QED BY <1>1, <3>1, <3>2, <3>3
    <2> QED BY <2>1, <2>2
<1>4. /\ q \in CoordNodeState /\ q.applied = i /\ q.seen = seen /\ q.tables = tabs /\ q.lost = lost
      /\ q.snap = s.snap
    <2>1. q = [applied |-> i, seen |-> seen, tables |-> tabs, lost |-> lost, snap |-> s.snap]
        <3>1. q = [s EXCEPT !.applied = i, !.seen = seen, !.tables = tabs, !.lost = lost]
            BY Zenon DEF ApplyBatch
        <3> HIDE DEF q, tabs, lost, seen
        <3> QED BY <3>1 DEF CoordNodeState
    <2> HIDE DEF q, tabs, lost, seen
    <2>2. seen \in Nat /\ s.snap \in CoordSnapshots
        BY <1>1 DEF CoordNodeState
    <2> QED BY <1>1, <1>2, <2>1, <2>2 DEF CoordNodeState
<1> HIDE DEF q, tabs, lost, seen
<1>5. NodeReplays(lg, q)
    BY <1>1, <1>3, <1>4 DEF NodeReplays
<1> QED BY <1>4, <1>5 DEF q

\* FSM.Restore puts tables in place that replay the log from the snapshot on.
LEMMA RestoredOK ==
    ASSUME NEW lg \in Seq(Batch), NEW s \in CoordNodeState, NodeReplays(lg, s),
           NEW o \in CoordNodeState, NodeReplays(lg, o)
    PROVE  Restored(s, o.snap) \in CoordNodeState /\ NodeReplays(lg, Restored(s, o.snap))
<1>1. o.snap \in CoordSnapshots
    BY DEF CoordNodeState
<1>2. CASE o.snap.at = 0
    <2> DEFINE q == [s EXCEPT !.applied = 0, !.snap = o.snap, !.lost = {}]
    <2>1. /\ q \in CoordNodeState /\ q.applied = 0 /\ q.snap = o.snap /\ q.lost = {}
          /\ q.tables = s.tables /\ q.seen = s.seen
        BY <1>1 DEF CoordNodeState
    <2>2. Replays(lg, s.tables, {}, s.seen, 0)
        BY DEF NodeReplays, Replays, CoordNodeState
    <2>3. Restored(s, o.snap) = q
        BY <1>2 DEF Restored
    <2>4. 0 \in 0..Len(lg) /\ {s.seen, o.snap.at, o.snap.seen} \subseteq 0..Len(lg)
        BY DEF NodeReplays
    <2>5. Replays(lg, o.snap.tables, o.snap.lost, o.snap.seen, o.snap.at)
        BY DEF NodeReplays
    <2> HIDE DEF q
    <2>6. NodeReplays(lg, q)
        BY <2>1, <2>2, <2>4, <2>5 DEF NodeReplays
    <2> QED BY <2>1, <2>3, <2>6
<1>3. CASE o.snap.at # 0
    <2> DEFINE p == o.snap
               q == [applied |-> p.at, seen |-> p.seen, tables |-> p.tables, lost |-> p.lost, snap |-> p]
    <2>1. Restored(s, o.snap) = q
        BY <1>3 DEF Restored
    <2>2. q \in CoordNodeState
        BY <1>1 DEF CoordNodeState, CoordSnapshots
    <2> QED BY <2>1, <2>2 DEF NodeReplays
<1> QED BY <1>2, <1>3

\* A step that leaves the log and the client alone.
LEMMA ClientFrame ==
    ASSUME ClientInv, UNCHANGED <<clog, cclient, csubmit>>
    PROVE  ClientInv'
BY DEF ClientInv, Sent, Contains

\* One node changes: it must replay the log.
LEMMA NodeStep ==
    ASSUME CoordTypeOK, ReplaysInv, clog' = clog,
           NEW n \in Node, NEW s \in CoordNodeState, NodeReplays(clog, s),
           cnode' = [cnode EXCEPT ![n] = s]
    PROVE  cnode' \in [Node -> CoordNodeState] /\ ReplaysInv'
BY DEF CoordTypeOK, ReplaysInv

\* What a failure of one node costs the budget.
LEMMA NodeFailsOK ==
    ASSUME CoordTypeOK, NEW b, NEW failed, NodeFails(b, failed)
    PROVE  cleft' \in CoordBudget
BY DEF NodeFails, CoordTypeOK, CoordBudget

LEMMA ApplyKeeps ==
    ASSUME CoordIndInv, NEW n \in Node, CoordApply(n)
    PROVE  CoordIndInv'
<1> DEFINE next == cnode[n].applied + 1
<1> USE DEF CoordIndInv
<1>1. PICK failed \in SUBSET CTable :
        /\ NodeFails(clog[next], failed)
        /\ cnode' = [cnode EXCEPT ![n] = ApplyBatch(cnode[n], clog[next], next, failed)]
    BY DEF CoordApply
<1>2. next <= Len(clog) /\ UNCHANGED <<clead, cknown, clog, cclient, craft, csubmit>>
    BY DEF CoordApply
<1>3. cnode[n] \in CoordNodeState /\ NodeReplays(clog, cnode[n]) /\ clog \in Seq(Batch)
    BY DEF CoordTypeOK, ReplaysInv
<1>4. next \in 1..Len(clog)
    BY <1>2, <1>3 DEF CoordNodeState
<1> DEFINE s == ApplyBatch(cnode[n], clog[next], next, failed)
<1>5. s \in CoordNodeState /\ NodeReplays(clog, s)
    BY <1>3, <1>4, ReplaysApply
<1>6. cnode' = [cnode EXCEPT ![n] = s]
    BY <1>1
<1> HIDE DEF s
<1>7. cnode' \in [Node -> CoordNodeState] /\ ReplaysInv'
    BY <1>2, <1>5, <1>6, NodeStep
<1>8. CoordTypeOK'
    BY <1>1, <1>2, <1>7, NodeFailsOK DEF CoordTypeOK
<1> QED BY <1>2, <1>7, <1>8, ClientFrame

LEMMA SnapshotKeeps ==
    ASSUME CoordIndInv, NEW n \in Node, CoordSnapshot(n)
    PROVE  CoordIndInv'
<1> DEFINE s == [cnode[n] EXCEPT !.snap = Snapshot(cnode[n])]
<1> USE DEF CoordIndInv
<1>1. cnode[n] \in CoordNodeState /\ NodeReplays(clog, cnode[n])
    BY DEF CoordTypeOK, ReplaysInv
<1>2. cnode' = [cnode EXCEPT ![n] = s] /\ UNCHANGED <<clead, cknown, clog, cclient, craft, csubmit, cleft>>
    BY <1>1 DEF CoordSnapshot, CoordTypeOK
<1>3. s \in CoordNodeState /\ NodeReplays(clog, s)
    <2>1. Snapshot(cnode[n]) \in CoordSnapshots
        BY <1>1 DEF CoordNodeState, CoordSnapshots, Snapshot
    <2>2. /\ s \in CoordNodeState /\ s.applied = cnode[n].applied /\ s.seen = cnode[n].seen
          /\ s.tables = cnode[n].tables /\ s.lost = cnode[n].lost /\ s.snap = Snapshot(cnode[n])
        BY <1>1, <2>1 DEF CoordNodeState
    <2>3. /\ s.snap.at = cnode[n].applied /\ s.snap.seen = cnode[n].seen
          /\ s.snap.tables = cnode[n].tables /\ s.snap.lost = cnode[n].lost
        BY <2>2 DEF Snapshot
    <2> HIDE DEF s
    <2> QED BY <1>1, <2>2, <2>3 DEF NodeReplays
<1>4. cnode' \in [Node -> CoordNodeState] /\ ReplaysInv'
    BY <1>2, <1>3, NodeStep
<1>5. CoordTypeOK'
    BY <1>2, <1>4 DEF CoordTypeOK
<1> QED BY <1>2, <1>4, <1>5, ClientFrame

LEMMA InstallKeeps ==
    ASSUME CoordIndInv, NEW n \in Node, CoordInstall(n)
    PROVE  CoordIndInv'
<1> DEFINE s == Restored(cnode[n], cnode[clead].snap)
<1> USE DEF CoordIndInv
<1>1. /\ clead \in Node /\ clog \in Seq(Batch)
      /\ cnode[n] \in CoordNodeState /\ NodeReplays(clog, cnode[n])
      /\ cnode[clead] \in CoordNodeState /\ NodeReplays(clog, cnode[clead])
    BY DEF CoordInstall, CoordTypeOK, ReplaysInv
<1>2. /\ cnode' = [cnode EXCEPT ![n] = s] /\ UNCHANGED <<clead, cknown, clog, cclient, craft, csubmit>>
      /\ cleft' = [cleft EXCEPT !.restart = @ - 1]
    BY <1>1 DEF CoordInstall, CoordTypeOK
<1>3. s \in CoordNodeState /\ NodeReplays(clog, s)
    BY <1>1, RestoredOK
<1>4. cnode' \in [Node -> CoordNodeState] /\ ReplaysInv'
    BY <1>2, <1>3, NodeStep
<1>5. CoordTypeOK'
    BY <1>2, <1>4 DEF CoordTypeOK, CoordBudget
<1> QED BY <1>2, <1>4, <1>5, ClientFrame

LEMMA RestartKeeps ==
    ASSUME CoordIndInv, NEW n \in Node, CoordRestart(n)
    PROVE  CoordIndInv'
<1> DEFINE s == Restored(cnode[n], cnode[n].snap)
<1> USE DEF CoordIndInv
<1>1. /\ clog \in Seq(Batch) /\ cnode[n] \in CoordNodeState /\ NodeReplays(clog, cnode[n])
    BY DEF CoordTypeOK, ReplaysInv
<1>2. /\ cnode' = [cnode EXCEPT ![n] = s] /\ UNCHANGED <<clog, cclient, csubmit>>
      /\ cleft' = [cleft EXCEPT !.restart = @ - 1]
      /\ clead' \in {clead, NoNode} /\ cknown' = [cknown EXCEPT ![n] = NoNode]
      /\ craft' = [craft EXCEPT !.adding = {r \in @ : r.at # n},
                      !.members[n] = IF n = FirstNode THEN craft.voters ELSE {}]
    BY <1>1 DEF CoordRestart, CoordTypeOK
<1>3. s \in CoordNodeState /\ NodeReplays(clog, s)
    BY <1>1, RestoredOK
<1>4. cnode' \in [Node -> CoordNodeState] /\ ReplaysInv'
    BY <1>2, <1>3, NodeStep
<1>5. CoordTypeOK'
    <2>1. craft' \in RaftState
        BY <1>2 DEF CoordTypeOK, RaftState
    <2>2. cleft' \in CoordBudget
        BY <1>2 DEF CoordTypeOK, CoordBudget
    <2> QED BY <1>2, <1>4, <2>1, <2>2 DEF CoordTypeOK
<1> QED BY <1>2, <1>4, <1>5, ClientFrame

\* Elections and membership leave the log, the replicas and the client alone.
LEMMA ReplaysFrame ==
    ASSUME ReplaysInv, UNCHANGED <<clog, cnode>>
    PROVE  ReplaysInv'
BY DEF ReplaysInv

LEMMA MembershipKeeps ==
    ASSUME CoordIndInv,
           \/ \E n \in Node : CoordElect(n) \/ CoordLearn(n) \/ RegisterPeer(n)
           \/ \E r \in craft.adding : AddVoter(r)
    PROVE  CoordIndInv'
<1> USE DEF CoordIndInv
<1>1. UNCHANGED <<clog, cnode, cclient, csubmit>>
    BY ZenonT(30) DEF CoordElect, CoordLearn, RegisterPeer, AddVoter
<1>2. cleft' \in CoordBudget
    <2>1. CASE \E n \in Node : CoordElect(n)
        BY <2>1 DEF CoordElect, CoordTypeOK, CoordBudget
    <2>2. CASE ~\E n \in Node : CoordElect(n)
        <3>1. cleft' = cleft
            BY <2>2, ZenonT(30) DEF CoordLearn, RegisterPeer, AddVoter
        <3> QED BY <3>1, SMTT(30) DEF CoordTypeOK
    <2> QED BY <2>1, <2>2
<1>3. clead' \in Node \cup {NoNode} /\ cknown' \in [Node -> Node \cup {NoNode}]
    BY ZenonT(30) DEF CoordElect, CoordLearn, RegisterPeer, AddVoter, CoordTypeOK
<1>4. craft' \in RaftState
    <2>1. CASE \E n \in Node : CoordElect(n) \/ CoordLearn(n)
        BY <2>1 DEF CoordElect, CoordLearn, CoordTypeOK
    <2>2. CASE \E n \in Node : RegisterPeer(n)
        BY <2>2 DEF RegisterPeer, CoordTypeOK, RaftState
    <2>3. ASSUME NEW r \in craft.adding, AddVoter(r) PROVE craft' \in RaftState
        <3>1. r.id \in Node /\ r.at \in Node
            BY DEF CoordTypeOK, RaftState
        <3>2. CASE r.at = clead
            <4>1. craft' = [craft EXCEPT !.adding = @ \ {r}, !.voters = @ \cup {r.id},
                                         !.members = [@ EXCEPT ![r.at] = craft.members[r.at] \cup {r.id}]]
                BY <2>3, <3>2 DEF AddVoter
            <4>2. [craft.members EXCEPT ![r.at] = craft.members[r.at] \cup {r.id}] \in [Node -> SUBSET Node]
                BY <3>1 DEF CoordTypeOK, RaftState
            <4> QED BY <3>1, <4>1, <4>2 DEF CoordTypeOK, RaftState
        <3>3. CASE r.at # clead
            <4>1. PICK committed \in {{}, {r.id}} :
                     craft' = [craft EXCEPT !.adding = @ \ {r}, !.voters = @ \cup committed]
                BY <2>3, <3>3 DEF AddVoter
            <4> QED BY <3>1, <4>1 DEF CoordTypeOK, RaftState
        <3> QED BY <3>2, <3>3
    <2> QED BY <2>1, <2>2, <2>3
<1> QED
    BY <1>1, <1>2, <1>3, <1>4, ReplaysFrame, ClientFrame, SMTT(30) DEF CoordTypeOK

\* An entry is committed, or not.
LEMMA CommitStep ==
    ASSUME CoordTypeOK, ReplaysInv, NEW b \in Batch, clog' \in {clog, Append(clog, b)},
           cnode' = cnode
    PROVE  clog' \in Seq(Batch) /\ ReplaysInv'
<1>1. clog' \in Seq(Batch)
    BY LogLonger DEF CoordTypeOK
<1>2. ASSUME NEW n \in Node PROVE NodeReplays(clog', cnode[n])
    BY NodeReplaysLonger DEF CoordTypeOK, ReplaysInv
<1> QED BY <1>1, <1>2 DEF ReplaysInv

\* The batch under way joins the log, which did not have it.
LEMMA AppendFresh ==
    ASSUME CoordTypeOK, ClientInv, cclient.st = "proposed",
           clog' \in {clog, Append(clog, cclient.batch)}, csubmit' = csubmit
    PROVE  /\ \A i, j \in DOMAIN clog' : i # j => clog'[i] # clog'[j]
           /\ \A i \in DOMAIN clog' : Sent(clog'[i], csubmit')
           /\ clog' = Append(clog, cclient.batch) => Contains(clog', cclient.batch)
<1>1. cclient.batch \in Batch /\ Sent(cclient.batch, csubmit) /\ ~Contains(clog, cclient.batch)
    BY DEF ClientInv
<1>2. \A i \in 1..Len(clog) : clog[i] # cclient.batch
    BY <1>1 DEF Contains, CoordTypeOK
<1>3. CASE clog' = clog
    BY <1>3 DEF ClientInv, Sent, Contains, CoordTypeOK
<1>4. CASE clog' = Append(clog, cclient.batch)
    <2>1. /\ Len(clog) \in Nat /\ DOMAIN clog = 1..Len(clog)
          /\ Len(clog') = Len(clog) + 1 /\ DOMAIN clog' = 1..Len(clog) + 1
          /\ clog'[Len(clog) + 1] = cclient.batch
          /\ \A i \in 1..Len(clog) : clog'[i] = clog[i]
        BY <1>1, <1>4 DEF CoordTypeOK
    <2>2. \A i, j \in DOMAIN clog' : i # j => clog'[i] # clog'[j]
        BY <1>2, <2>1 DEF ClientInv
    <2>3. \A i \in DOMAIN clog' : Sent(clog'[i], csubmit')
        BY <1>1, <2>1 DEF ClientInv
    <2> QED BY <2>1, <2>2, <2>3 DEF Sent, Contains
<1> QED BY <1>3, <1>4

\* A request that ends.
LEMMA EndsOK ==
    ASSUME CoordTypeOK, NEW result \in {"acked", "error"}, Ends(result)
    PROVE  cclient' \in ClientRequest /\ cclient'.st = result /\ cclient'.batch = cclient.batch
BY DEF Ends, NoRequest, CoordTypeOK, ClientRequest

\* The leader commits the entry and applies it, all of it or in part.
LEMMA CommitApplyStep ==
    ASSUME CoordTypeOK, ReplaysInv, NEW b \in Batch, NEW n \in Node, NEW failed,
           clog' = Append(clog, b), cnode[n].applied = Len(clog),
           cnode' = [cnode EXCEPT ![n] = ApplyBatch(cnode[n], b, Len(clog) + 1, failed)]
    PROVE  clog' \in Seq(Batch) /\ cnode' \in [Node -> CoordNodeState] /\ ReplaysInv'
<1> DEFINE i == Len(clog) + 1
           s == ApplyBatch(cnode[n], b, i, failed)
<1>1. /\ clog \in Seq(Batch) /\ clog' \in Seq(Batch) /\ Len(clog') = Len(clog) + 1
      /\ Len(clog) \in Nat /\ clog'[i] = b
    BY DEF CoordTypeOK
<1>2. \A m \in Node : cnode[m] \in CoordNodeState /\ NodeReplays(clog', cnode[m])
    BY NodeReplaysLonger DEF CoordTypeOK, ReplaysInv
<1>3. s \in CoordNodeState /\ NodeReplays(clog', s)
    <2>1. i \in 1..Len(clog') /\ i = cnode[n].applied + 1
        BY <1>1
    <2> HIDE DEF i
    <2>2. /\ ApplyBatch(cnode[n], clog'[i], i, failed) \in CoordNodeState
          /\ NodeReplays(clog', ApplyBatch(cnode[n], clog'[i], i, failed))
        BY <1>1, <1>2, <2>1, ReplaysApply
    <2> QED BY <1>1, <2>2
<1>4. cnode' = [cnode EXCEPT ![n] = s]
    OBVIOUS
<1> HIDE DEF s
<1> QED BY <1>1, <1>2, <1>3, <1>4 DEF CoordTypeOK, ReplaysInv

LEMMA ApplyReturnsKeeps ==
    ASSUME CoordIndInv, ApplyReturns
    PROVE  CoordIndInv'
<1> USE DEF CoordIndInv
<1>1. /\ cclient.st = "proposed" /\ cclient.batch \in Batch /\ cclient.at \in Node
      /\ UNCHANGED <<clead, cknown, craft, csubmit>>
      /\ clog' \in {clog, Append(clog, cclient.batch)}
    BY DEF ApplyReturns, ClientInv
<1>2. \E result \in {"acked", "error"} :
        Ends(result) /\ (result = "acked" => clog' = Append(clog, cclient.batch))
    BY DEF ApplyReturns, Answered, Redirects
<1>3. /\ cclient' \in ClientRequest /\ cclient'.st \in {"acked", "error"}
      /\ cclient'.batch = cclient.batch
      /\ cclient'.st = "acked" => clog' = Append(clog, cclient.batch)
    BY <1>2, EndsOK
<1>4. clog' \in Seq(Batch) /\ cnode' \in [Node -> CoordNodeState] /\ ReplaysInv'
      /\ cleft' \in CoordBudget
    <2>1. CASE UNCHANGED <<cnode, cleft>>
        BY <1>1, <2>1, CommitStep DEF CoordTypeOK
    <2>2. CASE ~UNCHANGED <<cnode, cleft>>
        <3>1. PICK failed \in SUBSET CTable :
                /\ NodeFails(cclient.batch, failed)
                /\ cnode' = [cnode EXCEPT ![clead] =
                                ApplyBatch(cnode[clead], cclient.batch, Len(clog) + 1, failed)]
            BY <2>2 DEF ApplyReturns
        <3>2. clead = cclient.at /\ cnode[clead].applied = Len(clog) /\ clog' = Append(clog, cclient.batch)
            BY <2>2 DEF ApplyReturns
        <3>3. clog' \in Seq(Batch) /\ cnode' \in [Node -> CoordNodeState] /\ ReplaysInv'
            BY <1>1, <3>1, <3>2, CommitApplyStep
        <3> QED BY <3>1, <3>3, NodeFailsOK
    <2> QED BY <2>1, <2>2
<1>5. CoordTypeOK'
    BY <1>1, <1>3, <1>4 DEF CoordTypeOK
<1>6. ClientInv'
    BY <1>1, <1>3, AppendFresh DEF ClientInv
<1> QED BY <1>4, <1>5, <1>6

LEMMA ExchangeFailsKeeps ==
    ASSUME CoordIndInv, ExchangeFails
    PROVE  CoordIndInv'
<1> USE DEF CoordIndInv
<1>1. /\ cclient.st \in {"send", "proposed"} /\ cclient.batch \in Batch
      /\ UNCHANGED <<clead, cknown, cnode, craft, csubmit, cleft>>
      /\ clog' \in {clog, Append(clog, cclient.batch)}
      /\ cclient.st = "send" => clog' = clog
    BY DEF ExchangeFails, ClientInv
<1>2. cclient' \in ClientRequest /\ cclient'.st = "error"
    BY EndsOK DEF ExchangeFails
<1>3. CoordTypeOK' /\ ReplaysInv'
    BY <1>1, <1>2, CommitStep DEF CoordTypeOK
<1>4. ClientInv'
    <2>1. CASE cclient.st = "send"
        BY <1>1, <1>2, <2>1 DEF ClientInv
    <2>2. CASE cclient.st = "proposed"
        BY <1>1, <1>2, <2>2, AppendFresh DEF ClientInv
    <2> QED BY <1>1, <2>1, <2>2
<1> QED BY <1>3, <1>4

LEMMA HandleApplyKeeps ==
    ASSUME CoordIndInv, HandleApply
    PROVE  CoordIndInv'
<1> USE DEF CoordIndInv
<1>1. cclient.st = "send" /\ UNCHANGED <<clead, cknown, clog, cnode, craft, csubmit, cleft>>
    BY DEF HandleApply
<1>2. CASE Ends("error")
    BY <1>1, <1>2, EndsOK, ReplaysFrame DEF CoordTypeOK, ClientInv
<1>3. CASE cclient' = [cclient EXCEPT !.st = "proposed"]
    <2>1. /\ cclient' \in ClientRequest /\ cclient'.st = "proposed" /\ cclient'.batch = cclient.batch
          /\ cclient'.at = cclient.at
        BY <1>3 DEF CoordTypeOK, ClientRequest
    <2> QED BY <1>1, <2>1, ReplaysFrame DEF CoordTypeOK, ClientInv
<1>4. CASE Answered("not_leader") /\ ~Ends("error")
    <2>1. /\ cclient' = [cclient EXCEPT !.st = "send", !.at = cknown[cclient.at], !.hops = @ + 1]
          /\ cknown[cclient.at] # NoNode
        BY <1>4 DEF Answered, Redirects
    <2>2. cknown[cclient.at] \in Node
        BY <1>1, <2>1 DEF CoordTypeOK, ClientInv
    <2>3. /\ cclient' \in ClientRequest /\ cclient'.st = "send" /\ cclient'.batch = cclient.batch
          /\ cclient'.at \in Node
        <3> DEFINE next == cknown[cclient.at]
        <3>1. cclient' = [cclient EXCEPT !.st = "send", !.at = next, !.hops = @ + 1] /\ next \in Node
            BY <2>1, <2>2
        <3> HIDE DEF next
        <3>2. cclient \in ClientRequest
            BY DEF CoordTypeOK
        <3>3. cclient.hops \in Nat /\ cclient.batch \in Batch \cup {<<>>}
            BY <3>2 DEF ClientRequest
        <3>4. cclient' = [st |-> "send", at |-> next, hops |-> cclient.hops + 1, batch |-> cclient.batch]
            BY <3>1, <3>2 DEF ClientRequest
        <3> QED BY <3>1, <3>3, <3>4 DEF ClientRequest
    <2> QED BY <1>1, <2>3, ReplaysFrame DEF CoordTypeOK, ClientInv
<1> QED BY <1>2, <1>3, <1>4 DEF HandleApply

LEMMA ClientDoneKeeps ==
    ASSUME CoordIndInv, ClientDone
    PROVE  CoordIndInv'
<1>1. cclient' \in ClientRequest /\ cclient'.st = "idle"
    BY DEF ClientDone, NoRequest, ClientRequest
<1> QED BY <1>1, ReplaysFrame DEF CoordIndInv, ClientDone, CoordTypeOK, ClientInv

LEMMA ClientSubmitKeeps ==
    ASSUME CoordIndInv, ClientSubmit
    PROVE  CoordIndInv'
<1> USE DEF CoordIndInv
<1>1. /\ UNCHANGED <<clead, cknown, clog, cnode, craft, cleft>>
      /\ csubmit' = csubmit + 1 /\ csubmit <= Len(Batches)
    BY DEF ClientSubmit
<1>2. csubmit' \in Nat \ {0} /\ csubmit' = csubmit + 1 /\ csubmit \in Nat \ {0}
    BY <1>1 DEF CoordTypeOK
<1>3. DOMAIN Batches = 1..Len(Batches) /\ Len(Batches) \in Nat /\ Batches[csubmit] \in Batch
    BY <1>1, <1>2, CoordAssumption DEF Batch, ToSet
<1>4. /\ cclient' \in ClientRequest /\ cclient'.st = "send" /\ cclient'.batch = Batches[csubmit]
      /\ cclient'.at \in Node
    BY <1>3, CoordAssumption DEF ClientSubmit, ClientRequest
<1>5. \A b : Sent(b, csubmit) => Sent(b, csubmit')
    BY <1>2 DEF Sent
<1>6. Sent(Batches[csubmit], csubmit')
    BY <1>1, <1>2, <1>3 DEF Sent
<1>7. ~Sent(Batches[csubmit], csubmit)
    BY <1>1, <1>2, <1>3, CoordAssumption DEF Sent, IsInjective
<1>8. ~Contains(clog, Batches[csubmit])
    BY <1>7 DEF ClientInv, Contains, CoordTypeOK
<1>9. CoordTypeOK' /\ ReplaysInv'
    BY <1>1, <1>2, <1>4, ReplaysFrame DEF CoordTypeOK
<1>10. ClientInv'
    BY <1>1, <1>3, <1>4, <1>5, <1>6, <1>8 DEF ClientInv
<1> QED BY <1>9, <1>10

-----------------------------------------------------------------------------
(***************************************************************************)
(* Theorems about Coordinator.                                             *)
(***************************************************************************)
LEMMA CoordInductive == CoordSpec => []CoordIndInv
<1>1. CoordIndInv /\ UNCHANGED coordvars => CoordIndInv'
    BY ReplaysFrame, ClientFrame DEF CoordIndInv, CoordTypeOK, coordvars
<1>2. CoordIndInv /\ [CoordNext]_coordvars => CoordIndInv'
    <2> SUFFICES ASSUME CoordIndInv, CoordNext PROVE CoordIndInv'
        BY <1>1
    <2>1. ASSUME NEW n \in Node,
                 CoordApply(n) \/ CoordSnapshot(n) \/ CoordInstall(n) \/ CoordRestart(n)
          PROVE  CoordIndInv'
        BY <2>1, ApplyKeeps, SnapshotKeeps, InstallKeeps, RestartKeeps
    <2>2. ASSUME \/ \E n \in Node : CoordElect(n) \/ CoordLearn(n) \/ RegisterPeer(n)
                 \/ \E r \in craft.adding : AddVoter(r)
          PROVE  CoordIndInv'
        BY <2>2, MembershipKeeps
    <2>3. ASSUME ClientSubmit \/ HandleApply \/ ApplyReturns \/ ExchangeFails \/ ClientDone
          PROVE  CoordIndInv'
        BY <2>3, ClientSubmitKeeps, HandleApplyKeeps, ApplyReturnsKeeps, ExchangeFailsKeeps, ClientDoneKeeps
    <2> QED BY <2>1, <2>2, <2>3 DEF CoordNext
<1> QED BY <1>2, CoordInitOK, PTL DEF CoordSpec

\* ReplicasAgree holds of every cluster, catalog and sequence of batches,
\* elections, restarts, snapshots and applies that fail on one node: a voter's
\* tables are what the batches it has applied leave, except those an apply failed
\* on there or where its snapshot is from (FSM.Apply, Snapshot, Restore).
THEOREM ReplicasDoAgree == CoordSpec => []ReplicasAgree
<1>1. ASSUME CoordIndInv, NEW n \in craft.voters, NEW t \in CTable \ cnode[n].lost,
             cnode[n].applied >= cnode[n].seen
      PROVE  ShowsLog(cnode[n].tables, t, cnode[n].applied)
    <2>1. n \in Node /\ cnode[n] \in CoordNodeState /\ NodeReplays(clog, cnode[n])
        BY <1>1 DEF CoordIndInv, CoordTypeOK, RaftState, ReplaysInv
    <2>2. cnode[n].applied \in Nat /\ cnode[n].seen \in Nat
        BY <2>1 DEF CoordNodeState
    <2> QED BY <1>1, <2>1, <2>2 DEF NodeReplays, Replays, ShowsLog
<1>2. CoordIndInv => ReplicasAgree
    BY <1>1 DEF ReplicasAgree
<1> QED BY <1>2, CoordInductive, PTL

\* Tables that show the same log are the same: what ReplicasAgree says of each
\* voter makes any two of them equal.
LEMMA ShowsLogUnique ==
    ASSUME NEW n \in Nat, NEW a \in CatalogTables, NEW b \in CatalogTables,
           NEW t \in CTable, ShowsLog(a, t, n), ShowsLog(b, t, n)
    PROVE  a[t] = b[t]
BY DEF ShowsLog, CatalogTables

\* CommittedOnce holds for any number of redirects, elections and failed
\* exchanges (doWithRedirect, encodeRedirect, Coordinator.Apply).
THEOREM SubmittedIsCommittedOnce == CoordSpec => []CommittedOnce
<1>1. CoordIndInv => CommittedOnce
    BY DEF CoordIndInv, ClientInv, CommittedOnce
<1> QED BY <1>1, CoordInductive, PTL
-----------------------------------------------------------------------------
(***************************************************************************)
(* Exporters.  That the state stays clear depends on who may still save    *)
(* it: while the exporter is registered only the supervisor in the map is  *)
(* there, and once it has cleared the state it has no child.               *)
(***************************************************************************)
SupervisorState ==
    [pc : {"gone", "top", "child", "ended", "backoff"}, cancelled : BOOLEAN, killed : BOOLEAN]
ExporterRuntime == [known : BOOLEAN, child : 0..MaxSupervisor, reset : BOOLEAN]
ExporterBudget == [supervisor : Nat \ {0}, reset : Int, launch : Int]

ExportersTypeOK ==
    /\ xreg \in BOOLEAN /\ xclean \in BOOLEAN /\ xstate \in {"none", "saved"}
    /\ xsup \in [1..MaxSupervisor -> SupervisorState]
    /\ xmap \in 0..MaxSupervisor
    /\ xrt \in ExporterRuntime
    /\ xleft \in ExporterBudget

OneSupervisor ==
    /\ \A i \in 1..MaxSupervisor : i >= xleft.supervisor => xsup[i].pc = "gone" /\ ~xsup[i].cancelled
    /\ xmap # 0 => xsup[xmap].pc # "gone" /\ ~xsup[xmap].cancelled
    /\ \A i \in 1..MaxSupervisor :
        i # xmap /\ xsup[i].pc # "gone" => ~xreg /\ xsup[i].cancelled

ClearedInv ==
    /\ ResetStaysClear
    /\ xclean /\ xreg => \A i \in 1..MaxSupervisor : xsup[i].pc # "child"

ExportersIndInv == ExportersTypeOK /\ OneSupervisor /\ ClearedInv

-----------------------------------------------------------------------------
LEMMA ExportersInitOK == ExportersInit => ExportersIndInv
<1> SUFFICES ASSUME ExportersInit PROVE ExportersIndInv
    OBVIOUS
<1>1. NoSupervisor \in SupervisorState /\ NoSupervisor.pc = "gone" /\ ~NoSupervisor.cancelled
    BY DEF NoSupervisor, SupervisorState
<1>2. NoRuntime \in ExporterRuntime
    BY ExportersAssumption DEF NoRuntime, ExporterRuntime
<1>3. xleft \in ExporterBudget
    BY ExportersAssumption DEF ExportersInit, ExporterBudget
<1>4. ExportersTypeOK
    <2>1. xsup \in [1..MaxSupervisor -> SupervisorState]
        BY <1>1 DEF ExportersInit
    <2>2. xmap \in 0..MaxSupervisor
        BY ExportersAssumption DEF ExportersInit
    <2> QED BY <1>2, <1>3, <2>1, <2>2 DEF ExportersInit, ExportersTypeOK
<1>5. OneSupervisor /\ ClearedInv
    BY <1>1 DEF ExportersInit, OneSupervisor, ClearedInv, ResetStaysClear
<1> QED BY <1>4, <1>5 DEF ExportersIndInv

LEMMA ExporterChild ==
    ASSUME ExportersTypeOK, NEW i \in 0..MaxSupervisor
    PROVE  SetChildCancel(i) \in ExporterRuntime
BY DEF ExportersTypeOK, ExporterRuntime, SetChildCancel

\* One supervisor moves; no other is touched.
LEMMA SupervisorMoves ==
    ASSUME ExportersTypeOK, NEW i \in 1..MaxSupervisor, NEW s \in SupervisorState,
           xsup' = [xsup EXCEPT ![i] = s]
    PROVE  /\ xsup' \in [1..MaxSupervisor -> SupervisorState]
           /\ xsup'[i] = s /\ \A j \in 1..MaxSupervisor : j # i => xsup'[j] = xsup[j]
BY DEF ExportersTypeOK

LEMMA CatalogChangeKeeps ==
    ASSUME "reregister" \notin ExporterFaults, ExportersIndInv, CatalogChange
    PROVE  ExportersIndInv'
<1> USE DEF ExportersIndInv
<1>1. ExportersTypeOK'
    BY DEF CatalogChange, ExportersTypeOK
<1>2. ~xreg => \A i \in 1..MaxSupervisor : xsup[i].pc = "gone"
    BY DEF CatalogChange, Draining, ExportersTypeOK
<1>3. OneSupervisor'
    BY <1>2 DEF CatalogChange, OneSupervisor, ExportersTypeOK
<1>4. ClearedInv'
    BY <1>2 DEF CatalogChange, ClearedInv, ResetStaysClear, ExportersTypeOK
<1> QED BY <1>1, <1>3, <1>4

LEMMA ReconcileKeeps ==
    ASSUME ExportersIndInv, ReconcileExporters
    PROVE  ExportersIndInv'
<1> USE DEF ExportersIndInv
<1>1. CASE ~xreg /\ xmap # 0
    <2> DEFINE s == [xsup[xmap] EXCEPT !.cancelled = TRUE, !.killed = TRUE]
    <2>1. xmap \in 1..MaxSupervisor /\ xsup[xmap] \in SupervisorState
        BY <1>1, ExportersAssumption DEF ExportersTypeOK
    <2>2. /\ xsup' = [xsup EXCEPT ![xmap] = s] /\ xmap' = 0 /\ xrt' = NoRuntime
          /\ UNCHANGED <<xreg, xstate, xclean, xleft>>
        BY <1>1, <2>1 DEF ReconcileExporters, ExportersTypeOK
    <2>3. s \in SupervisorState /\ s.pc = xsup[xmap].pc /\ s.cancelled
        BY <2>1 DEF SupervisorState
    <2> HIDE DEF s
    <2>4. /\ xsup' \in [1..MaxSupervisor -> SupervisorState]
          /\ xsup'[xmap] = s /\ \A j \in 1..MaxSupervisor : j # xmap => xsup'[j] = xsup[j]
        BY <2>1, <2>2, <2>3, SupervisorMoves
    <2>5. ExportersTypeOK'
        BY <2>2, <2>4, ExportersAssumption DEF ExportersTypeOK, NoRuntime, ExporterRuntime
    <2>6. xsup[xmap].pc # "gone"
        BY <1>1 DEF OneSupervisor
    <2>7. OneSupervisor'
        BY <1>1, <2>1, <2>2, <2>3, <2>4, <2>6 DEF OneSupervisor, NoSupervisor
    <2>8. ClearedInv'
        BY <1>1, <2>2 DEF ClearedInv, ResetStaysClear
    <2> QED BY <2>5, <2>7, <2>8
<1>2. CASE xreg /\ xmap = 0 /\ xleft.supervisor <= MaxSupervisor
    <2> DEFINE i == xleft.supervisor
               s == [xsup[i] EXCEPT !.pc = "top"]
    <2>1. i \in 1..MaxSupervisor /\ ~xsup[i].cancelled /\ xsup[i] \in SupervisorState
        BY <1>2, ExportersAssumption DEF ExportersTypeOK, ExporterBudget, OneSupervisor
    <2>2. /\ xsup' = [xsup EXCEPT ![i] = s] /\ xmap' = i
          /\ xleft' = [xleft EXCEPT !.supervisor = @ + 1]
          /\ UNCHANGED <<xreg, xrt, xstate, xclean>>
        BY <1>2, <2>1 DEF ReconcileExporters, ExportersTypeOK
    <2>3. s \in SupervisorState /\ s.pc = "top" /\ ~s.cancelled
        BY <2>1 DEF SupervisorState
    <2>4. xleft' \in ExporterBudget /\ xleft'.supervisor = i + 1
        BY <2>2 DEF ExportersTypeOK, ExporterBudget
    <2> HIDE DEF s
    <2>5. /\ xsup' \in [1..MaxSupervisor -> SupervisorState]
          /\ xsup'[i] = s /\ \A j \in 1..MaxSupervisor : j # i => xsup'[j] = xsup[j]
        BY <2>1, <2>2, <2>3, SupervisorMoves
    <2>6. i \in Nat /\ i # 0
        BY DEF ExportersTypeOK, ExporterBudget
    <2> HIDE DEF i
    <2>7. ExportersTypeOK'
        BY <2>1, <2>2, <2>4, <2>5, ExportersAssumption DEF ExportersTypeOK
    <2>8. OneSupervisor'
        <3>1. \A j \in 1..MaxSupervisor : j >= i + 1 => xsup'[j].pc = "gone" /\ ~xsup'[j].cancelled
            BY <2>1, <2>5, <2>6, ExportersAssumption DEF OneSupervisor, i
        <3>2. \A j \in 1..MaxSupervisor : j # i /\ xsup'[j].pc # "gone" => FALSE
            BY <1>2, <2>5 DEF OneSupervisor
        <3> QED BY <2>2, <2>3, <2>4, <2>5, <2>6, <3>1, <3>2 DEF OneSupervisor
    <2>9. ClearedInv'
        BY <1>2, <2>2, <2>3, <2>5 DEF ClearedInv, ResetStaysClear
    <2> QED BY <2>7, <2>8, <2>9
<1> QED BY <1>1, <1>2 DEF ReconcileExporters

\* A supervisor that goes on keeps its place in the map, or its cancellation;
\* one that is cancelled may also return.
LEMMA SupervisorStep ==
    ASSUME ExportersTypeOK, OneSupervisor, NEW i \in 1..MaxSupervisor, NEW s \in SupervisorState,
           xsup[i].pc # "gone", xsup' = [xsup EXCEPT ![i] = s], UNCHANGED <<xreg, xmap>>,
           xleft'.supervisor = xleft.supervisor,
           \/ s.pc # "gone" /\ s.cancelled = xsup[i].cancelled
           \/ xsup[i].cancelled /\ s = NoSupervisor
    PROVE  OneSupervisor'
<1>1. xsup'[i] = s /\ \A j \in 1..MaxSupervisor : j # i => xsup'[j] = xsup[j]
    BY SupervisorMoves
<1>2. i < xleft.supervisor
    BY ExportersAssumption DEF OneSupervisor, ExportersTypeOK, ExporterBudget
<1>3. \A j \in 1..MaxSupervisor : j >= xleft'.supervisor => xsup'[j].pc = "gone" /\ ~xsup'[j].cancelled
    BY <1>1, <1>2, ExportersAssumption DEF OneSupervisor, ExportersTypeOK, ExporterBudget
<1>4. xmap # 0 => xsup'[xmap].pc # "gone" /\ ~xsup'[xmap].cancelled
    BY <1>1, ExportersAssumption DEF OneSupervisor, ExportersTypeOK
<1>5. \A j \in 1..MaxSupervisor : j # xmap /\ xsup'[j].pc # "gone" => ~xreg /\ xsup'[j].cancelled
    BY <1>1 DEF OneSupervisor, NoSupervisor
<1> QED BY <1>3, <1>4, <1>5 DEF OneSupervisor

LEMMA LaunchKeeps ==
    ASSUME ExportersIndInv, NEW i \in 1..MaxSupervisor, Launch(i)
    PROVE  ExportersIndInv'
<1> USE DEF ExportersIndInv
<1>1. xsup[i] \in SupervisorState /\ xsup[i].pc = "top" /\ UNCHANGED <<xreg, xmap, xstate>>
    BY DEF Launch, ExportersTypeOK
<1>2. CASE xsup[i].cancelled
    <2>1. xsup' = [xsup EXCEPT ![i] = NoSupervisor] /\ UNCHANGED <<xrt, xclean, xleft>>
        BY <1>2 DEF Launch
    <2>2. NoSupervisor \in SupervisorState /\ NoSupervisor.pc = "gone"
        BY DEF NoSupervisor, SupervisorState
    <2>3. /\ xsup' \in [1..MaxSupervisor -> SupervisorState] /\ xsup'[i] = NoSupervisor
          /\ \A j \in 1..MaxSupervisor : j # i => xsup'[j] = xsup[j]
        BY <2>1, <2>2, SupervisorMoves
    <2>4. OneSupervisor'
        BY <1>1, <1>2, <2>1, <2>2, SupervisorStep
    <2>5. ExportersTypeOK' /\ ClearedInv'
        BY <1>1, <2>1, <2>2, <2>3 DEF ExportersTypeOK, ClearedInv, ResetStaysClear
    <2> QED BY <2>4, <2>5
<1>3. CASE ~xsup[i].cancelled
    <2>1. PICK minted \in BOOLEAN :
            /\ xsup' = [xsup EXCEPT ![i].pc = IF minted THEN "child" ELSE "ended", ![i].killed = FALSE]
            /\ xrt' = IF minted THEN SetChildCancel(i) ELSE xrt
            /\ xclean' = (xclean /\ ~minted)
            /\ xleft' = [xleft EXCEPT !.launch = @ - 1]
        BY <1>3 DEF Launch
    <2> DEFINE s == [xsup[i] EXCEPT !.pc = IF minted THEN "child" ELSE "ended", !.killed = FALSE]
    <2>2. /\ s \in SupervisorState /\ s.pc = (IF minted THEN "child" ELSE "ended")
          /\ s.cancelled = xsup[i].cancelled
        BY <1>1 DEF SupervisorState
    <2>3. xsup' = [xsup EXCEPT ![i] = s]
        BY <1>1, <2>1 DEF ExportersTypeOK
    <2> HIDE DEF s
    <2>4. /\ xsup' \in [1..MaxSupervisor -> SupervisorState] /\ xsup'[i] = s
          /\ \A j \in 1..MaxSupervisor : j # i => xsup'[j] = xsup[j]
        BY <2>2, <2>3, SupervisorMoves
    <2>5. xleft' \in ExporterBudget /\ xleft'.supervisor = xleft.supervisor
        BY <2>1 DEF ExportersTypeOK, ExporterBudget
    <2>6. xrt' \in ExporterRuntime
        <3>1. CASE minted
            BY <2>1, <3>1, ExporterChild, ExportersAssumption
        <3>2. CASE ~minted
            BY <2>1, <3>2 DEF ExportersTypeOK
        <3> QED BY <3>1, <3>2
    <2>7. OneSupervisor'
        BY <1>1, <2>2, <2>3, <2>5, SupervisorStep
    <2>8. ExportersTypeOK'
        BY <1>1, <2>1, <2>4, <2>5, <2>6 DEF ExportersTypeOK
    <2>9. ClearedInv'
        <3>1. CASE minted
            BY <2>1, <3>1 DEF ClearedInv, ResetStaysClear
        <3>2. CASE ~minted
            BY <1>1, <2>1, <2>2, <2>4, <3>2 DEF ClearedInv, ResetStaysClear
        <3> QED BY <3>1, <3>2
    <2> QED BY <2>7, <2>8, <2>9
<1> QED BY <1>2, <1>3

LEMMA ChildSavesKeeps ==
    ASSUME ExportersIndInv, NEW i \in 1..MaxSupervisor, ChildSaves(i)
    PROVE  ExportersIndInv'
BY DEF ExportersIndInv, ChildSaves, ExportersTypeOK, OneSupervisor, ClearedInv, ResetStaysClear

\* Steps of a supervisor that leave the state as it is and start no child.
LEMMA QuietKeeps ==
    ASSUME ExportersIndInv, NEW i \in 1..MaxSupervisor,
           LivenessKill(i) \/ ChildEnds(i) \/ Backoff(i)
    PROVE  ExportersIndInv'
<1> USE DEF ExportersIndInv
<1> DEFINE s == xsup'[i]
<1>1. /\ xsup[i] \in SupervisorState /\ xsup[i].pc # "gone"
      /\ UNCHANGED <<xreg, xmap, xstate, xclean, xleft>>
    BY DEF LivenessKill, ChildEnds, Backoff, ExportersTypeOK
<1>2. /\ s \in SupervisorState /\ s.cancelled = xsup[i].cancelled /\ s.pc # "gone"
      /\ s.pc = "child" => xsup[i].pc = "child"
      /\ xsup' = [xsup EXCEPT ![i] = s]
    <2>1. CASE LivenessKill(i)
        BY <1>1, <2>1 DEF LivenessKill, SupervisorState, ExportersTypeOK
    <2>2. CASE ChildEnds(i)
        BY <1>1, <2>2 DEF ChildEnds, SupervisorState, ExportersTypeOK
    <2>3. CASE Backoff(i)
        BY <1>1, <2>3 DEF Backoff, SupervisorState, ExportersTypeOK
    <2> QED BY <2>1, <2>2, <2>3
<1>3. xrt' \in ExporterRuntime
    <2>1. CASE ChildEnds(i)
        BY <2>1, ExporterChild, ExportersAssumption DEF ChildEnds
    <2>2. CASE xrt' = xrt
        BY <2>2 DEF ExportersTypeOK
    <2> QED BY <2>1, <2>2 DEF LivenessKill, Backoff
<1>4. /\ xsup' \in [1..MaxSupervisor -> SupervisorState]
      /\ \A j \in 1..MaxSupervisor : j # i => xsup'[j] = xsup[j]
    BY <1>2, SupervisorMoves
<1>5. OneSupervisor'
    BY <1>1, <1>2, SupervisorStep
<1>6. ExportersTypeOK'
    BY <1>1, <1>3, <1>4 DEF ExportersTypeOK
<1>7. ClearedInv'
    BY <1>1, <1>2, <1>4 DEF ClearedInv, ResetStaysClear
<1> QED BY <1>5, <1>6, <1>7

LEMMA AfterRunKeeps ==
    ASSUME ExportersIndInv, NEW i \in 1..MaxSupervisor, AfterRun(i)
    PROVE  ExportersIndInv'
<1> USE DEF ExportersIndInv
<1> DEFINE s == xsup'[i]
<1>1. xsup[i] \in SupervisorState /\ xsup[i].pc = "ended" /\ UNCHANGED <<xreg, xmap, xleft>>
    BY DEF AfterRun, ExportersTypeOK
<1>2. /\ xsup' = [xsup EXCEPT ![i] = s] /\ s \in SupervisorState /\ s.pc # "child"
      /\ \/ s.pc # "gone" /\ s.cancelled = xsup[i].cancelled
         \/ xsup[i].cancelled /\ s = NoSupervisor
    <2>1. CASE xsup[i].cancelled
        <3>1. xsup' = [xsup EXCEPT ![i] = NoSupervisor]
            BY <2>1 DEF AfterRun
        <3>2. s = NoSupervisor
            BY <3>1 DEF ExportersTypeOK
        <3>3. NoSupervisor \in SupervisorState /\ NoSupervisor.pc = "gone"
            BY DEF SupervisorState, NoSupervisor
        <3> HIDE DEF s
        <3> QED BY <2>1, <3>1, <3>2, <3>3
    <2>2. CASE ~xsup[i].cancelled
        <3>1. PICK pc \in {"top", "backoff"} : xsup' = [xsup EXCEPT ![i].pc = pc]
            BY <2>2 DEF AfterRun
        <3>2. s = [xsup[i] EXCEPT !.pc = pc] /\ xsup' = [xsup EXCEPT ![i] = s]
            BY <3>1 DEF ExportersTypeOK
        <3>3. s \in SupervisorState /\ s.pc = pc /\ s.cancelled = xsup[i].cancelled
            BY <1>1, <3>2 DEF SupervisorState
        <3> QED BY <3>2, <3>3
    <2> QED BY <2>1, <2>2
<1>3. xrt' \in ExporterRuntime
    BY ExportersAssumption DEF AfterRun, ExportersTypeOK, ExporterRuntime
<1>4. /\ xsup' \in [1..MaxSupervisor -> SupervisorState]
      /\ \A j \in 1..MaxSupervisor : j # i => xsup'[j] = xsup[j]
    BY <1>2, SupervisorMoves
<1>5. OneSupervisor'
    BY <1>1, <1>2, SupervisorStep
<1>6. \/ UNCHANGED <<xstate, xclean>>
      \/ ~xsup[i].cancelled /\ xstate' = "none" /\ xclean' = TRUE
    BY DEF AfterRun
<1>7. ExportersTypeOK'
    BY <1>1, <1>3, <1>4, <1>6 DEF ExportersTypeOK
<1>8. ClearedInv'
    <2>1. CASE UNCHANGED <<xstate, xclean>>
        BY <1>1, <1>2, <1>4, <2>1 DEF ClearedInv, ResetStaysClear
    <2>2. CASE ~xsup[i].cancelled /\ xstate' = "none" /\ xclean' = TRUE
        <3>1. xreg => \A j \in 1..MaxSupervisor : j # i => xsup[j].pc = "gone"
            BY <1>1, <2>2 DEF OneSupervisor
        <3> QED BY <1>1, <1>2, <1>4, <2>2, <3>1 DEF ClearedInv, ResetStaysClear
    <2> QED BY <1>6, <2>1, <2>2
<1> QED BY <1>5, <1>7, <1>8

LEMMA ResyncKeeps ==
    ASSUME ExportersIndInv, Resync
    PROVE  ExportersIndInv'
<1> USE DEF ExportersIndInv
<1>1. /\ UNCHANGED <<xreg, xmap, xstate, xclean>> /\ xrt' = [xrt EXCEPT !.reset = TRUE]
      /\ xleft' = [xleft EXCEPT !.reset = @ - 1]
      /\ xsup' = IF xrt.child = 0 THEN xsup ELSE [xsup EXCEPT ![xrt.child].killed = TRUE]
    BY DEF Resync, ResyncLeaves
<1>2. xrt.child \in 0..MaxSupervisor /\ xrt' \in ExporterRuntime
    BY <1>1 DEF ExportersTypeOK, ExporterRuntime
<1>3. xleft' \in ExporterBudget /\ xleft'.supervisor = xleft.supervisor
    BY <1>1 DEF ExportersTypeOK, ExporterBudget
<1>4. /\ xsup' \in [1..MaxSupervisor -> SupervisorState]
      /\ \A j \in 1..MaxSupervisor :
            xsup'[j].pc = xsup[j].pc /\ xsup'[j].cancelled = xsup[j].cancelled
    BY <1>1, <1>2 DEF ExportersTypeOK, SupervisorState
<1>5. ExportersTypeOK'
    BY <1>1, <1>2, <1>3, <1>4 DEF ExportersTypeOK
<1>7. OneSupervisor'
    BY <1>1, <1>3, <1>4 DEF OneSupervisor, ExportersTypeOK
<1>8. ClearedInv'
    BY <1>1, <1>4 DEF ClearedInv, ResetStaysClear
<1> QED BY <1>5, <1>7, <1>8

-----------------------------------------------------------------------------
\* ResetStaysClear holds of any number of supervisors, launches and resets while
\* no exporter is registered again with an old child still draining: the cursor
\* that consumeReset and clearExporterState removed is not brought back.
THEOREM ResetDoesStayClear ==
    ASSUME "reregister" \notin ExporterFaults
    PROVE  ExportersSpec => []ResetStaysClear
<1>1. ExportersIndInv /\ UNCHANGED exportervars => ExportersIndInv'
    BY DEF ExportersIndInv, ExportersTypeOK, OneSupervisor, ClearedInv, ResetStaysClear, exportervars
<1>2. ExportersIndInv /\ [ExportersNext]_exportervars => ExportersIndInv'
    <2> SUFFICES ASSUME ExportersIndInv, ExportersNext PROVE ExportersIndInv'
        BY <1>1
    <2>1. CASE CatalogChange
        BY <2>1, CatalogChangeKeeps
    <2>2. CASE ReconcileExporters
        BY <2>2, ReconcileKeeps
    <2>3. CASE Resync
        BY <2>3, ResyncKeeps
    <2>4. ASSUME NEW i \in DOMAIN xsup,
                 \/ Launch(i) \/ ChildSaves(i) \/ LivenessKill(i) \/ ChildEnds(i)
                 \/ AfterRun(i) \/ Backoff(i)
          PROVE  ExportersIndInv'
        <3>1. i \in 1..MaxSupervisor
            BY DEF ExportersIndInv, ExportersTypeOK
        <3> QED BY <2>4, <3>1, LaunchKeeps, ChildSavesKeeps, QuietKeeps, AfterRunKeeps
    <2> QED BY <2>1, <2>2, <2>3, <2>4 DEF ExportersNext
<1>3. ExportersIndInv => ResetStaysClear
    BY DEF ExportersIndInv, ClearedInv
<1> QED BY <1>2, <1>3, ExportersInitOK, PTL DEF ExportersSpec
-----------------------------------------------------------------------------
(***************************************************************************)
(* Managers.  A table is registered before a writer of it starts and until *)
(* that writer is gone: the claim made at the start of apply holds across  *)
(* the wait for the old writers, and the registry never gives one table to *)
(* two managers.                                                           *)
(***************************************************************************)
Settings == {Off} \cup {Resolve(m, cfg) : m \in Manager, cfg \in Configs}
ManagedTable == UNION {s.tables : s \in Settings}
ManagerState ==
    [cur : Settings, run : {"none", "live", "child", "ending", "dead"}, cancelled : BOOLEAN,
     tables : SUBSET ManagedTable, stray : SUBSET ManagedTable]
ApplyState ==
    [pc : {"enter", "join", "serve", "stop", "stopping", "closed"}, queue : Seq(Manager), cfg : Configs,
     pending : Seq(Manager), boot : BOOLEAN, flush : BOOLEAN]

ManagersTypeOK ==
    /\ dapply \in ApplyState
    /\ dman \in [Manager -> ManagerState]
    /\ downed \in [Owning -> SUBSET ManagedTable]

\* What m may write while it is not gone.
Registered(m) ==
    /\ dman[m].stray = {}
    /\ m \in Owning /\ ~Gone(m) => dman[m].tables \subseteq downed[m]

OneOwner == \A m, o \in Owning : m # o => downed[m] \cap downed[o] = {}

ClaimHeld ==
    \A m \in Owning :
        dapply.pc = "join" /\ At(m) => Resolve(m, dapply.cfg).tables \subseteq downed[m]

ManagersIndInv ==
    ManagersTypeOK /\ (\A m \in Manager : Registered(m)) /\ OneOwner /\ ClaimHeld

-----------------------------------------------------------------------------
LEMMA ManagerNames ==
    Manager = {"sched", "mirror", "exp", "ced", "fed", "imp"} /\ Owning \subseteq Manager
<1>1. Manager = {"sched", "mirror", "exp", "ced", "fed", "imp"}
    BY DEF Manager, Order, ToSet
<1> QED BY <1>1 DEF Owning

LEMMA StopOrderManagers == StopOrder \in Seq(Manager) /\ Order \in Seq(Manager)
BY ManagerNames DEF StopOrder, Order

\* A manager that is off has no tables, whatever the configuration.
LEMMA ResolveOff ==
    ASSUME NEW m \in Manager, NEW cfg \in Configs, ~Resolve(m, cfg).on
    PROVE  Resolve(m, cfg).tables = {}
BY ManagerNames
   DEF Resolve, ResolveSched, ResolveMirrorOut, ResolveExporter, ResolveCedar, ResolveFederation,
       ResolveImporter, Off

LEMMA ResolveTables ==
    ASSUME NEW m \in Manager, NEW cfg \in Configs
    PROVE  Resolve(m, cfg) \in Settings /\ Resolve(m, cfg).tables \subseteq ManagedTable
BY DEF Settings, ManagedTable

LEMMA IdleState ==
    /\ Idle \in ManagerState /\ Idle.stray = {} /\ Idle.run = "none"
    /\ [Idle EXCEPT !.stray = {}] = Idle
<1>1. Off \in Settings
    BY DEF Settings
<1>2. Idle.stray = {} /\ Idle.run = "none" /\ Idle \in ManagerState
    BY <1>1 DEF Idle, ManagerState
<1>3. [Idle EXCEPT !.stray = {}] = Idle
    BY <1>2 DEF ManagerState
<1> QED BY <1>2, <1>3

LEMMA LaunchedState ==
    ASSUME NEW s \in Settings
    PROVE  /\ Launched(Idle, s) \in ManagerState
           /\ Launched(Idle, s).stray = {} /\ Launched(Idle, s).tables = s.tables
<1>1. s.tables \subseteq ManagedTable
    BY DEF ManagedTable
<1> QED BY <1>1, IdleState DEF Launched, ManagerState

LEMMA ManagersInitOK == ManagersInit => ManagersIndInv
<1> SUFFICES ASSUME NEW cfg \in Configs, ManagersStart(cfg) PROVE ManagersIndInv
    BY DEF ManagersInit
<1>1. dapply \in ApplyState /\ dapply.pc = "enter"
    <2>1. <<>> \in Seq(Manager)
        OBVIOUS
    <2> QED BY <2>1, StopOrderManagers DEF ManagersStart, ApplyState
<1>2. dman \in [Manager -> ManagerState] /\ \A m \in Manager : dman[m] = Idle
    BY IdleState DEF ManagersStart
<1>3. downed \in [Owning -> SUBSET ManagedTable] /\ \A m \in Owning : downed[m] = {}
    BY DEF ManagersStart
<1>4. \A m \in Manager : Registered(m)
    BY <1>2, IdleState DEF Registered, Gone
<1> QED BY <1>1, <1>2, <1>3, <1>4 DEF ManagersIndInv, ManagersTypeOK, OneOwner, ClaimHeld

-----------------------------------------------------------------------------
\* A manager's writers change within what is registered to it.
LEMMA WriterStep ==
    ASSUME ManagersIndInv, NEW m \in Manager, NEW s \in ManagerState,
           dman' = [dman EXCEPT ![m] = s], UNCHANGED <<dapply, downed>>,
           s.stray = {}, s.tables = dman[m].tables,
           s.run \in {"none", "dead"} \/ ~Gone(m)
    PROVE  ManagersIndInv'
<1>1. dman' \in [Manager -> ManagerState] /\ dman'[m] = s /\ \A o \in Manager : o # m => dman'[o] = dman[o]
    BY DEF ManagersIndInv, ManagersTypeOK
<1>2. ManagersTypeOK'
    BY <1>1 DEF ManagersIndInv, ManagersTypeOK
<1>3. ASSUME NEW o \in Manager PROVE Registered(o)'
    <2>1. CASE o = m
        BY <1>1, <2>1 DEF ManagersIndInv, Registered, Gone
    <2>2. CASE o # m
        BY <1>1, <2>2 DEF ManagersIndInv, Registered, Gone
    <2> QED BY <2>1, <2>2
<1>4. OneOwner' /\ ClaimHeld'
    BY DEF ManagersIndInv, OneOwner, ClaimHeld, At
<1> QED BY <1>2, <1>3, <1>4 DEF ManagersIndInv

\* Fields of a manager's state.
LEMMA ManagerFields ==
    ASSUME ManagersIndInv, NEW m \in Manager
    PROVE  dman[m] \in ManagerState /\ dman[m].stray = {}
BY DEF ManagersIndInv, ManagersTypeOK, Registered

LEMMA RunField ==
    ASSUME ManagersIndInv, NEW m \in Manager, NEW r \in {"none", "live", "child", "ending", "dead"},
           NEW s, s = [dman[m] EXCEPT !.run = r]
    PROVE  s \in ManagerState /\ s.stray = {} /\ s.run = r /\ s.tables = dman[m].tables
BY ManagerFields DEF ManagerState

LEMMA CancelledField ==
    ASSUME ManagersIndInv, NEW m \in Manager, NEW c \in BOOLEAN,
           NEW s, s = [dman[m] EXCEPT !.cancelled = c]
    PROVE  s \in ManagerState /\ s.stray = {} /\ s.run = dman[m].run /\ s.tables = dman[m].tables
BY ManagerFields DEF ManagerState

LEMMA RunStep ==
    ASSUME ManagersIndInv, NEW m \in Manager, NEW r \in {"live", "child", "ending", "dead"},
           ~Gone(m), dman' = [dman EXCEPT ![m].run = r], UNCHANGED <<dapply, downed>>
    PROVE  ManagersIndInv'
<1>1. dman' = [dman EXCEPT ![m] = [dman[m] EXCEPT !.run = r]]
    BY DEF ManagersIndInv, ManagersTypeOK
<1> DEFINE s == [dman[m] EXCEPT !.run = r]
<1>2. s \in ManagerState /\ s.stray = {} /\ s.run = r /\ s.tables = dman[m].tables
    BY RunField, ZenonT(30)
<1> HIDE DEF s
<1> QED BY <1>1, <1>2, WriterStep DEF s

LEMMA WritersKeep ==
    ASSUME ManagersIndInv, NEW m \in Manager,
           \/ WritersReturn(m) \/ WritersEnd(m) \/ ChildStart(m) \/ ChildExit(m) \/ MarkExit(m)
    PROVE  ManagersIndInv'
<1>1. dman[m].stray = {}
    BY DEF ManagersIndInv, Registered
<1>2. \E r \in {"live", "child", "ending", "dead"} : dman' = [dman EXCEPT ![m].run = r]
    BY <1>1 DEF WritersReturn, WritersEnd, ChildStart, ChildExit, MarkExit
<1>3. ~Gone(m) /\ UNCHANGED <<dapply, downed>>
    BY <1>1 DEF WritersReturn, WritersEnd, ChildStart, ChildExit, MarkExit, Gone
<1> QED BY <1>2, <1>3, RunStep

LEMMA ExitTableReadOnlyKeeps ==
    ASSUME ManagersIndInv, ExitTableReadOnly
    PROVE  ManagersIndInv'
<1>1. "imp" \in Manager
    BY ManagerNames
<1> QED BY <1>1, RunStep DEF ExitTableReadOnly, Gone

LEMMA ForgetKeeps ==
    ASSUME ManagersIndInv, Forget
    PROVE  ManagersIndInv'
<1>1. "fed" \in Manager
    BY ManagerNames
<1> DEFINE s == [dman["fed"] EXCEPT !.cur = Off]
<1>2. Off \in Settings /\ dman["fed"] \in ManagerState /\ dman["fed"].stray = {}
    <2>1. Off \in Settings
        BY DEF Settings
    <2> QED BY <1>1, <2>1, ManagerFields
<1>3. s \in ManagerState /\ s.stray = {} /\ s.run = dman["fed"].run /\ s.tables = dman["fed"].tables
    BY <1>2 DEF ManagerState
<1>4. dman' = [dman EXCEPT !["fed"] = s] /\ UNCHANGED <<dapply, downed>>
    BY <1>1 DEF Forget, ManagersIndInv, ManagersTypeOK
<1> HIDE DEF s
<1> QED BY <1>1, <1>3, <1>4, WriterStep DEF Forget

-----------------------------------------------------------------------------
\* The applying thread moves on.
LEMMA ApplyFields ==
    ASSUME ManagersTypeOK
    PROVE  /\ dapply.queue \in Seq(Manager) /\ dapply.pending \in Seq(Manager) /\ dapply.cfg \in Configs
           /\ dapply.queue # <<>> => Head(dapply.queue) \in Manager /\ Tail(dapply.queue) \in Seq(Manager)
BY DEF ManagersTypeOK, ApplyState

LEMMA AdvanceOK ==
    ASSUME ManagersTypeOK, dapply.queue # <<>>, NEW failed \in BOOLEAN, Advance(failed)
    PROVE  dapply' \in ApplyState /\ dapply'.pc # "join"
<1>1. dapply \in ApplyState /\ Tail(dapply.queue) \in Seq(Manager)
    BY ApplyFields DEF ManagersTypeOK
<1>2. CASE failed /\ dapply.boot
    <2>1. dapply' = [dapply EXCEPT !.pc = "stop", !.queue = StopOrder]
        BY <1>2 DEF Advance
    <2> QED BY <1>1, <2>1, StopOrderManagers DEF ApplyState
<1>3. CASE ~(failed /\ dapply.boot)
    <2>1. dapply' = [dapply EXCEPT !.pc = "enter", !.queue = Tail(dapply.queue)]
        BY <1>3 DEF Advance
    <2> QED BY <1>1, <2>1 DEF ApplyState
<1> QED BY <1>2, <1>3

LEMMA ClaimRefusedOK ==
    ASSUME ManagersTypeOK, dapply.queue # <<>>, dapply.pc = "enter", NEW m \in Manager, ClaimRefused(m)
    PROVE  dapply' \in ApplyState /\ dapply'.pc # "join"
<1>1. CASE dapply.boot \/ dapply.flush
    BY <1>1, AdvanceOK DEF ClaimRefused
<1>2. CASE ~(dapply.boot \/ dapply.flush)
    <2> DEFINE q == Tail(dapply.queue)
               p == Append(dapply.pending, m)
    <2>1. dapply' = [dapply EXCEPT !.queue = q, !.pending = p]
        BY <1>2 DEF ClaimRefused
    <2>2. q \in Seq(Manager) /\ p \in Seq(Manager) /\ dapply \in ApplyState
        BY ApplyFields DEF ManagersTypeOK
    <2> HIDE DEF q, p
    <2> QED BY <2>1, <2>2 DEF ApplyState
<1> QED BY <1>1, <1>2

\* Only the thread moves, and not to the wait.
LEMMA ThreadStep ==
    ASSUME ManagersIndInv, UNCHANGED <<dman, downed>>, dapply' \in ApplyState, dapply'.pc # "join"
    PROVE  ManagersIndInv'
BY DEF ManagersIndInv, ManagersTypeOK, Registered, Gone, OneOwner, ClaimHeld

LEMMA ApplyDoneKeeps ==
    ASSUME ManagersIndInv, ApplyDone
    PROVE  ManagersIndInv'
<1>1. dapply \in ApplyState /\ dapply.pc = "enter" /\ dapply.pending \in Seq(Manager) /\ <<>> \in Seq(Manager)
    BY ApplyFields DEF ApplyDone, ManagersIndInv, ManagersTypeOK
<1>2. CASE dapply.pending = <<>>
    <2>1. dapply' = [dapply EXCEPT !.pc = "serve", !.boot = FALSE, !.flush = FALSE]
        BY <1>2 DEF ApplyDone
    <2>2. dapply' \in ApplyState /\ dapply'.pc # "join"
        BY <1>1, <2>1 DEF ApplyState
    <2> QED BY <2>2, ThreadStep DEF ApplyDone
<1>3. CASE dapply.pending # <<>>
    <2>1. dapply' = [dapply EXCEPT !.queue = dapply.pending, !.pending = <<>>, !.flush = TRUE]
        BY <1>3 DEF ApplyDone
    <2>2. dapply' \in ApplyState /\ dapply'.pc # "join"
        BY <1>1, <2>1 DEF ApplyState
    <2> QED BY <2>2, ThreadStep DEF ApplyDone
<1> QED BY <1>2, <1>3

LEMMA ReconfigureKeeps ==
    ASSUME ManagersIndInv, NEW cfg \in Configs, Reconfigure(cfg)
    PROVE  ManagersIndInv'
<1>1. dapply' = [dapply EXCEPT !.pc = "enter", !.queue = Order, !.cfg = cfg] /\ dapply \in ApplyState
    BY DEF Reconfigure, ManagersIndInv, ManagersTypeOK
<1>2. dapply' \in ApplyState /\ dapply'.pc # "join"
    BY <1>1, StopOrderManagers DEF ApplyState
<1> QED BY <1>2, ThreadStep DEF Reconfigure

LEMMA DaemonStopKeeps ==
    ASSUME ManagersIndInv, DaemonStop
    PROVE  ManagersIndInv'
<1>1. dapply' = [dapply EXCEPT !.pc = "stop", !.queue = StopOrder] /\ dapply \in ApplyState
    BY DEF DaemonStop, ManagersIndInv, ManagersTypeOK
<1>2. dapply' \in ApplyState /\ dapply'.pc # "join"
    BY <1>1, StopOrderManagers DEF ApplyState
<1> QED BY <1>2, ThreadStep DEF DaemonStop

LEMMA CloseStoreKeeps ==
    ASSUME ManagersIndInv, CloseStore
    PROVE  ManagersIndInv'
<1>1. dapply' = [dapply EXCEPT !.pc = "closed"] /\ dapply \in ApplyState
    BY DEF CloseStore, ManagersIndInv, ManagersTypeOK
<1>2. dapply' \in ApplyState /\ dapply'.pc # "join"
    BY <1>1 DEF ApplyState
<1>3. ASSUME NEW m \in Manager
      PROVE  /\ dman'[m] \in ManagerState /\ dman'[m].stray = {} /\ dman'[m].run = dman[m].run
             /\ dman'[m].tables = dman[m].tables
    <2> DEFINE c == dman[m].run # "none"
    <2>1. c \in BOOLEAN /\ dman'[m] = [dman[m] EXCEPT !.cancelled = c]
        BY DEF CloseStore
    <2> HIDE DEF c
    <2> QED BY <2>1, CancelledField, ZenonT(30)
<1>4. dman' \in [Manager -> ManagerState]
    BY <1>3 DEF CloseStore
<1>5. downed' = downed
    BY DEF CloseStore
<1> QED BY <1>2, <1>3, <1>4, <1>5
        DEF ManagersIndInv, ManagersTypeOK, Registered, Gone, OneOwner, ClaimHeld

-----------------------------------------------------------------------------
\* The thread and one manager move together: the manager's tables become owned
\* by it, from tables that nobody else owns.
LEMMA OwnerStep ==
    ASSUME ManagersIndInv, NEW m \in Manager, NEW s \in ManagerState, NEW owned \in SUBSET ManagedTable,
           dman' = [dman EXCEPT ![m] = s], s.stray = {},
           dapply' \in ApplyState, dapply'.pc # "join",
           downed' = [downed EXCEPT ![m] = owned],
           m \in Owning => owned \subseteq downed[m],
           m \in Owning /\ s.run \notin {"none", "dead"} => s.tables \subseteq owned
    PROVE  ManagersIndInv'
<1>1. dman' \in [Manager -> ManagerState] /\ dman'[m] = s /\ \A o \in Manager : o # m => dman'[o] = dman[o]
    BY DEF ManagersIndInv, ManagersTypeOK
<1>2. /\ downed' \in [Owning -> SUBSET ManagedTable]
      /\ \A o \in Owning : o # m => downed'[o] = downed[o]
      /\ m \in Owning => downed'[m] = owned
    BY DEF ManagersIndInv, ManagersTypeOK
<1>3. ManagersTypeOK'
    BY <1>1, <1>2 DEF ManagersTypeOK
<1>4. ASSUME NEW o \in Manager PROVE Registered(o)'
    <2>1. CASE o = m
        BY <1>1, <1>2, <2>1 DEF Registered, Gone
    <2>2. CASE o # m
        BY <1>1, <1>2, <2>2 DEF ManagersIndInv, Registered, Gone
    <2> QED BY <2>1, <2>2
<1>5. OneOwner'
    BY <1>2 DEF ManagersIndInv, OneOwner
<1>6. ClaimHeld'
    BY DEF ClaimHeld
<1> QED BY <1>3, <1>4, <1>5, <1>6 DEF ManagersIndInv

LEMMA StopManagerKeeps ==
    ASSUME ManagersIndInv, NEW m \in Owning, StopManager(m)
    PROVE  ManagersIndInv'
<1>1. m \in Manager /\ dapply \in ApplyState /\ dapply.queue # <<>>
    BY ManagerNames DEF StopManager, At, ManagersIndInv, ManagersTypeOK
<1>2. CASE ~Gone(m)
    <2>1. /\ dapply' = [dapply EXCEPT !.pc = "stopping"] /\ downed' = downed
          /\ dman' = [dman EXCEPT ![m] = [dman[m] EXCEPT !.cancelled = TRUE]]
        BY <1>1, <1>2 DEF StopManager, ManagersIndInv, ManagersTypeOK
    <2>2. dapply' \in ApplyState /\ dapply'.pc # "join"
        BY <1>1, <2>1 DEF ApplyState
    <2>3. /\ dman' \in [Manager -> ManagerState]
          /\ \A o \in Manager : /\ dman'[o].stray = {} /\ dman'[o].run = dman[o].run
                                /\ dman'[o].tables = dman[o].tables
        BY <1>1, <2>1, ManagerFields, CancelledField DEF ManagersIndInv, ManagersTypeOK
    <2> QED BY <2>1, <2>2, <2>3
            DEF ManagersIndInv, ManagersTypeOK, Registered, Gone, OneOwner, ClaimHeld
<1>3. CASE Gone(m)
    <2>1. Writing(m) = {}
        BY <1>1, <1>3 DEF Writing, Gone, ManagersIndInv, Registered
    <2>2. /\ dapply' = [dapply EXCEPT !.pc = "stop", !.queue = Tail(dapply.queue)]
          /\ dman' = [dman EXCEPT ![m] = [Idle EXCEPT !.stray = {}]]
          /\ downed' = [downed EXCEPT ![m] = {}]
        BY <1>3, <2>1 DEF StopManager, Set
    <2>3. Tail(dapply.queue) \in Seq(Manager)
        BY <1>1, ApplyFields DEF ManagersIndInv
    <2>4. dapply' \in ApplyState /\ dapply'.pc # "join"
        BY <1>1, <2>2, <2>3 DEF ApplyState
    <2>5. dman' = [dman EXCEPT ![m] = Idle]
        BY <2>2, IdleState
    <2> QED BY <1>1, <2>2, <2>4, <2>5, IdleState, OwnerStep
<1> QED BY <1>2, <1>3

LEMMA ApplyFinishKeeps ==
    ASSUME "tailer" \notin LaunchFaults, ManagersIndInv, NEW m \in Manager, ApplyFinish(m)
    PROVE  ManagersIndInv'
<1> DEFINE next == Resolve(m, dapply.cfg)
<1>1. dapply.pc = "join" /\ At(m) /\ Gone(m) /\ dapply.queue # <<>> /\ dapply.cfg \in Configs
    BY ApplyFields DEF ApplyFinish, At, ManagersIndInv
<1>2. Writing(m) = {}
    BY <1>1 DEF Writing, Gone, ManagersIndInv, Registered
<1>3. next \in Settings /\ next.tables \subseteq ManagedTable /\ (~next.on => next.tables = {})
    BY <1>1, ResolveTables, ResolveOff
<1>4. m \in Owning => next.tables \subseteq downed[m]
    BY <1>1 DEF ManagersIndInv, ClaimHeld
<1>5. \E failed \in BOOLEAN : Advance(failed)
    BY DEF ApplyFinish
<1>6. dapply' \in ApplyState /\ dapply'.pc # "join"
    BY <1>1, <1>5, AdvanceOK DEF ManagersIndInv
<1>7. CASE ~next.late
    <2>1. /\ dman' = [dman EXCEPT ![m] = IF next.on THEN Launched(Idle, next) ELSE Idle]
          /\ downed' = IF m \in Owning THEN [downed EXCEPT ![m] = next.tables] ELSE downed
        BY <1>2, <1>7, IdleState DEF ApplyFinish, Set, ManagersIndInv, ManagersTypeOK
    <2>2. downed' = [downed EXCEPT ![m] = next.tables]
        BY <2>1 DEF ManagersIndInv, ManagersTypeOK
    <2> HIDE DEF next
    <2>3. CASE next.on
        BY <1>3, <1>4, <1>6, <2>1, <2>2, <2>3, LaunchedState, OwnerStep
    <2>4. CASE ~next.on
        BY <1>3, <1>4, <1>6, <2>1, <2>2, <2>4, IdleState, OwnerStep
    <2> QED BY <2>3, <2>4
<1>8. CASE next.late
    <2>1. dman' = [dman EXCEPT ![m] = Idle] /\ downed' = [downed EXCEPT ![m] = {}]
        BY <1>2, <1>8, IdleState DEF ApplyFinish, Set
    <2> QED BY <1>6, <2>1, IdleState, OwnerStep
<1> QED BY <1>7, <1>8

\* apply, up to the wait: nothing changes but the thread, or the claim is made.
LEMMA ApplyEnterKeeps ==
    ASSUME ManagersIndInv, NEW m \in Manager, ApplyEnter(m)
    PROVE  ManagersIndInv'
<1> DEFINE next == Resolve(m, dapply.cfg)
<1>1. dapply.pc = "enter" /\ At(m) /\ dapply.queue # <<>> /\ dapply.cfg \in Configs /\ dapply \in ApplyState
    BY ApplyFields DEF ApplyEnter, At, ManagersIndInv, ManagersTypeOK
<1>2. next.tables \subseteq ManagedTable /\ (~next.on => next.tables = {})
    BY <1>1, ResolveTables, ResolveOff
<1>3. CASE UNCHANGED <<dman, downed>> /\ (Advance(TRUE) \/ Advance(FALSE) \/ ClaimRefused(m))
    BY <1>1, <1>3, AdvanceOK, ClaimRefusedOK, ThreadStep DEF ManagersIndInv
<1>4. CASE /\ dapply' = [dapply EXCEPT !.pc = "join"] /\ dman' = [dman EXCEPT ![m].cancelled = TRUE]
           /\ IF m \in Owning /\ next.on
                THEN downed' = [downed EXCEPT ![m] = downed[m] \cup next.tables]
                     /\ ~Conflict(m, downed[m] \cup next.tables)
                ELSE downed' = downed
    <2>1. dapply' \in ApplyState /\ dapply'.queue = dapply.queue /\ dapply'.cfg = dapply.cfg
        BY <1>1, <1>4 DEF ApplyState
    <2>2. /\ dman' \in [Manager -> ManagerState]
          /\ \A o \in Manager : /\ dman'[o].stray = {} /\ dman'[o].run = dman[o].run
                                /\ dman'[o].tables = dman[o].tables
        <3>1. dman' = [dman EXCEPT ![m] = [dman[m] EXCEPT !.cancelled = TRUE]]
            BY <1>4 DEF ManagersIndInv, ManagersTypeOK
        <3> QED BY <3>1, ManagerFields, CancelledField DEF ManagersIndInv, ManagersTypeOK
    <2>3. /\ downed' \in [Owning -> SUBSET ManagedTable]
          /\ \A o \in Owning : o # m => downed'[o] = downed[o]
          /\ m \in Owning => downed'[m] = downed[m] \cup next.tables
        <3>1. CASE m \in Owning /\ next.on
            BY <1>2, <1>4, <3>1 DEF ManagersIndInv, ManagersTypeOK
        <3>2. CASE ~(m \in Owning /\ next.on)
            BY <1>2, <1>4, <3>2 DEF ManagersIndInv, ManagersTypeOK
        <3> QED BY <3>1, <3>2
    <2>4. m \in Owning => \A o \in Owning : o # m => downed[o] \cap (downed[m] \cup next.tables) = {}
        <3>1. CASE m \in Owning /\ next.on
            BY <1>4, <3>1 DEF Conflict
        <3>2. CASE ~(m \in Owning /\ next.on)
            BY <1>2, <3>2 DEF ManagersIndInv, OneOwner
        <3> QED BY <3>1, <3>2
    <2>5. ClaimHeld'
        BY <1>1, <2>1, <2>3 DEF ClaimHeld, At
    <2> HIDE DEF next
    <2>6. OneOwner'
        BY <2>3, <2>4 DEF ManagersIndInv, OneOwner
    <2>7. ASSUME NEW o \in Manager PROVE Registered(o)'
        BY <2>2, <2>3 DEF ManagersIndInv, Registered, Gone
    <2> QED BY <2>1, <2>2, <2>3, <2>5, <2>6, <2>7 DEF ManagersIndInv, ManagersTypeOK
<1> QED BY <1>3, <1>4 DEF ApplyEnter, Claimed, Set

-----------------------------------------------------------------------------
LEMMA OwnedWriters == ManagersIndInv => WritersOwnTheirTables
<1> SUFFICES ASSUME ManagersIndInv, NEW m \in Owning, NEW t \in Writing(m)
             PROVE  /\ t \in downed[m]
                    /\ \A o \in Owning \ {m} : t \notin downed[o] \cup Writing(o)
    BY DEF WritersOwnTheirTables
<1>1. \A o \in Owning : Writing(o) \subseteq downed[o]
    BY ManagerNames DEF ManagersIndInv, Registered, Writing, Gone
<1>2. \A o \in Owning : o # m => downed[m] \cap downed[o] = {}
    BY DEF ManagersIndInv, OneOwner
<1> QED BY <1>1, <1>2

\* WritersOwnTheirTables holds of every set of configurations, in every order of
\* reconfigures, exits, failures and the shutdown, unless a launch fails after it
\* started a tailer (the managers' apply and Stop, TableOwners.Claim and Set).
THEOREM WritersDoOwnTheirTables ==
    ASSUME "tailer" \notin LaunchFaults
    PROVE  ManagersInit /\ [][ManagersNext]_managervars => []WritersOwnTheirTables
<1>1. ManagersIndInv /\ UNCHANGED managervars => ManagersIndInv'
    BY DEF ManagersIndInv, ManagersTypeOK, Registered, Gone, OneOwner, ClaimHeld, At, managervars
<1>2. ManagersIndInv /\ [ManagersNext]_managervars => ManagersIndInv'
    <2> SUFFICES ASSUME ManagersIndInv, ManagersNext PROVE ManagersIndInv'
        BY <1>1
    <2>1. ASSUME NEW m \in Manager, ApplyEnter(m) \/ ApplyFinish(m)
          PROVE  ManagersIndInv'
        BY <2>1, ApplyEnterKeeps, ApplyFinishKeeps
    <2>2. ASSUME NEW m \in Owning, StopManager(m)
          PROVE  ManagersIndInv'
        BY <2>2, StopManagerKeeps
    <2>3. ASSUME NEW m \in Manager,
                 \/ WritersReturn(m) \/ WritersEnd(m) \/ ChildStart(m) \/ ChildExit(m) \/ MarkExit(m)
          PROVE  ManagersIndInv'
        BY <2>3, WritersKeep
    <2>4. ASSUME \/ \E cfg \in Configs : Reconfigure(cfg)
                 \/ ApplyDone \/ Forget \/ ExitTableReadOnly \/ DaemonStop \/ CloseStore
          PROVE  ManagersIndInv'
        BY <2>4, ReconfigureKeeps, ApplyDoneKeeps, ForgetKeeps, ExitTableReadOnlyKeeps, DaemonStopKeeps,
           CloseStoreKeeps
    <2> QED
        BY <2>1, <2>2, <2>3, <2>4, ManagerNames
           DEF ManagersNext, ScheddSyncApply, MirrorOutApply, ExporterApply, CedarSyncApply,
               FederationApply, ImporterApply, ScheddSyncStop, CedarSyncStop, FederationStop,
               ExporterSupervise, ImporterSupervise, Owning
<1> QED BY <1>2, ManagersInitOK, OwnedWriters, PTL
-----------------------------------------------------------------------------
(***************************************************************************)
(* Hub.  RowsVouchedFor needs what the runner may do while a source is     *)
(* retired (nothing: it is stopped first, and its status is gone) and how  *)
(* far the retirement has come; RetiredOnlyWhenGone needs that the hub's   *)
(* own record of contacts is not behind what was really heard.             *)
(***************************************************************************)
SpokeAddr == Addr \cup {NoAddr}
StateWord == {"retiring", "absent", "untrusted", "stale", "fresh"}
StableFields ==
    [state : StateWord, addr : SpokeAddr, static : BOOLEAN, retiring : Nat, synced : BOOLEAN,
     connected : BOOLEAN]
SourceState ==
    [known : BOOLEAN, static : BOOLEAN, dropped : BOOLEAN, inSet : BOOLEAN,
     addr : SpokeAddr, unverified : BOOLEAN, untrusted : BOOLEAN, declined : BOOLEAN,
     collector : Nat, contact : Nat, retiring : Nat, runner : SpokeAddr,
     stable : SUBSET StableFields, wrote : Nat]
SourceRow ==
    [present : {TRUE}, state : StateWord, synced : BOOLEAN, addr : SpokeAddr, static : BOOLEAN,
     retiring : Nat, collector : Nat, contact : Nat]
HubRun ==
    [pc : {"down", "restore", "revalidate", "write", "run", "refresh", "retire"}, step : 0..4,
     start : Nat, done : BOOLEAN, static : SpokeAddr]
RunnerStatus == [connected : BOOLEAN, synced : BOOLEAN, news : BOOLEAN, tried : BOOLEAN]
HubHistory == [match : {"unknown", "yes", "no"}, contact : Nat]

HubTypeOK ==
    /\ hclock \in Nat \ {0} /\ hub \in HubRun /\ src \in SourceState
    /\ hrow \in SourceRow \/ hrow = NoSourceRow
    /\ hcursor \in BOOLEAN /\ hdata \in {"none", "partial", "full"}
    /\ hstat \in RunnerStatus /\ hseen \in HubHistory

Vouches(row) == row.present /\ (row.synced \/ row.state = "fresh")

VouchedInv ==
    /\ RowsVouchedFor
    /\ hstat.synced => hdata = "full"
    /\ hstat.connected \/ hstat.synced => src.runner # NoAddr

RetireInv ==
    hub.pc = "retire" =>
        /\ src.runner = NoAddr /\ hstat = NoStatus /\ hub.step \in 1..4
        /\ hub.step >= 2 => ~hcursor
        /\ hub.step >= 3 => ~hrow.present

HeardInv ==
    /\ hub.done => hseen.match # "unknown"
    /\ hseen.match = "yes" /\ src.known => src.inSet /\ src.retiring = 0
    /\ hseen.contact <= hclock /\ src.contact <= hclock /\ src.collector <= hclock
    /\ hrow.present => hrow.contact <= hclock /\ hrow.collector <= hclock
    /\ src.known /\ src.retiring = 0 =>
         hstat.news \/ hseen.contact <= LastSeen(src) \/ hseen.contact <= hub.start

HubIndInv == HubTypeOK /\ VouchedInv /\ RetireInv /\ HeardInv

-----------------------------------------------------------------------------
\* The helpers keep the record of the source and say where its runner is.
LEMMA StartedOK ==
    ASSUME NEW s \in SourceState
    PROVE  /\ Started(s) \in SourceState
           /\ s.runner # NoAddr => Started(s).runner # NoAddr
           /\ Started(s).known = s.known /\ Started(s).inSet = s.inSet
           /\ Started(s).retiring = s.retiring
           /\ Started(s).collector = s.collector /\ Started(s).contact = s.contact
BY DEF Started, SourceState

LEMMA StoppedOK ==
    ASSUME NEW s \in SourceState
    PROVE  /\ Stopped(s) \in SourceState /\ Stopped(s).runner = NoAddr
           /\ Stopped(s).known = s.known /\ Stopped(s).inSet = s.inSet
           /\ Stopped(s).retiring = s.retiring
           /\ Stopped(s).collector = s.collector /\ Stopped(s).contact = s.contact
BY DEF Stopped, SourceState, SpokeAddr

LEMMA NoSourceOK ==
    NoSource \in SourceState /\ ~NoSource.known /\ NoSource.runner = NoAddr
BY DEF NoSource, SourceState, SpokeAddr

LEMMA NoStatusOK ==
    NoStatus \in RunnerStatus /\ ~NoStatus.connected /\ ~NoStatus.synced /\ ~NoStatus.news
BY DEF NoStatus, RunnerStatus

LEMMA StateOfOK ==
    ASSUME HubTypeOK, NEW s \in SourceState, NEW stale
    PROVE  /\ StateOf(s, stale) \in StateWord
           /\ StateOf(s, stale) = "fresh" => hstat.synced
BY DEF StateOf, StateWord

LEMMA RowOfOK ==
    ASSUME HubTypeOK, NEW s \in SourceState, NEW stale
    PROVE  /\ RowOf(s, stale) \in SourceRow
           /\ Vouches(RowOf(s, stale)) => hstat.synced
           /\ RowOf(s, stale).collector = s.collector /\ RowOf(s, stale).contact = s.contact
<1>1. /\ StateOf(s, stale) \in StateWord /\ (StateOf(s, stale) = "fresh" => hstat.synced)
    BY StateOfOK
<1> QED BY <1>1 DEF RowOf, SourceRow, SourceState, HubTypeOK, RunnerStatus, Vouches

LEMMA StableOK ==
    ASSUME HubTypeOK, NEW s \in SourceState, NEW stale
    PROVE  Stable(s, stale) \in StableFields
<1>1. StateOf(s, stale) \in StateWord
    BY StateOfOK
<1> QED BY <1>1 DEF Stable, StableFields, SourceState, HubTypeOK, RunnerStatus

\* What a discovery pass can say.
DiscoverySnapshot ==
    [matchKnown : BOOLEAN, matched : BOOLEAN, present : BOOLEAN, presentKnown : BOOLEAN,
     spoke : SpokeAddr, static : BOOLEAN, untrusted : BOOLEAN, declined : BOOLEAN]

LEMMA PairedSpokeOK ==
    ASSUME NEW claims \in SUBSET [addr : Addr, valid : BOOLEAN, live : BOOLEAN]
    PROVE  PairedSpoke(claims) \in SpokeAddr
<1>1. PairCandidates(claims) \subseteq claims
    BY DEF PairCandidates
<1>2. CASE Cardinality(PairCandidates(claims)) = 1
    <2>1. PairCandidates(claims) # {}
        BY <1>2, FS_EmptySet
    <2>2. (CHOOSE c \in PairCandidates(claims) : TRUE) \in claims
        BY <1>1, <2>1
    <2> QED BY <1>2, <2>2 DEF PairedSpoke, SpokeAddr
<1>3. CASE Cardinality(PairCandidates(claims)) # 1
    BY <1>3 DEF PairedSpoke, SpokeAddr
<1> QED BY <1>2, <1>3

LEMMA SnapshotsOK ==
    ASSUME NEW a \in SpokeAddr, NEW snap \in Snapshots[a]
    PROVE  /\ snap \in DiscoverySnapshot
           /\ snap.static => snap.matched
           /\ snap.matched => snap.static \/ snap.matchKnown
<1>1. PICK q \in [1..5 -> BOOLEAN], c \in Claims :
        snap = Discover(a, q[1], q[2], q[3], q[4], q[5], c)
    BY DEF Snapshots, SpokeAddr
<1> DEFINE cs == IF q[2] /\ q[3] /\ q[5] THEN c ELSE {}
           st == a # NoAddr
<1>2. cs \in SUBSET [addr : Addr, valid : BOOLEAN, live : BOOLEAN]
    BY DEF Claims
<1>3. PairedSpoke(cs) \in SpokeAddr
    BY <1>2, PairedSpokeOK
<1>4. /\ q[1] \in BOOLEAN /\ q[2] \in BOOLEAN /\ q[4] \in BOOLEAN /\ q[5] \in BOOLEAN
      /\ st \in BOOLEAN /\ Untrusted(cs) \in BOOLEAN /\ Declined(cs) \in BOOLEAN
    BY DEF Untrusted, Declined
<1>5. snap = [matchKnown |-> q[2], matched |-> st \/ (q[2] /\ q[5]),
              present |-> st \/ (q[1] /\ q[4]) \/ (q[2] /\ q[5]), presentKnown |-> q[1],
              spoke |-> IF st THEN a ELSE PairedSpoke(cs), static |-> st,
              untrusted |-> ~st /\ Untrusted(cs), declined |-> ~st /\ Declined(cs)]
    BY <1>1 DEF Discover
<1>6. (IF st THEN a ELSE PairedSpoke(cs)) \in SpokeAddr
    BY <1>3
<1> HIDE DEF cs, st
<1>7. snap \in DiscoverySnapshot
    BY <1>4, <1>5, <1>6 DEF DiscoverySnapshot
<1> QED BY <1>4, <1>5, <1>7

-----------------------------------------------------------------------------
LEMMA LastSeenOK ==
    ASSUME NEW s \in SourceState
    PROVE  LastSeen(s) \in Nat /\ s.contact <= LastSeen(s) /\ s.collector <= LastSeen(s)
           /\ LastSeen(s) \in {s.contact, s.collector}
BY DEF LastSeen, SourceState

LEMMA HubInitOK == HubInit => HubIndInv
<1> SUFFICES ASSUME HubInit PROVE HubIndInv
    OBVIOUS
<1>1. /\ hub \in HubRun /\ hub.pc = "down" /\ ~hub.done
      /\ hseen \in HubHistory /\ hseen.contact = 0 /\ hseen.match = "unknown"
    BY DEF HubInit, HubRun, SpokeAddr, NothingSeen, HubHistory
<1>2. HubTypeOK
    <2>1. hclock \in Nat \ {0} /\ hdata \in {"none", "partial", "full"}
        BY DEF HubInit
    <2>2. hcursor \in BOOLEAN
        BY DEF HubInit
    <2>3. src \in SourceState /\ hstat \in RunnerStatus /\ hrow = NoSourceRow
        BY NoSourceOK, NoStatusOK DEF HubInit
    <2> QED BY <1>1, <2>1, <2>2, <2>3 DEF HubTypeOK
<1>3. ~hrow.present
    BY DEF HubInit, NoSourceRow
<1>4. src.contact = 0 /\ src.collector = 0 /\ ~src.known
    BY NoSourceOK DEF HubInit, NoSource
<1> QED BY <1>1, <1>2, <1>3, <1>4, NoStatusOK
        DEF HubInit, HubIndInv, VouchedInv, RowsVouchedFor, RetireInv, HeardInv

\* The thread moves, outside a retirement; the source keeps what the invariant
\* speaks of.
LEMMA SourceFrame ==
    ASSUME HubIndInv, src' \in SourceState, hub' \in HubRun, hub'.pc # "retire",
           UNCHANGED <<hclock, hrow, hcursor, hdata, hstat, hseen>>,
           hub'.done = hub.done, hub'.start = hub.start,
           src.runner # NoAddr => src'.runner # NoAddr,
           src'.known = src.known, src'.inSet = src.inSet, src'.retiring = src.retiring,
           src'.collector = src.collector, src'.contact = src.contact
    PROVE  HubIndInv'
<1>1. HubTypeOK'
    BY DEF HubIndInv, HubTypeOK
<1>2. VouchedInv' /\ RetireInv'
    BY DEF HubIndInv, VouchedInv, RowsVouchedFor, RetireInv
<1>3. LastSeen(src') = LastSeen(src)
    BY DEF LastSeen
<1>4. HeardInv'
    BY <1>3 DEF HubIndInv, HeardInv
<1> QED BY <1>1, <1>2, <1>4 DEF HubIndInv

LEMMA HubPc ==
    ASSUME HubTypeOK, NEW pc \in {"down", "restore", "revalidate", "write", "run", "refresh", "retire"},
           NEW step \in 0..4, NEW h, h = [hub EXCEPT !.pc = pc] \/ h = [hub EXCEPT !.pc = pc, !.step = step]
    PROVE  /\ h \in HubRun /\ h.pc = pc /\ h.done = hub.done /\ h.start = hub.start /\ h.static = hub.static
           /\ h = [hub EXCEPT !.pc = pc, !.step = step] => h.step = step
BY DEF HubTypeOK, HubRun

LEMMA WriteSourceRowKeeps ==
    ASSUME HubIndInv, NEW next \in {"revalidate", "run"}, WriteSourceRow(next)
    PROVE  HubIndInv'
<1>1. /\ hub' \in HubRun /\ hub'.pc = next /\ hub'.done = hub.done /\ hub'.start = hub.start
      /\ UNCHANGED <<hclock, hcursor, hdata, hstat, hseen>> /\ src \in SourceState /\ HubTypeOK
    BY HubPc DEF WriteSourceRow, HubIndInv, HubTypeOK
<1>2. CASE UNCHANGED <<src, hrow>>
    BY <1>1, <1>2, SourceFrame DEF HubIndInv, HubTypeOK
<1>3. ASSUME NEW stale, hrow' = RowOf(src, stale),
             src' = [src EXCEPT !.stable = {Stable(src, stale)}, !.wrote = hclock]
      PROVE  HubIndInv'
    <2>1. /\ RowOf(src, stale) \in SourceRow /\ (Vouches(RowOf(src, stale)) => hstat.synced)
          /\ RowOf(src, stale).collector = src.collector /\ RowOf(src, stale).contact = src.contact
          /\ Stable(src, stale) \in StableFields
        BY <1>1, RowOfOK, StableOK
    <2>2. /\ src' \in SourceState /\ src'.runner = src.runner /\ src'.known = src.known
          /\ src'.inSet = src.inSet /\ src'.retiring = src.retiring
          /\ src'.collector = src.collector /\ src'.contact = src.contact
        <3> DEFINE st == Stable(src, stale)
        <3>1. src' = [src EXCEPT !.stable = {st}, !.wrote = hclock] /\ st \in StableFields
              /\ src \in SourceState /\ hclock \in Nat
            BY <1>1, <1>3, <2>1 DEF HubTypeOK
        <3> HIDE DEF st
        <3> QED BY <3>1 DEF SourceState
    <2>3. HubTypeOK'
        BY <1>1, <1>3, <2>1, <2>2 DEF HubTypeOK
    <2>4. VouchedInv' /\ RetireInv'
        BY <1>1, <1>3, <2>1, <2>2 DEF HubIndInv, VouchedInv, RowsVouchedFor, RetireInv, Vouches
    <2>5. LastSeen(src') = LastSeen(src)
        BY <2>2 DEF LastSeen
    <2>6. HeardInv'
        BY <1>1, <1>3, <2>1, <2>2, <2>5 DEF HubIndInv, HeardInv
    <2> QED BY <2>3, <2>4, <2>6 DEF HubIndInv
<1> QED BY <1>2, <1>3 DEF WriteSourceRow

LEMMA HubLoadKeeps ==
    ASSUME HubIndInv, HubLoad
    PROVE  HubIndInv'
<1>1. PICK a \in SpokeAddr :
        hub' = [pc |-> "restore", step |-> 0, start |-> hclock, done |-> FALSE, static |-> a]
    BY DEF HubLoad, SpokeAddr
<1>2. hub' \in HubRun /\ hub'.pc = "restore" /\ ~hub'.done /\ hub'.start = hclock
    BY <1>1 DEF HubRun, HubIndInv, HubTypeOK
<1>3. /\ UNCHANGED <<hclock, hrow, hcursor, hdata>> /\ hstat' = NoStatus /\ hseen' = NothingSeen
      /\ hclock \in Nat /\ hclock > 0
    BY DEF HubLoad, HubIndInv, HubTypeOK
<1>4. src' \in SourceState /\ src'.contact <= hclock /\ src'.collector <= hclock
    <2>1. CASE ~hrow.present
        BY <1>3, <2>1, NoSourceOK DEF HubLoad, NoSource
    <2>2. CASE hrow.present
        <3>1. hrow \in SourceRow /\ hrow.contact <= hclock /\ hrow.collector <= hclock
            BY <2>2 DEF HubIndInv, HubTypeOK, NoSourceRow, HeardInv
        <3>2. src' = [NoSource EXCEPT !.known = TRUE, !.addr = hrow.addr, !.static = hrow.static,
                        !.collector = hrow.collector, !.contact = hrow.contact, !.retiring = hrow.retiring]
            BY <2>2 DEF HubLoad
        <3> QED BY <3>1, <3>2, NoSourceOK DEF SourceRow, SourceState
    <2> QED BY <2>1, <2>2
<1>5. hseen' \in HubHistory /\ hseen'.contact = 0 /\ hseen'.match = "unknown"
    BY <1>3 DEF NothingSeen, HubHistory
<1>6. HubTypeOK'
    BY <1>2, <1>3, <1>4, <1>5, NoStatusOK DEF HubIndInv, HubTypeOK
<1>7. VouchedInv' /\ RetireInv'
    BY <1>2, <1>3, NoStatusOK DEF HubIndInv, VouchedInv, RowsVouchedFor, RetireInv
<1>8. HeardInv'
    BY <1>2, <1>3, <1>4, <1>5 DEF HubIndInv, HeardInv
<1> QED BY <1>6, <1>7, <1>8 DEF HubIndInv

LEMMA HubRevalidateKeeps ==
    ASSUME HubIndInv, HubRevalidate
    PROVE  HubIndInv'
<1>1. PICK hostOK \in BOOLEAN :
        LET checked == src.addr # NoAddr /\ src.retiring = 0
            s == [src EXCEPT !.unverified = checked /\ ~RestoredValid(hostOK)]
        IN  src' = IF src.retiring = 0 THEN Started(s) ELSE s
    BY DEF HubRevalidate
<1> DEFINE bad == src.addr # NoAddr /\ src.retiring = 0 /\ ~RestoredValid(hostOK)
           s == [src EXCEPT !.unverified = bad]
<1>2. bad \in BOOLEAN /\ src \in SourceState /\ src' \in {Started(s), s}
    <2>1. [src EXCEPT !.unverified = (src.addr # NoAddr /\ src.retiring = 0) /\ ~RestoredValid(hostOK)] = s
        OBVIOUS
    <2> QED BY <1>1, <2>1 DEF HubIndInv, HubTypeOK
<1> HIDE DEF bad
<1>3. /\ s \in SourceState /\ s.runner = src.runner /\ s.known = src.known
      /\ s.inSet = src.inSet /\ s.retiring = src.retiring
      /\ s.collector = src.collector /\ s.contact = src.contact
    BY <1>2 DEF SourceState
<1> HIDE DEF s
<1>4. /\ src' \in SourceState /\ (src.runner # NoAddr => src'.runner # NoAddr)
      /\ src'.known = src.known /\ src'.inSet = src.inSet /\ src'.retiring = src.retiring
      /\ src'.collector = src.collector /\ src'.contact = src.contact
    BY <1>2, <1>3, StartedOK
<1>5. /\ hub' \in HubRun /\ hub'.pc = "write" /\ hub'.done = hub.done /\ hub'.start = hub.start
    BY HubPc DEF HubRevalidate, HubIndInv
<1> QED BY <1>4, <1>5, SourceFrame DEF HubRevalidate

-----------------------------------------------------------------------------
LEMMA AdmitOK ==
    ASSUME HubTypeOK, NEW s \in SourceState, NEW snap \in DiscoverySnapshot
    PROVE  /\ Admit(s, snap) \in SourceState /\ Admit(s, snap).known /\ Admit(s, snap).inSet
           /\ Admit(s, snap).retiring = 0 /\ Admit(s, snap).collector = hclock
           /\ Admit(s, snap).contact = s.contact
<1> DEFINE new == snap.spoke # NoAddr
           addr == IF new THEN snap.spoke ELSE s.addr
           runner == IF new /\ snap.spoke # s.addr THEN NoAddr ELSE s.runner
           bad == s.unverified /\ ~new
           t == [s EXCEPT !.known = TRUE, !.inSet = TRUE, !.dropped = FALSE,
                          !.collector = hclock, !.retiring = 0,
                          !.untrusted = snap.untrusted, !.declined = snap.declined,
                          !.unverified = bad, !.addr = addr, !.runner = runner]
<1>1. Admit(s, snap) = Started(t)
    BY DEF Admit
<1>2. /\ addr \in SpokeAddr /\ runner \in SpokeAddr /\ bad \in BOOLEAN /\ hclock \in Nat
      /\ snap.untrusted \in BOOLEAN /\ snap.declined \in BOOLEAN
    BY DEF HubTypeOK, DiscoverySnapshot, SourceState, SpokeAddr
<1> HIDE DEF addr, runner, bad
<1>3. /\ t \in SourceState /\ t.known /\ t.inSet /\ t.retiring = 0 /\ t.collector = hclock
      /\ t.contact = s.contact
    BY <1>2, ZenonT(30) DEF SourceState
<1> HIDE DEF t
<1> QED BY <1>1, <1>3, StartedOK

LEMMA UnmatchedOK ==
    ASSUME HubTypeOK, NEW s \in SourceState, NEW snap \in DiscoverySnapshot
    PROVE  /\ Unmatched(s, snap) \in SourceState /\ Unmatched(s, snap).known = s.known
           /\ Unmatched(s, snap).collector = s.collector /\ Unmatched(s, snap).contact = s.contact
           /\ \/ Unmatched(s, snap).retiring > 0
              \/ Unmatched(s, snap).retiring = s.retiring /\ Unmatched(s, snap).runner = s.runner
<1> DEFINE t == [s EXCEPT !.inSet = FALSE]
           u == [t EXCEPT !.retiring = hclock]
<1>1. /\ t \in SourceState /\ t.known = s.known /\ t.collector = s.collector /\ t.contact = s.contact
      /\ t.retiring = s.retiring /\ t.runner = s.runner
    BY DEF SourceState
<1>2. Unmatched(s, snap) \in {Stopped(u), t}
    BY DEF Unmatched
<1>3. hclock \in Nat /\ hclock > 0
    BY DEF HubTypeOK
<1> HIDE DEF t
<1>4. /\ u \in SourceState /\ u.known = s.known /\ u.collector = s.collector /\ u.contact = s.contact
      /\ u.retiring = hclock
    BY <1>1, <1>3 DEF SourceState
<1> HIDE DEF u
<1> QED BY <1>1, <1>2, <1>3, <1>4, StoppedOK

LEMMA HubDiscoverKeeps ==
    ASSUME HubIndInv, HubDiscover
    PROVE  HubIndInv'
<1>1. /\ UNCHANGED <<hclock, hrow, hcursor, hdata>> /\ hub.pc = "run"
      /\ HubTypeOK /\ src \in SourceState /\ hub.static \in SpokeAddr
    BY DEF HubDiscover, HubIndInv, HubTypeOK, HubRun
<1>2. CASE UNCHANGED <<src, hub, hstat, hseen>>
    BY <1>1, <1>2, SourceFrame DEF HubIndInv, HubTypeOK
<1>3. CASE ~UNCHANGED <<src, hub, hstat, hseen>>
    <2> DEFINE s0(snap) == [src EXCEPT !.dropped = @ \/ (src.static /\ ~snap.static), !.static = snap.static]
               s1(snap) == IF snap.static \/ (snap.matchKnown /\ snap.matched) THEN Admit(s0(snap), snap)
                           ELSE IF snap.matchKnown /\ s0(snap).known THEN Unmatched(s0(snap), snap)
                           ELSE s0(snap)
    <2>1. PICK snap \in Snapshots[hub.static] :
            /\ snap.matchKnown \/ snap.static
            /\ src' = s1(snap) /\ hstat' = StatusOf(s1(snap))
            /\ hub' = [hub EXCEPT !.pc = "refresh", !.done = @ \/ snap.matchKnown]
            /\ hseen' = [hseen EXCEPT
                  !.match = IF snap.matched THEN "yes" ELSE IF snap.matchKnown THEN "no" ELSE @,
                  !.contact = IF snap.matched THEN hclock ELSE @]
        BY <1>3, ZenonT(30) DEF HubDiscover
    <2>2. /\ snap \in DiscoverySnapshot /\ (snap.static => snap.matched)
          /\ (snap.matched => snap.static \/ snap.matchKnown)
        BY <1>1, SnapshotsOK
    <2>3. /\ s0(snap) \in SourceState /\ s0(snap).known = src.known /\ s0(snap).runner = src.runner
          /\ s0(snap).retiring = src.retiring
          /\ s0(snap).collector = src.collector /\ s0(snap).contact = src.contact
        <3> DEFINE d == src.dropped \/ (src.static /\ ~snap.static)
        <3>1. d \in BOOLEAN /\ snap.static \in BOOLEAN /\ s0(snap) = [src EXCEPT !.dropped = d, !.static = snap.static]
            BY <1>1, <2>2 DEF SourceState, DiscoverySnapshot
        <3> HIDE DEF d, s0
        <3> QED BY <1>1, <3>1 DEF SourceState
    <2> HIDE DEF s0
    <2>4. CASE snap.matched
        <3>1. src' = Admit(s0(snap), snap)
            BY <2>1, <2>2, <2>4
        <3>2. /\ src' \in SourceState /\ src'.known /\ src'.inSet /\ src'.retiring = 0
              /\ src'.collector = hclock /\ src'.contact = src.contact
            BY <1>1, <2>2, <2>3, <3>1, AdmitOK
        <3>3. hseen' \in HubHistory /\ hseen'.match = "yes" /\ hseen'.contact = hclock
            BY <1>1, <2>1, <2>4 DEF HubTypeOK, HubHistory
        <3>4. hub' \in HubRun /\ hub'.pc = "refresh"
            BY <1>1, <2>1, <2>2 DEF HubTypeOK, HubRun, DiscoverySnapshot
        <3>5. hstat' = (IF src'.runner = src.runner THEN hstat ELSE NoStatus)
            BY <2>1 DEF StatusOf
        <3>6. hstat' \in RunnerStatus /\ (hstat'.synced => hstat.synced)
              /\ (hstat'.connected \/ hstat'.synced => src'.runner # NoAddr)
            BY <1>1, <3>5, NoStatusOK DEF HubTypeOK, HubIndInv, VouchedInv
        <3>7. HubTypeOK'
            BY <1>1, <3>2, <3>3, <3>4, <3>6 DEF HubTypeOK
        <3>8. VouchedInv' /\ RetireInv'
            BY <1>1, <3>4, <3>6 DEF HubIndInv, VouchedInv, RowsVouchedFor, RetireInv
        <3>9. hclock \in Nat /\ LastSeen(src') >= hclock
            BY <1>1, <3>2, LastSeenOK DEF HubTypeOK
        <3>10. HeardInv'
            BY <1>1, <3>2, <3>3, <3>9 DEF HubIndInv, HeardInv
        <3> QED BY <3>7, <3>8, <3>10 DEF HubIndInv
    <2>5. CASE ~snap.matched
        <3>1. /\ snap.matchKnown /\ ~snap.static
              /\ src' = IF src.known THEN Unmatched(s0(snap), snap) ELSE s0(snap)
            BY <2>1, <2>2, <2>3, <2>5
        <3>2. /\ src' \in SourceState /\ src'.known = src.known
              /\ src'.collector = src.collector /\ src'.contact = src.contact
              /\ src'.retiring > 0 \/ (src'.retiring = src.retiring /\ src'.runner = src.runner)
            BY <1>1, <2>2, <2>3, <3>1, UnmatchedOK
        <3>3. hseen' \in HubHistory /\ hseen'.match = "no" /\ hseen'.contact = hseen.contact
            BY <1>1, <2>1, <2>5, <3>1 DEF HubTypeOK, HubHistory
        <3>4. hub' \in HubRun /\ hub'.pc = "refresh" /\ hub'.start = hub.start
            BY <1>1, <2>1, <2>2 DEF HubTypeOK, HubRun, DiscoverySnapshot
        <3>5. hstat' = (IF src'.runner = src.runner THEN hstat ELSE NoStatus)
            BY <2>1 DEF StatusOf
        <3>6. hstat' \in RunnerStatus /\ (hstat'.synced => hstat.synced)
              /\ (hstat'.connected \/ hstat'.synced => src'.runner # NoAddr)
            BY <1>1, <3>5, NoStatusOK DEF HubTypeOK, HubIndInv, VouchedInv
        <3>7. HubTypeOK'
            BY <1>1, <3>2, <3>3, <3>4, <3>6 DEF HubTypeOK
        <3>8. VouchedInv' /\ RetireInv'
            BY <1>1, <3>4, <3>6 DEF HubIndInv, VouchedInv, RowsVouchedFor, RetireInv
        <3>9. LastSeen(src') = LastSeen(src)
            BY <3>2 DEF LastSeen
        <3>10. src'.retiring = 0 => hstat' = hstat /\ src.retiring = 0
            BY <3>2, <3>5 DEF SourceState
        <3>11. HeardInv'
            BY <1>1, <3>2, <3>3, <3>4, <3>9, <3>10 DEF HubIndInv, HeardInv
        <3> QED BY <3>7, <3>8, <3>11 DEF HubIndInv
    <2> QED BY <2>4, <2>5
<1> QED BY <1>2, <1>3

\* refreshState notes the contact before it looks at who is due.
LEMMA HubRefreshKeeps ==
    ASSUME HubIndInv, HubRefresh
    PROVE  HubIndInv'
<1> DEFINE c == IF src.known /\ RunnerReached THEN hclock ELSE src.contact
           s == [src EXCEPT !.contact = c]
<1>1. /\ UNCHANGED <<hclock, hrow, hcursor, hdata, hseen>> /\ HubTypeOK /\ src \in SourceState
      /\ hclock \in Nat /\ c \in Nat
      /\ src' = (IF Due(s) THEN Stopped(s) ELSE s)
      /\ hstat' = IF Due(s) THEN NoStatus ELSE [hstat EXCEPT !.news = FALSE]
      /\ hub' = [hub EXCEPT !.pc = IF Due(s) THEN "retire" ELSE "write", !.step = IF Due(s) THEN 1 ELSE 0]
    BY DEF HubRefresh, HubIndInv, HubTypeOK, SourceState
<1>2. c <= hclock /\ src.contact <= c /\ (src.known /\ hstat.news => c = hclock)
    BY <1>1 DEF HubIndInv, HeardInv, RunnerReached, SourceState
<1> HIDE DEF c
<1>3. /\ s \in SourceState /\ s.known = src.known /\ s.inSet = src.inSet /\ s.retiring = src.retiring
      /\ s.collector = src.collector /\ s.contact = c /\ s.runner = src.runner
    BY <1>1 DEF SourceState
<1> HIDE DEF s
<1>4. /\ src' \in SourceState /\ src'.known = src.known /\ src'.inSet = src.inSet
      /\ src'.retiring = src.retiring /\ src'.collector = src.collector /\ src'.contact = c
      /\ src'.runner = IF Due(s) THEN NoAddr ELSE src.runner
    BY <1>1, <1>3, StoppedOK
<1>5. /\ hub' \in HubRun /\ hub'.done = hub.done /\ hub'.start = hub.start
      /\ hub'.pc = (IF Due(s) THEN "retire" ELSE "write") /\ hub'.step = (IF Due(s) THEN 1 ELSE 0)
    <2>1. CASE Due(s)
        BY <1>1, <2>1, HubPc
    <2>2. CASE ~Due(s)
        BY <1>1, <2>2, HubPc
    <2> QED BY <2>1, <2>2
<1>6. /\ hstat' \in RunnerStatus /\ (Due(s) => hstat' = NoStatus)
      /\ (~Due(s) => hstat'.connected = hstat.connected /\ hstat'.synced = hstat.synced)
    <2>1. CASE Due(s)
        BY <1>1, <2>1, NoStatusOK
    <2>2. CASE ~Due(s)
        BY <1>1, <2>2 DEF HubTypeOK, RunnerStatus
    <2> QED BY <2>1, <2>2
<1>7. HubTypeOK'
    BY <1>1, <1>4, <1>5, <1>6 DEF HubTypeOK
<1>8. VouchedInv'
    BY <1>1, <1>4, <1>6, NoStatusOK DEF HubIndInv, VouchedInv, RowsVouchedFor
<1>9. RetireInv'
    BY <1>4, <1>5, <1>6 DEF RetireInv
<1>10. /\ LastSeen(src') \in Nat /\ c <= LastSeen(src') /\ LastSeen(src) <= LastSeen(src')
       /\ LastSeen(src) \in Nat
    BY <1>1, <1>2, <1>4, LastSeenOK DEF LastSeen, SourceState
<1>11. HeardInv'
    <2>1. src.known /\ src.retiring = 0 =>
            hseen.contact <= LastSeen(src') \/ hseen.contact <= hub.start
        BY <1>1, <1>2, <1>10 DEF HubIndInv, HeardInv, HubTypeOK, HubHistory
    <2> QED BY <1>1, <1>2, <1>4, <1>5, <2>1 DEF HubIndInv, HeardInv
<1> QED BY <1>7, <1>8, <1>9, <1>11 DEF HubIndInv

LEMMA HubRetireRequestKeeps ==
    ASSUME HubIndInv, HubRetireRequest
    PROVE  HubIndInv'
<1>1. /\ UNCHANGED <<hclock, hrow, hcursor, hdata>> /\ HubTypeOK /\ src \in SourceState
      /\ src' = Stopped(src) /\ hstat' = NoStatus /\ hub' = [hub EXCEPT !.pc = "retire", !.step = 1]
      /\ hseen' = [hseen EXCEPT !.contact = LastSeen(src)]
    BY DEF HubRetireRequest, HubIndInv, HubTypeOK
<1>2. /\ src' \in SourceState /\ src'.known = src.known /\ src'.inSet = src.inSet
      /\ src'.retiring = src.retiring /\ src'.collector = src.collector /\ src'.contact = src.contact
      /\ src'.runner = NoAddr
    BY <1>1, StoppedOK
<1>3. LastSeen(src) \in Nat /\ LastSeen(src) \in {src.contact, src.collector}
    BY <1>1, LastSeenOK
<1>4. hseen' \in HubHistory /\ hseen'.match = hseen.match /\ hseen'.contact = LastSeen(src)
    BY <1>1, <1>3 DEF HubTypeOK, HubHistory
<1>5. hub' \in HubRun /\ hub'.pc = "retire" /\ hub'.step = 1 /\ hub'.done = hub.done
    BY <1>1, HubPc
<1>6. HubTypeOK'
    BY <1>1, <1>2, <1>4, <1>5, NoStatusOK DEF HubTypeOK
<1>7. VouchedInv' /\ RetireInv'
    BY <1>1, <1>2, <1>5, NoStatusOK DEF HubIndInv, VouchedInv, RowsVouchedFor, RetireInv
<1>8. LastSeen(src') = LastSeen(src)
    BY <1>2 DEF LastSeen
<1>9. HeardInv'
    BY <1>1, <1>2, <1>3, <1>4, <1>5, <1>8 DEF HubIndInv, HeardInv
<1> QED BY <1>6, <1>7, <1>9 DEF HubIndInv

LEMMA HubRetireStepKeeps ==
    ASSUME HubIndInv, HubRetireStep
    PROVE  HubIndInv'
<1> DEFINE op == RetireOrder[hub.step]
<1>1. /\ UNCHANGED <<hclock, hstat, hseen>> /\ HubTypeOK /\ src \in SourceState
      /\ src.runner = NoAddr /\ hstat = NoStatus /\ hub.step \in 1..3
      /\ (hub.step >= 2 => ~hcursor) /\ (hub.step >= 3 => ~hrow.present)
    BY DEF HubRetireStep, HubIndInv, HubTypeOK, RetireInv, RetireOrder
<1>2. /\ hub.step = 1 => op = "cursors"
      /\ hub.step = 2 => op = "row"
      /\ hub.step = 3 => op = "data"
    BY DEF RetireOrder
<1> HIDE DEF op
<1>3. CASE /\ hub' = [hub EXCEPT !.step = @ + 1]
           /\ hcursor' = (hcursor /\ op # "cursors")
           /\ hrow' = IF op = "row" THEN NoSourceRow ELSE hrow
           /\ src' = IF op = "row" THEN [src EXCEPT !.stable = {}] ELSE src
           /\ hdata' = IF op = "data" THEN "none" ELSE hdata
    <2>1. hub' \in HubRun /\ hub'.pc = hub.pc /\ hub'.step = hub.step + 1 /\ hub'.done = hub.done
          /\ hub'.start = hub.start
        BY <1>1, <1>3 DEF HubTypeOK, HubRun
    <2>2. /\ src' \in SourceState /\ src'.runner = src.runner /\ src'.known = src.known
          /\ src'.inSet = src.inSet /\ src'.retiring = src.retiring
          /\ src'.collector = src.collector /\ src'.contact = src.contact
        BY <1>1, <1>3 DEF SourceState
    <2>3. hcursor' \in BOOLEAN /\ (hcursor' => hcursor) /\ (hub.step = 1 => ~hcursor')
        BY <1>1, <1>2, <1>3 DEF HubTypeOK
    <2>4. /\ hrow' \in SourceRow \/ hrow' = NoSourceRow
          /\ hrow' = hrow \/ ~hrow'.present
        BY <1>1, <1>2, <1>3 DEF HubTypeOK, NoSourceRow
    <2>5. hdata' \in {"none", "partial", "full"} /\ (hub.step # 3 => hdata' = hdata)
        BY <1>1, <1>2, <1>3 DEF HubTypeOK
    <2>6. HubTypeOK'
        BY <1>1, <2>1, <2>2, <2>3, <2>4, <2>5 DEF HubTypeOK
    <2>7. hub.step = 2 => ~hrow'.present
        BY <1>2, <1>3 DEF NoSourceRow
    <2>8. RetireInv'
        BY <1>1, <2>1, <2>2, <2>3, <2>4, <2>7 DEF RetireInv
    <2>9. VouchedInv'
        BY <1>1, <2>2, <2>3, <2>4, <2>5, NoStatusOK DEF HubIndInv, VouchedInv, RowsVouchedFor
    <2>10. LastSeen(src') = LastSeen(src)
        BY <2>2 DEF LastSeen
    <2>11. HeardInv'
        BY <1>1, <2>1, <2>2, <2>4, <2>10 DEF HubIndInv, HeardInv
    <2> QED BY <2>6, <2>8, <2>9, <2>11 DEF HubIndInv
<1>4. CASE /\ hub' = [hub EXCEPT !.pc = "write", !.step = 0]
           /\ hdata' \in IF op = "data" THEN {hdata, IF hdata = "none" THEN "none" ELSE "partial"}
                         ELSE {hdata}
           /\ hcursor' \in IF op = "cursors" THEN {hcursor, FALSE} ELSE {hcursor}
           /\ UNCHANGED <<hrow, src>>
    <2>1. hub' \in HubRun /\ hub'.pc = "write" /\ hub'.done = hub.done /\ hub'.start = hub.start
        BY <1>1, <1>4, HubPc
    <2>2. hcursor' \in BOOLEAN /\ (hcursor' => hcursor)
        BY <1>1, <1>4 DEF HubTypeOK
    <2>3. hdata' \in {"none", "partial", "full"} /\ (hub.step # 3 => hdata' = hdata)
        BY <1>1, <1>2, <1>4 DEF HubTypeOK
    <2>4. HubTypeOK' /\ RetireInv'
        BY <1>1, <1>4, <2>1, <2>2, <2>3 DEF HubTypeOK, RetireInv
    <2>5. VouchedInv'
        BY <1>1, <1>4, <2>2, <2>3, NoStatusOK DEF HubIndInv, VouchedInv, RowsVouchedFor
    <2>6. HeardInv'
        BY <1>1, <1>4, <2>1 DEF HubIndInv, HeardInv, LastSeen
    <2> QED BY <2>4, <2>5, <2>6 DEF HubIndInv
<1> QED BY <1>3, <1>4 DEF HubRetireStep, op

LEMMA HubForgetKeeps ==
    ASSUME HubIndInv, HubForget
    PROVE  HubIndInv'
<1>1. /\ UNCHANGED <<hclock, hrow, hcursor, hdata, hstat, hseen>> /\ HubTypeOK /\ src' = NoSource
      /\ hstat = NoStatus /\ hclock \in Nat
    BY DEF HubForget, HubIndInv, RetireInv, HubTypeOK
<1>2. hub' \in HubRun /\ hub'.pc = "write" /\ hub'.done = hub.done
    BY <1>1, HubPc DEF HubForget
<1>3. HubTypeOK' /\ VouchedInv' /\ RetireInv'
    BY <1>1, <1>2, NoSourceOK, NoStatusOK
       DEF HubIndInv, HubTypeOK, VouchedInv, RowsVouchedFor, RetireInv
<1>4. NoSource.contact = 0 /\ NoSource.collector = 0
    BY DEF NoSource
<1>5. HeardInv'
    BY <1>1, <1>2, <1>4, NoSourceOK DEF HubIndInv, HeardInv
<1> QED BY <1>3, <1>5 DEF HubIndInv

LEMMA HubCrashKeeps ==
    ASSUME HubIndInv, HubCrash
    PROVE  HubIndInv'
<1>1. /\ UNCHANGED <<hclock, hrow, hcursor, hdata>> /\ HubTypeOK /\ src' = NoSource
      /\ hstat' = NoStatus /\ hseen' = NothingSeen /\ hclock \in Nat
    BY DEF HubCrash, HubIndInv, HubTypeOK
<1>2. hub' \in HubRun /\ hub'.pc = "down" /\ ~hub'.done
    BY DEF HubCrash, HubRun, SpokeAddr
<1>3. hseen' \in HubHistory /\ hseen'.contact = 0 /\ hseen'.match = "unknown"
    BY <1>1 DEF NothingSeen, HubHistory
<1>4. HubTypeOK' /\ VouchedInv' /\ RetireInv'
    BY <1>1, <1>2, <1>3, NoSourceOK, NoStatusOK
       DEF HubIndInv, HubTypeOK, VouchedInv, RowsVouchedFor, RetireInv
<1>5. NoSource.contact = 0 /\ NoSource.collector = 0
    BY DEF NoSource
<1>6. HeardInv'
    BY <1>1, <1>2, <1>3, <1>5, NoSourceOK DEF HubIndInv, HeardInv
<1> QED BY <1>4, <1>6 DEF HubIndInv

\* The runner: the rows are complete before the cursor stands for them.
LEMMA RunnerKeeps ==
    ASSUME HubIndInv, RunnerReset \/ RunnerSynced \/ RunnerDrop
    PROVE  HubIndInv'
<1>1. /\ UNCHANGED <<hclock, hub, src, hrow, hseen>> /\ HubTypeOK /\ hstat.connected
      /\ src.runner # NoAddr /\ hub.pc # "retire"
    BY NoStatusOK DEF RunnerReset, RunnerSynced, RunnerDrop, HubIndInv, VouchedInv, RetireInv
<1>2. /\ hstat' \in RunnerStatus /\ (hstat.news => hstat'.news)
      /\ hcursor' \in BOOLEAN /\ hdata' \in {"none", "partial", "full"}
      /\ (hdata = "full" => hdata' = "full")
      /\ (hstat'.synced => hdata' = "full") /\ (hcursor' => hdata' = "full")
    <2>1. CASE RunnerReset
        BY <1>1, <2>1 DEF RunnerReset, HubTypeOK, RunnerStatus
    <2>2. CASE RunnerSynced
        BY <1>1, <2>2 DEF RunnerSynced, HubTypeOK, RunnerStatus, HubIndInv, VouchedInv, RowsVouchedFor
    <2>3. CASE RunnerDrop
        BY <1>1, <2>3 DEF RunnerDrop, HubTypeOK, RunnerStatus, HubIndInv, VouchedInv, RowsVouchedFor
    <2> QED BY <2>1, <2>2, <2>3
<1>3. HubTypeOK' /\ VouchedInv' /\ RetireInv'
    BY <1>1, <1>2 DEF HubIndInv, HubTypeOK, VouchedInv, RowsVouchedFor, RetireInv
<1>4. HeardInv'
    BY <1>1, <1>2 DEF HubIndInv, HeardInv, LastSeen
<1> QED BY <1>3, <1>4 DEF HubIndInv

LEMMA RunnerConnectKeeps ==
    ASSUME HubIndInv, RunnerConnect
    PROVE  HubIndInv'
<1>1. /\ UNCHANGED <<hclock, hub, src, hrow, hcursor, hdata>> /\ HubTypeOK
      /\ src.runner # NoAddr /\ hub.pc # "retire" /\ hclock \in Nat
    BY DEF RunnerConnect, HubIndInv, RetireInv, HubTypeOK
<1>2. CASE /\ hstat' = [connected |-> TRUE, synced |-> FALSE, news |-> TRUE, tried |-> TRUE]
           /\ hseen' = [hseen EXCEPT !.contact = hclock]
    <2>1. hstat' \in RunnerStatus /\ ~hstat'.synced /\ hstat'.news
        BY <1>2 DEF RunnerStatus
    <2>2. hseen' \in HubHistory /\ hseen'.contact = hclock /\ hseen'.match = hseen.match
        BY <1>1, <1>2 DEF HubTypeOK, HubHistory
    <2>3. HubTypeOK' /\ VouchedInv' /\ RetireInv' /\ HeardInv'
        BY <1>1, <2>1, <2>2 DEF HubIndInv, HubTypeOK, VouchedInv, RowsVouchedFor, RetireInv, HeardInv
    <2> QED BY <2>3 DEF HubIndInv
<1>3. CASE hstat' = [hstat EXCEPT !.tried = TRUE] /\ UNCHANGED hseen
    <2>1. hstat' \in RunnerStatus /\ hstat'.synced = hstat.synced /\ hstat'.news = hstat.news
        BY <1>1, <1>3 DEF HubTypeOK, RunnerStatus
    <2>2. HubTypeOK' /\ VouchedInv' /\ RetireInv'
        BY <1>1, <1>3, <2>1 DEF HubIndInv, HubTypeOK, VouchedInv, RowsVouchedFor, RetireInv
    <2>3. HeardInv'
        BY <1>1, <1>3, <2>1 DEF HubIndInv, HeardInv, LastSeen
    <2> QED BY <2>2, <2>3 DEF HubIndInv
<1> QED BY <1>2, <1>3 DEF RunnerConnect

LEMMA HubClockKeeps ==
    ASSUME HubIndInv, HubClock
    PROVE  HubIndInv'
<1>1. /\ UNCHANGED <<hub, src, hrow, hcursor, hdata, hstat, hseen>> /\ hclock' = hclock + 1
      /\ hclock \in Nat \ {0}
    BY DEF HubClock, HubIndInv, HubTypeOK
<1>2. /\ src.contact \in Nat /\ src.collector \in Nat /\ hseen.contact \in Nat
      /\ (hrow.present => hrow.contact \in Nat /\ hrow.collector \in Nat)
    <2>1. src \in SourceState /\ hseen \in HubHistory /\ (hrow \in SourceRow \/ hrow = NoSourceRow)
        BY DEF HubIndInv, HubTypeOK
    <2>2. src.contact \in Nat /\ src.collector \in Nat /\ hseen.contact \in Nat
        BY <2>1 DEF SourceState, HubHistory
    <2>3. hrow.present => hrow.contact \in Nat /\ hrow.collector \in Nat
        <3>1. CASE hrow \in SourceRow
            BY <3>1 DEF SourceRow
        <3>2. CASE hrow = NoSourceRow
            BY <3>2 DEF NoSourceRow
        <3> QED BY <2>1, <3>1, <3>2
    <2> QED BY <2>2, <2>3
<1>3. HubTypeOK' /\ VouchedInv' /\ RetireInv'
    BY <1>1 DEF HubIndInv, HubTypeOK, VouchedInv, RowsVouchedFor, RetireInv
<1>4. HeardInv'
    BY <1>1, <1>2 DEF HubIndInv, HeardInv, LastSeen
<1> QED BY <1>3, <1>4 DEF HubIndInv

-----------------------------------------------------------------------------
(***************************************************************************)
(* Theorems about Hub.                                                     *)
(***************************************************************************)
LEMMA HubStep == HubIndInv /\ [HubNext]_hubvars => HubIndInv'
<1>1. HubIndInv /\ UNCHANGED hubvars => HubIndInv'
    BY DEF HubIndInv, HubTypeOK, VouchedInv, RowsVouchedFor, RetireInv, HeardInv, LastSeen, hubvars
<1> SUFFICES ASSUME HubIndInv, HubNext PROVE HubIndInv'
    BY <1>1
<1>2. ASSUME HubRewrite \/ HubWrite PROVE HubIndInv'
    BY <1>2, WriteSourceRowKeeps DEF HubRewrite, HubWrite
<1>3. ASSUME HubLoad \/ HubRevalidate \/ HubDiscover \/ HubRefresh PROVE HubIndInv'
    BY <1>3, HubLoadKeeps, HubRevalidateKeeps, HubDiscoverKeeps, HubRefreshKeeps
<1>4. ASSUME HubRetireRequest \/ HubRetireStep \/ HubForget PROVE HubIndInv'
    BY <1>4, HubRetireRequestKeeps, HubRetireStepKeeps, HubForgetKeeps
<1>5. ASSUME \/ RunnerConnect \/ RunnerReset \/ RunnerSynced \/ RunnerDrop
             \/ HubCrash \/ HubClock
      PROVE  HubIndInv'
    BY <1>5, RunnerConnectKeeps, RunnerKeeps, HubCrashKeeps, HubClockKeeps
<1> QED BY <1>2, <1>3, <1>4, <1>5 DEF HubNext

\* RowsVouchedFor holds of any number of passes, crashes and failures: no cursor
\* and no federation_sources row stands for rows that a retirement removed
\* (hub.go, retire and writeSourceRow).
THEOREM RowsAreVouchedFor == HubSpec => []RowsVouchedFor
<1>1. HubIndInv => RowsVouchedFor
    BY DEF HubIndInv, VouchedInv
<1> QED BY <1>1, HubInitOK, HubStep, PTL DEF HubSpec

\* RetiredOnlyWhenGone holds for every RetireAfter: the hub's own retirement
\* follows a known answer of this run that left the schedd out, and a silence
\* of RetireAfter (refreshState, unseenFor, applyDiscovery).
THEOREM RetiresOnlyTheGone == HubSpec => RetiredOnlyWhenGone
<1> DEFINE GoneStep ==
        hub.pc \in {"run", "refresh"} /\ hub'.pc = "retire" /\ ~HubRetireRequest =>
            /\ hseen.match = "no"
            /\ src.retiring > 0 \/ hclock - hseen.contact >= RetireAfter
<1>1. ASSUME HubIndInv, HubNext, hub.pc \in {"run", "refresh"}, hub'.pc = "retire", ~HubRetireRequest
      PROVE  HubRefresh
    <2>1. HubTypeOK
        BY <1>1 DEF HubIndInv
    <2>2. ~HubLoad /\ ~HubRevalidate /\ ~HubRewrite /\ ~HubRetireStep /\ ~HubForget
        BY <1>1 DEF HubLoad, HubRevalidate, HubRewrite, HubRetireStep, HubForget
    <2>3. ~HubWrite
        BY <1>1 DEF HubWrite
    <2>4. ~HubDiscover
        <3>1. HubDiscover => hub' = hub \/ \E b \in BOOLEAN : hub' = [hub EXCEPT !.pc = "refresh", !.done = b]
            BY <2>1 DEF HubDiscover, HubTypeOK, HubRun
        <3> QED BY <1>1, <2>1, <3>1 DEF HubTypeOK, HubRun
    <2>5. ~HubCrash
        BY <1>1 DEF HubCrash
    <2>6. ~RunnerConnect /\ ~RunnerReset /\ ~RunnerSynced /\ ~RunnerDrop /\ ~HubClock
        BY <1>1 DEF RunnerConnect, RunnerReset, RunnerSynced, RunnerDrop, HubClock
    <2> QED BY <1>1, <2>2, <2>3, <2>4, <2>5, <2>6 DEF HubNext
<1>2. ASSUME HubIndInv, HubRefresh, hub'.pc = "retire"
      PROVE  /\ hseen.match = "no"
             /\ src.retiring > 0 \/ hclock - hseen.contact >= RetireAfter
    <2> DEFINE c == IF src.known /\ RunnerReached THEN hclock ELSE src.contact
               s == [src EXCEPT !.contact = c]
    <2>1. /\ HubTypeOK /\ src \in SourceState /\ hclock \in Nat /\ c \in Nat /\ hseen.contact \in Nat
          /\ hub.start \in Nat /\ hseen.match \in {"unknown", "yes", "no"} /\ hseen.contact <= hclock
        BY <1>2 DEF HubIndInv, HubTypeOK, SourceState, HubHistory, HubRun, HeardInv
    <2>2. Due(s)
        <3> SUFFICES ASSUME ~Due(s) PROVE FALSE
            OBVIOUS
        <3>1. hub' = [hub EXCEPT !.pc = "write", !.step = 0]
            BY <1>2 DEF HubRefresh
        <3>2. hub'.pc = "write"
            BY <2>1, <3>1, HubPc
        <3> QED BY <1>2, <3>2
    <2>3. /\ src.contact <= c /\ (src.known /\ hstat.news => c = hclock)
        BY <1>2, <2>1 DEF HubIndInv, HeardInv, RunnerReached, SourceState
    <2> HIDE DEF c
    <2>4. /\ s \in SourceState /\ s.known = src.known /\ s.inSet = src.inSet /\ s.retiring = src.retiring
          /\ s.collector = src.collector /\ s.contact = c /\ s.runner = src.runner
        BY <2>1 DEF SourceState
    <2> HIDE DEF s
    <2>5. hseen.match = "no"
        BY <1>2, <2>1, <2>2, <2>4 DEF Due, HubIndInv, HeardInv
    <2>6. CASE src.retiring = 0
        <3>1. src.known /\ UnseenFor(s) >= RetireAfter
            BY <2>2, <2>4, <2>6 DEF Due
        <3>2. /\ LastSeen(s) \in Nat /\ c <= LastSeen(s) /\ LastSeen(src) <= LastSeen(s)
              /\ LastSeen(src) \in Nat
            BY <2>1, <2>3, <2>4, LastSeenOK DEF LastSeen, SourceState
        <3>3. hseen.contact <= LastSeen(s) \/ hseen.contact <= hub.start
            BY <1>2, <2>1, <2>3, <2>6, <3>1, <3>2 DEF HubIndInv, HeardInv
        <3>4. UnseenFor(s) \in Int /\ UnseenFor(s) <= hclock - hseen.contact
            BY <2>1, <3>2, <3>3 DEF UnseenFor
        <3> QED BY <2>1, <2>5, <3>1, <3>4, HubAssumption
    <2>7. src.retiring \in Nat
        BY <2>1 DEF SourceState
    <2> QED BY <2>5, <2>6, <2>7
<1>3. HubIndInv /\ [HubNext]_hubvars => [GoneStep]_hubvars
    BY <1>1, <1>2 DEF hubvars
<1> QED BY <1>3, HubInitOK, HubStep, PTL DEF HubSpec, RetiredOnlyWhenGone
-----------------------------------------------------------------------------
(***************************************************************************)
(* Session.  What an open transaction holds: a consistent one only has a   *)
(* buffer, of the table it is bound to, and a local one only a transaction *)
(* of the server; what that holds of a key is a row that one of its        *)
(* statements wrote there, the last that succeeded or one that failed      *)
(* since.  An autocommitted statement leaves neither.                      *)
(***************************************************************************)
SessionRow == [SessionKeys -> Nat]
SessionTold == [SessionKeys -> SUBSET Nat]
SessionWrites == UNION {[keys -> Nat] : keys \in SUBSET SessionKeys}
SessionMine == UNION {[keys -> SUBSET Nat] : keys \in SUBSET SessionKeys}
SessionTx ==
    [active : BOOLEAN, table : SessionTables \cup {NoTable}, open : BOOLEAN, snap : SessionRow,
     writes : SessionWrites, buf : SessionWrites]

SessionTypeOK ==
    /\ smode \in {"local", "consistent"} /\ scount \in Nat
    /\ stables \in [SessionTables -> SessionRow] /\ stx \in SessionTx
    /\ smine \in [SessionTables -> SessionMine]
    /\ sack \in [SessionTables -> SessionTold]

\* The operations of a consistent session carry no table: its buffer is of
\* the table that the FSM applies them to.
BufferInv == DOMAIN stx.buf # {} => smode = "consistent" /\ stx.table = DefaultTable

Mine(mine, writes) ==
    DOMAIN mine \subseteq DOMAIN writes /\ \A k \in DOMAIN mine : writes[k] \in mine[k]
Pending == IF smode = "local" THEN stx.writes ELSE stx.buf

TransactionInv ==
    /\ \A t \in SessionTables :
          DOMAIN smine[t] # {} => t = stx.table /\ Mine(smine[t], Pending)
    /\ stx.open => stx.active /\ smode = "local" /\ stx.table \in SessionTables
    /\ ~stx.open => DOMAIN stx.writes = {}
    /\ DOMAIN stx.buf # {} => stx.table \in SessionTables /\ smode = "consistent"

SessionIndInv == SessionTypeOK /\ TransactionInv

LEMMA WritesType ==
    ASSUME NEW keys \in SUBSET SessionKeys, NEW w \in [keys -> Nat]
    PROVE  w \in SessionWrites /\ DOMAIN w = keys
BY DEF SessionWrites

LEMMA MineType ==
    ASSUME NEW keys \in SUBSET SessionKeys, NEW m \in [keys -> SUBSET Nat]
    PROVE  m \in SessionMine /\ DOMAIN m = keys
BY DEF SessionMine

LEMMA NoWritesType ==
    NoWrites \in SessionWrites /\ NoWrites \in SessionMine /\ DOMAIN NoWrites = {}
<1>1. DOMAIN NoWrites = {} /\ NoWrites \in [{} -> Nat] /\ NoWrites \in [{} -> SUBSET Nat]
    BY DEF NoWrites
<1> QED BY <1>1, WritesType, MineType

LEMMA SessionWritesType ==
    ASSUME NEW w \in SessionWrites
    PROVE  DOMAIN w \subseteq SessionKeys /\ w \in [DOMAIN w -> Nat]
BY DEF SessionWrites

LEMMA SessionMineType ==
    ASSUME NEW m \in SessionMine
    PROVE  DOMAIN m \subseteq SessionKeys /\ m \in [DOMAIN m -> SUBSET Nat]
BY DEF SessionMine

LEMMA OverType ==
    ASSUME NEW row \in SessionRow, NEW w \in SessionWrites
    PROVE  /\ Over(row, w) \in SessionRow
           /\ \A k \in SessionKeys : Over(row, w)[k] = IF k \in DOMAIN w THEN w[k] ELSE row[k]
BY SessionWritesType DEF Over, SessionRow

LEMMA AndType ==
    ASSUME NEW old \in SessionWrites, NEW new \in SessionWrites
    PROVE  And(old, new) \in SessionWrites
<1>1. DOMAIN old \cup DOMAIN new \in SUBSET SessionKeys
    BY SessionWritesType
<1>2. And(old, new) \in [DOMAIN old \cup DOMAIN new -> Nat]
    BY SessionWritesType DEF And
<1> QED BY <1>1, <1>2, WritesType

LEMMA OnlyType ==
    ASSUME NEW w \in SessionWrites, NEW keys
    PROVE  /\ Only(w, keys) \in SessionWrites /\ DOMAIN Only(w, keys) = DOMAIN w \cap keys
           /\ \A k \in DOMAIN w \cap keys : Only(w, keys)[k] = w[k]
<1>1. DOMAIN w \cap keys \in SUBSET SessionKeys
    BY SessionWritesType
<1>2. Only(w, keys) \in [DOMAIN w \cap keys -> Nat]
    BY SessionWritesType DEF Only
<1> QED BY <1>1, <1>2, WritesType DEF Only

\* What a statement adds to its transaction, after it succeeded or failed.
LEMMA SureMine ==
    ASSUME NEW m \in SessionMine, NEW w \in SessionWrites, NEW new \in SessionWrites, Mine(m, w)
    PROVE  Sure(m, new) \in SessionMine /\ Mine(Sure(m, new), And(w, new))
<1>1. /\ DOMAIN m \subseteq SessionKeys /\ m \in [DOMAIN m -> SUBSET Nat]
      /\ DOMAIN new \subseteq SessionKeys /\ new \in [DOMAIN new -> Nat]
    BY SessionWritesType, SessionMineType
<1>2. Sure(m, new) \in [DOMAIN m \cup DOMAIN new -> SUBSET Nat]
    BY <1>1 DEF Sure
<1>3. DOMAIN m \cup DOMAIN new \in SUBSET SessionKeys
    BY <1>1
<1>4. Sure(m, new) \in SessionMine
    BY <1>2, <1>3, MineType
<1>5. Mine(Sure(m, new), And(w, new))
    BY <1>2 DEF Mine, Sure, And
<1> QED BY <1>4, <1>5

LEMMA UnsureMine ==
    ASSUME NEW m \in SessionMine, NEW w \in SessionWrites, NEW new \in SessionWrites, Mine(m, w)
    PROVE  Unsure(m, new) \in SessionMine /\ Mine(Unsure(m, new), And(w, new))
<1>1. /\ DOMAIN m \subseteq SessionKeys /\ m \in [DOMAIN m -> SUBSET Nat]
      /\ new \in [DOMAIN new -> Nat]
    BY SessionWritesType, SessionMineType
<1>2. Unsure(m, new) \in [DOMAIN m -> SUBSET Nat]
    BY <1>1 DEF Unsure
<1>3. DOMAIN m \in SUBSET SessionKeys
    BY <1>1
<1>4. Unsure(m, new) \in SessionMine
    BY <1>2, <1>3, MineType
<1>5. Mine(Unsure(m, new), And(w, new))
    BY <1>2 DEF Mine, Unsure, And
<1> QED BY <1>4, <1>5

LEMMA NoTxType ==
    /\ NoTx \in SessionTx /\ NoTx.table = NoTable /\ ~NoTx.open /\ NoTx.writes = NoWrites
    /\ NoTx.buf = NoWrites
    /\ [NoTx EXCEPT !.active = TRUE] \in SessionTx
    /\ [NoTx EXCEPT !.active = TRUE].table = NoTable
    /\ ~[NoTx EXCEPT !.active = TRUE].open
    /\ [NoTx EXCEPT !.active = TRUE].writes = NoWrites
    /\ [NoTx EXCEPT !.active = TRUE].buf = NoWrites
BY NoWritesType DEF NoTx, SessionTx, SessionRow, Empty

LEMMA NoneMineType ==
    /\ NoneMine \in [SessionTables -> SessionMine]
    /\ \A t \in SessionTables : NoneMine[t] = NoWrites
BY NoWritesType DEF NoneMine

\* Outside a transaction nothing is pending.
LEMMA EmptyTransaction ==
    ASSUME smine = NoneMine, stx.writes = NoWrites, stx.buf = NoWrites, ~stx.open
    PROVE  TransactionInv
BY NoWritesType, NoneMineType DEF TransactionInv

LEMMA SessionInitOK == SessionInit => SessionIndInv
<1> SUFFICES ASSUME SessionInit PROVE SessionIndInv
    OBVIOUS
<1>1. /\ smode \in {"local", "consistent"} /\ stables = [t \in SessionTables |-> Empty]
      /\ stx = NoTx /\ smine = NoneMine /\ scount = 0 /\ sack = NothingTold
    BY DEF SessionInit, SessionStart
<1>2. SessionTypeOK
    BY <1>1, NoTxType, NoneMineType DEF SessionTypeOK, SessionRow, SessionTold, Empty, NothingTold
<1>3. TransactionInv
    BY <1>1, NoTxType, EmptyTransaction
<1> QED BY <1>2, <1>3 DEF SessionIndInv

\* What stage leaves, whether the statement succeeded (m is Sure) or not.
LEMMA StagedOK ==
    ASSUME SessionTypeOK, TransactionInv, NEW t \in SessionTables, NEW w \in SessionWrites,
           Stages(t), stx.active, stx' = Staged(t, w), UNCHANGED <<smode, stables, sack>>,
           NEW m \in SessionMine, Mine(m, And(Pending, w)),
           smine' = [smine EXCEPT ![t] = m], scount' \in Nat
    PROVE  SessionTypeOK' /\ TransactionInv'
<1>1. /\ stx \in SessionTx /\ smine \in [SessionTables -> SessionMine]
      /\ stx.writes \in SessionWrites /\ stx.buf \in SessionWrites /\ stables[t] \in SessionRow
      /\ smode \in {"local", "consistent"}
    BY DEF SessionTypeOK, SessionTx
<1>2. And(stx.writes, w) \in SessionWrites /\ And(stx.buf, w) \in SessionWrites
    BY <1>1, AndType
<1>3. stx' \in SessionTx
    BY <1>1, <1>2 DEF Staged, SessionTx
<1>4. SessionTypeOK'
    BY <1>1, <1>3 DEF SessionTypeOK
<1>5. /\ stx'.table = t /\ stx'.active /\ t # NoTable
      /\ smode = "local" => stx'.open /\ stx'.writes = And(stx.writes, w) /\ stx'.buf = stx.buf
      /\ smode = "consistent" => stx'.open = stx.open /\ stx'.writes = stx.writes
                                 /\ stx'.buf = And(stx.buf, w)
    BY <1>1, NoTableAssumption DEF Staged, SessionTx
<1>6. Pending' = And(Pending, w)
    BY <1>1, <1>5 DEF Pending
<1>7. ASSUME NEW u \in SessionTables, DOMAIN smine'[u] # {} PROVE u = t /\ Mine(smine'[u], Pending')
    <2>1. u # t => smine'[u] = smine[u]
        BY <1>1
    <2>2. u # t => DOMAIN smine[u] = {}
        BY NoTableAssumption DEF TransactionInv, Stages
    <2> QED BY <1>1, <1>6, <1>7, <2>1, <2>2
<1>8. TransactionInv'
    BY <1>1, <1>5, <1>7 DEF TransactionInv
<1> QED BY <1>4, <1>8

\* The operations staged so far are pending, of the table they are staged for.
LEMMA PendingMine ==
    ASSUME SessionTypeOK, TransactionInv, NEW t \in SessionTables
    PROVE  Mine(smine[t], Pending) /\ smine[t] \in SessionMine /\ Pending \in SessionWrites
<1>1. smine[t] \in SessionMine /\ Pending \in SessionWrites
    BY DEF SessionTypeOK, SessionTx, Pending
<1>2. Mine(smine[t], Pending)
    BY <1>1 DEF TransactionInv, Mine
<1> QED BY <1>1, <1>2

LEMMA StageFailsOK ==
    ASSUME SessionTypeOK, TransactionInv, NEW t \in SessionTables, NEW w \in SessionWrites,
           Stages(t), stx.active, StageFails(t, w), UNCHANGED <<smode, stables, sack>>, scount' \in Nat
    PROVE  SessionTypeOK' /\ TransactionInv'
<1>1. CASE ~stx.open /\ stx' = [stx EXCEPT !.table = t] /\ UNCHANGED smine
    <2>1. /\ stx' \in SessionTx /\ stx'.open = stx.open /\ stx'.writes = stx.writes /\ stx'.buf = stx.buf
          /\ stx'.table = t
        BY <1>1 DEF SessionTypeOK, SessionTx
    <2>2. SessionTypeOK'
        BY <1>1, <2>1 DEF SessionTypeOK
    <2>3. smode = "local" /\ DOMAIN stx.writes = {}
        BY <1>1 DEF StageFails, TransactionInv
    <2>4. \A u \in SessionTables : DOMAIN smine[u] = {}
        BY <2>3 DEF TransactionInv, Pending, Mine
    <2>5. TransactionInv'
        BY <1>1, <2>1, <2>4 DEF TransactionInv
    <2> QED BY <2>2, <2>5
<1>2. ASSUME NEW done \in SUBSET DOMAIN w, stx' = Staged(t, Only(w, done)),
             smine' = [smine EXCEPT ![t] = Unsure(smine[t], Only(w, done))]
      PROVE  SessionTypeOK' /\ TransactionInv'
    <2>1. Only(w, done) \in SessionWrites
        BY OnlyType
    <2>2. /\ Unsure(smine[t], Only(w, done)) \in SessionMine
          /\ Mine(Unsure(smine[t], Only(w, done)), And(Pending, Only(w, done)))
        BY <2>1, PendingMine, UnsureMine
    <2> QED BY <1>2, <2>1, <2>2, StagedOK
<1> QED BY <1>1, <1>2 DEF StageFails

LEMMA ToldType ==
    ASSUME NEW rows \in SessionTold, NEW w \in SessionWrites
    PROVE  Sure(rows, w) \in SessionTold /\ Unsure(rows, w) \in SessionTold
<1>1. /\ w \in [DOMAIN w -> Nat] /\ DOMAIN rows = SessionKeys
      /\ DOMAIN rows \cup DOMAIN w = SessionKeys
    BY SessionWritesType DEF SessionTold
<1> QED BY <1>1 DEF Sure, Unsure, SessionTold

LEMMA LandsOK ==
    ASSUME SessionTypeOK, TransactionInv, NEW t \in SessionTables, NEW w \in SessionWrites,
           Lands(t, w), UNCHANGED smode, scount' \in Nat
    PROVE  SessionTypeOK' /\ TransactionInv'
<1> DEFINE to == IF smode = "consistent" THEN ApplyBatchTo(t) ELSE t
<1>1. to \in SessionTables
    BY DEF ApplyBatchTo, SessionTables
<1>2. PICK keys : stables' = [stables EXCEPT ![to] = Over(stables[to], Only(w, keys))]
    BY DEF Lands
<1>3. \/ sack' = sack
      \/ sack' = [sack EXCEPT ![t] = Sure(sack[t], w)]
      \/ sack' = [sack EXCEPT ![t] = Unsure(sack[t], w)]
    BY DEF Lands
<1>4. UNCHANGED <<stx, smine>>
    BY DEF Lands
<1> HIDE DEF to
<1>5. Over(stables[to], Only(w, keys)) \in SessionRow
    BY <1>1, OnlyType, OverType DEF SessionTypeOK
<1>6. stables' \in [SessionTables -> SessionRow]
    BY <1>1, <1>2, <1>5 DEF SessionTypeOK
<1>7. sack' \in [SessionTables -> SessionTold]
    BY <1>3, ToldType DEF SessionTypeOK
<1>8. SessionTypeOK'
    BY <1>4, <1>6, <1>7 DEF SessionTypeOK
<1>9. TransactionInv'
    BY <1>4 DEF TransactionInv, Pending
<1> QED BY <1>8, <1>9

LEMMA CommitsOK ==
    ASSUME SessionTypeOK, TransactionInv, NEW t \in SessionTables, NEW w \in SessionWrites,
           Commits(t, w), UNCHANGED smode, scount' \in Nat
    PROVE  SessionTypeOK' /\ TransactionInv'
<1>1. CASE ~stx.active /\ Lands(t, w)
    BY <1>1, LandsOK
<1>2. CASE UNCHANGED <<stables, sack, stx, smine>>
    BY <1>2 DEF SessionTypeOK, TransactionInv, Pending
<1>3. CASE /\ stx.active /\ Stages(t) /\ stx' = Staged(t, w) /\ UNCHANGED <<stables, sack>>
           /\ smine' = [smine EXCEPT ![t] = Sure(smine[t], w)]
    <2>1. Sure(smine[t], w) \in SessionMine /\ Mine(Sure(smine[t], w), And(Pending, w))
        BY PendingMine, SureMine
    <2> QED BY <1>3, <2>1, StagedOK
<1>4. CASE stx.active /\ Stages(t) /\ StageFails(t, w) /\ UNCHANGED <<stables, sack>>
    BY <1>4, StageFailsOK
<1> QED BY <1>1, <1>2, <1>3, <1>4 DEF Commits

\* What a COMMIT finds: the writes that land are pending ones.
CommitFinds(t, landed) ==
    /\ stx.active /\ t \in SessionTables /\ landed \in SessionWrites
    /\ DOMAIN landed \subseteq DOMAIN Pending
    /\ \A k \in DOMAIN landed : landed[k] = Pending[k]
CommitLeaves(t, to, landed) ==
    LET after == [stables EXCEPT ![to] = Over(stables[to], landed)]
    IN  \/ stables' = after /\ sack' = [sack EXCEPT ![t] = Told(sack[t], smine[t], landed)]
        \/ stables' \in {stables, after} /\ sack' = [sack EXCEPT ![t] = Unsure(sack[t], landed)]

LEMMA CommitIs ==
    ASSUME SessionIndInv, ExecCommit
    PROVE  \/ UNCHANGED <<stables, sack>>
           \/ \E landed : /\ stx.open /\ CommitFinds(stx.table, landed)
                          /\ CommitLeaves(stx.table, stx.table, landed)
           \/ /\ DOMAIN stx.buf # {} /\ CommitFinds(stx.table, stx.buf)
              /\ CommitLeaves(stx.table, ApplyBatchTo(stx.table), stx.buf)
<1> USE DEF SessionIndInv
<1>1. /\ stx \in SessionTx /\ stx.writes \in SessionWrites /\ stx.buf \in SessionWrites /\ stx.active
      /\ smode \in {"local", "consistent"}
    BY DEF SessionTypeOK, SessionTx, ExecCommit
<1>2. CASE stx.open
    <2> DEFINE landed == ServerCommits(stx.table, stx.writes)
               keys   == {q \in DOMAIN stx.writes : stables[stx.table][q] = stx.snap[q]}
    <2>1. keys \in SUBSET SessionKeys
        BY <1>1, SessionWritesType
    <2>2. landed \in [keys -> Nat] /\ \A k \in keys : landed[k] = stx.writes[k]
        BY <1>1, SessionWritesType DEF ServerCommits
    <2>3. landed \in SessionWrites /\ DOMAIN landed = keys
        BY <2>1, <2>2, WritesType
    <2>4. Pending = stx.writes /\ stx.table \in SessionTables
        BY <1>2 DEF TransactionInv, Pending
    <2>5. CommitLeaves(stx.table, stx.table, landed)
        BY <1>2 DEF ExecCommit, CommitLeaves
    <2> HIDE DEF landed
    <2> QED BY <1>1, <1>2, <2>2, <2>3, <2>4, <2>5 DEF CommitFinds
<1>3. CASE ~stx.open /\ DOMAIN stx.buf # {}
    <2>1. Pending = stx.buf /\ stx.table \in SessionTables
        BY <1>1, <1>3 DEF TransactionInv, Pending
    <2>2. CommitLeaves(stx.table, ApplyBatchTo(stx.table), stx.buf)
        BY <1>3 DEF ExecCommit, CommitLeaves
    <2> QED BY <1>1, <1>3, <2>1, <2>2 DEF CommitFinds
<1>4. CASE ~stx.open /\ DOMAIN stx.buf = {}
    BY <1>4 DEF ExecCommit
<1> QED BY <1>2, <1>3, <1>4

LEMMA CommitLeavesType ==
    ASSUME SessionTypeOK, NEW t, NEW to \in SessionTables, NEW landed, CommitFinds(t, landed),
           CommitLeaves(t, to, landed)
    PROVE  stables' \in [SessionTables -> SessionRow] /\ sack' \in [SessionTables -> SessionTold]
<1>1. /\ stables[to] \in SessionRow /\ sack[t] \in SessionTold /\ smine[t] \in SessionMine
      /\ landed \in SessionWrites /\ t \in SessionTables
    BY DEF SessionTypeOK, CommitFinds
<1>2. Over(stables[to], landed) \in SessionRow /\ Unsure(sack[t], landed) \in SessionTold
    BY <1>1, OverType, ToldType
<1>3. Told(sack[t], smine[t], landed) \in SessionTold
    BY <1>1, SessionWritesType, SessionMineType DEF Told, SessionTold
<1> QED BY <1>1, <1>2, <1>3 DEF CommitLeaves, SessionTypeOK

LEMMA SessionStep == SessionIndInv /\ [SessionNext]_sessionvars => SessionIndInv'
<1> SUFFICES ASSUME SessionIndInv, [SessionNext]_sessionvars PROVE SessionIndInv'
    OBVIOUS
<1> USE DEF SessionIndInv
<1>1. ASSUME NextStatement PROVE scount' \in Nat
    BY <1>1 DEF NextStatement, SessionTypeOK
<1>2. CASE ExecBegin
    <2>1. stx' = [NoTx EXCEPT !.active = TRUE] /\ smine' = NoneMine
        BY <1>2 DEF ExecBegin
    <2>2. TransactionInv'
        BY <2>1, NoTxType, NoneMineType, NoWritesType DEF TransactionInv
    <2>3. SessionTypeOK'
        BY <1>2, <2>1, NoTxType, NoneMineType DEF ExecBegin, SessionTypeOK
    <2> QED BY <2>2, <2>3
<1>3. CASE ExecRollback
    <2>1. stx' = NoTx /\ smine' = NoneMine
        BY <1>3 DEF ExecRollback
    <2>2. TransactionInv'
        BY <2>1, NoTxType, NoneMineType, NoWritesType DEF TransactionInv
    <2>3. SessionTypeOK'
        BY <1>3, <2>1, NoTxType, NoneMineType DEF ExecRollback, SessionTypeOK
    <2> QED BY <2>2, <2>3
<1>4. CASE ExecCommit
    <2>1. stx' = NoTx /\ smine' = NoneMine /\ UNCHANGED <<smode, scount>>
        BY <1>4 DEF ExecCommit
    <2>2. TransactionInv'
        BY <2>1, NoTxType, NoneMineType, NoWritesType DEF TransactionInv
    <2>3. stables' \in [SessionTables -> SessionRow] /\ sack' \in [SessionTables -> SessionTold]
        <3>1. CASE UNCHANGED <<stables, sack>>
            BY <3>1 DEF SessionTypeOK
        <3>2. ASSUME NEW to \in {stx.table, ApplyBatchTo(stx.table)}, NEW landed,
                     CommitFinds(stx.table, landed), CommitLeaves(stx.table, to, landed)
              PROVE  stables' \in [SessionTables -> SessionRow] /\ sack' \in [SessionTables -> SessionTold]
            <4>1. to \in SessionTables
                BY <3>2 DEF CommitFinds, ApplyBatchTo, SessionTables
            <4> QED BY <3>2, <4>1, CommitLeavesType
        <3> QED BY <1>4, <3>1, <3>2, CommitIs
    <2>4. SessionTypeOK'
        BY <2>1, <2>3, NoTxType, NoneMineType DEF SessionTypeOK
    <2> QED BY <2>2, <2>4
<1>5. ASSUME NEW t \in SessionTables, NEW k \in SessionKeys, ExecInsert(t, k) PROVE SessionIndInv'
    <2>1. [q \in {k} |-> scount'] \in SessionWrites
        BY <1>1, <1>5, WritesType DEF ExecInsert
    <2> QED BY <1>1, <1>5, <2>1, CommitsOK DEF ExecInsert
<1>6. ASSUME NEW t \in SessionTables, NEW k \in SessionKeys, OtherCommits(t, k) PROVE SessionIndInv'
    <2>1. scount' \in Nat
        BY <1>1, <1>6 DEF OtherCommits
    <2>2. stables' \in [SessionTables -> SessionRow]
        BY <1>6, <2>1 DEF OtherCommits, SessionTypeOK, SessionRow
    <2>3. sack' \in [SessionTables -> SessionTold]
        BY <1>6, <2>1 DEF OtherCommits, SessionTypeOK, SessionTold
    <2>4. SessionTypeOK'
        BY <1>6, <2>1, <2>2, <2>3 DEF OtherCommits, SessionTypeOK
    <2>5. TransactionInv'
        BY <1>6 DEF OtherCommits, TransactionInv, Pending
    <2> QED BY <2>4, <2>5
<1>7. ASSUME NEW t \in SessionTables, NEW where \in SUBSET SessionKeys, ExecUpdate(t, where)
      PROVE  SessionIndInv'
    <2>1. MatchedKeys(t, where) \in SUBSET SessionKeys
        BY DEF MatchedKeys
    <2>2. [k \in MatchedKeys(t, where) |-> scount'] \in SessionWrites
        BY <1>1, <1>7, <2>1, WritesType DEF ExecUpdate
    <2> QED BY <1>1, <1>7, <2>2, CommitsOK DEF ExecUpdate
<1>8. ASSUME NEW t \in SessionTables, NEW where \in SUBSET SessionKeys, ExecDelete(t, where)
      PROVE  SessionIndInv'
    <2>1. CASE BulkDelete
        <3>1. [k \in where |-> 0] \in SessionWrites
            BY WritesType
        <3> QED BY <1>1, <1>8, <2>1, <3>1, LandsOK DEF ExecDelete
    <2>2. CASE ~BulkDelete
        <3>1. MatchedKeys(t, where) \in SUBSET SessionKeys
            BY DEF MatchedKeys
        <3>2. [k \in MatchedKeys(t, where) |-> 0] \in SessionWrites
            BY <3>1, WritesType
        <3> QED BY <1>1, <1>8, <2>2, <3>2, CommitsOK DEF ExecDelete
    <2> QED BY <2>1, <2>2
<1>9. ASSUME NEW t \in SessionTables, NEW keys \in SUBSET SessionKeys, WriteAds(t, keys)
      PROVE  SessionIndInv'
    <2>1. PICK rejected \in SUBSET keys : Commits(t, [k \in keys \ rejected |-> scount'])
        BY <1>9 DEF WriteAds
    <2>2. keys \ rejected \in SUBSET SessionKeys
        OBVIOUS
    <2>3. [k \in keys \ rejected |-> scount'] \in SessionWrites
        BY <1>1, <1>9, <2>2, WritesType DEF WriteAds
    <2> QED BY <1>1, <1>9, <2>1, <2>3, CommitsOK DEF WriteAds
<1>10. ASSUME NEW t \in SessionTables, NEW shape \in ReadShapes, ExecSelect(t, shape)
       PROVE  SessionIndInv'
    BY <1>10 DEF ExecSelect, SessionTypeOK, TransactionInv, Pending
<1>11. CASE UNCHANGED sessionvars
    BY <1>11 DEF sessionvars, SessionTypeOK, TransactionInv, Pending
<1> QED BY <1>2, <1>3, <1>4, <1>5, <1>6, <1>7, <1>8, <1>9, <1>10, <1>11 DEF SessionNext

LEMMA SessionInductive == SessionSpec => []SessionIndInv
BY SessionInitOK, SessionStep, PTL DEF SessionSpec

\* A SELECT asks the transaction, and what that answers covers its writes;
\* every other statement has no rows to show.
LEMMA SelectShowsWrites ==
    ASSUME SessionIndInv, NEW t \in SessionTables, NEW shape \in ThroughTx, ExecSelect(t, shape)
    PROVE  ReadsOwnWrites'
<1> USE DEF SessionIndInv
<1>1. sread' = [rows |-> View(t), mine |-> IF smode = "local" THEN smine[t] ELSE NoWrites]
    BY DEF ExecSelect
<1>2. CASE smode = "local" /\ DOMAIN smine[t] # {}
    <2>1. stx.table = t /\ Mine(smine[t], stx.writes)
        BY <1>2 DEF TransactionInv, Pending
    <2>2. TxReads(t)
        BY <1>2, <2>1 DEF TransactionInv, TxReads, Mine
    <2>3. stx.snap \in SessionRow /\ stx.writes \in SessionWrites
        BY DEF SessionTypeOK, SessionTx
    <2>4. \A k \in DOMAIN stx.writes : View(t)[k] = stx.writes[k]
        BY <2>2, <2>3, OverType, SessionWritesType DEF View
    <2>5. sread'.rows = View(t) /\ sread'.mine = smine[t]
        BY <1>1, <1>2
    <2> QED BY <2>1, <2>4, <2>5 DEF ReadsOwnWrites, Mine
<1>3. CASE ~(smode = "local" /\ DOMAIN smine[t] # {})
    <2>1. DOMAIN sread'.mine = {}
        BY <1>1, <1>3, NoWritesType
    <2> QED BY <2>1 DEF ReadsOwnWrites
<1> QED BY <1>2, <1>3

LEMMA AnswerKept ==
    ASSUME [SessionNext]_sessionvars,
           ~\E t \in SessionTables, shape \in ReadShapes : ExecSelect(t, shape)
    PROVE  sread' \in {sread, NoRead}
BY DEF SessionNext, sessionvars, ExecBegin, ExecCommit, ExecRollback, ExecInsert, OtherCommits,
       ExecUpdate, ExecDelete, WriteAds

(***************************************************************************)
(* queryAdsAsOf, execAggregate: for every table, key and statement, and    *)
(* whatever statements failed before, a SELECT of a local transaction      *)
(* shows what the transaction has written.  The shapes are those that read *)
(* through the transaction: a window, a computed group key and a           *)
(* time_bucket aggregate read what is committed.                           *)
(***************************************************************************)
THEOREM TransactionReadsItself ==
    ASSUME ReadShapes \subseteq ThroughTx
    PROVE  SessionSpec => []ReadsOwnWrites
<1>1. SessionInit => ReadsOwnWrites
    BY NoWritesType DEF SessionInit, SessionStart, ReadsOwnWrites, NoRead
<1>2. SessionIndInv /\ ReadsOwnWrites /\ [SessionNext]_sessionvars => ReadsOwnWrites'
    <2> SUFFICES ASSUME SessionIndInv, ReadsOwnWrites, [SessionNext]_sessionvars
                 PROVE  ReadsOwnWrites'
        OBVIOUS
    <2>1. CASE \E t \in SessionTables, shape \in ReadShapes : ExecSelect(t, shape)
        BY <2>1, SelectShowsWrites
    <2>2. CASE UNCHANGED sread
        BY <2>2 DEF ReadsOwnWrites
    <2>3. CASE sread' = NoRead
        BY <2>3, NoWritesType DEF ReadsOwnWrites, NoRead
    <2> QED BY <2>1, <2>2, <2>3, AnswerKept
<1> QED BY <1>1, <1>2, SessionInductive, PTL DEF SessionSpec

-----------------------------------------------------------------------------
\* stage: a buffer is begun and extended only by a consistent session, which
\* writes the default table alone.
LEMMA BufferStep ==
    ASSUME ConsistentTables \subseteq {DefaultTable}
    PROVE  SessionIndInv /\ BufferInv /\ [SessionNext]_sessionvars => BufferInv'
<1> SUFFICES ASSUME SessionIndInv, BufferInv, [SessionNext]_sessionvars PROVE BufferInv'
    OBVIOUS
<1>1. stx \in SessionTx /\ smode \in {"local", "consistent"}
    BY DEF SessionIndInv, SessionTypeOK
<1>2. ASSUME NEW t \in SessionTables, NEW w, Written(t), UNCHANGED smode,
             stx' = Staged(t, w)
      PROVE  BufferInv'
    <2>1. CASE smode = "consistent"
        <3>1. stx'.table = t
            BY <1>1, <1>2, <2>1 DEF Staged, SessionTx
        <3> QED BY <1>2, <2>1, <3>1 DEF BufferInv, Written
    <2>2. CASE smode # "consistent"
        <3>1. stx'.buf = stx.buf
            BY <1>1, <1>2, <2>2 DEF Staged, SessionTx
        <3> QED BY <2>2, <3>1 DEF BufferInv
    <2> QED BY <2>1, <2>2
<1>9. ASSUME NEW t \in SessionTables, NEW w, Written(t), Commits(t, w), UNCHANGED smode
      PROVE  BufferInv'
    <2>1. CASE UNCHANGED stx
        BY <1>9, <2>1 DEF BufferInv
    <2>2. CASE StageFails(t, w)
        <3>1. CASE stx' = [stx EXCEPT !.table = t]
            <4>1. stx'.buf = stx.buf /\ smode = "local"
                BY <1>1, <2>2, <3>1 DEF SessionTx, StageFails
            <4> QED BY <4>1 DEF BufferInv
        <3> QED BY <1>2, <1>9, <2>2, <3>1 DEF StageFails
    <2> QED BY <1>2, <1>9, <2>1, <2>2 DEF Commits, Lands
<1>3. CASE ExecBegin \/ ExecCommit \/ ExecRollback
    <2>1. stx'.buf = NoWrites
        BY <1>3, NoTxType DEF ExecBegin, ExecCommit, ExecRollback, NoTx
    <2> QED BY <2>1, NoWritesType DEF BufferInv
<1>4. ASSUME NEW t \in SessionTables, NEW k \in SessionKeys, ExecInsert(t, k) PROVE BufferInv'
    BY <1>9, <1>4 DEF ExecInsert
<1>5. ASSUME NEW t \in SessionTables, NEW k \in SUBSET SessionKeys,
             ExecUpdate(t, k) \/ WriteAds(t, k)
      PROVE  BufferInv'
    BY <1>9, <1>5 DEF ExecUpdate, WriteAds
<1>6. ASSUME NEW t \in SessionTables, NEW k \in SUBSET SessionKeys, ExecDelete(t, k)
      PROVE  BufferInv'
    <2>1. CASE BulkDelete
        BY <1>6, <2>1 DEF ExecDelete, Lands, BufferInv
    <2> QED BY <1>9, <1>6, <2>1 DEF ExecDelete
<1>7. ASSUME NEW t \in SessionTables, NEW k, OtherCommits(t, k) \/ ExecSelect(t, k)
      PROVE  BufferInv'
    BY <1>7 DEF OtherCommits, ExecSelect, BufferInv
<1>8. CASE UNCHANGED sessionvars
    BY <1>8 DEF sessionvars, BufferInv
<1> QED BY <1>3, <1>4, <1>5, <1>6, <1>7, <1>8 DEF SessionNext

Shown(row, allowed) == \A k \in SessionKeys : row[k] \in allowed[k]

\* A write that lands, in full or in part, is among what its session was told.
LEMMA WriteShown ==
    ASSUME NEW row \in SessionRow, NEW allowed \in SessionTold, NEW w \in SessionWrites, NEW keys,
           Shown(row, allowed)
    PROVE  /\ Shown(Over(row, Only(w, keys)), Unsure(allowed, w))
           /\ Shown(row, Unsure(allowed, w))
           /\ DOMAIN w \subseteq keys => Shown(Over(row, Only(w, keys)), Sure(allowed, w))
<1>1. /\ Only(w, keys) \in SessionWrites /\ DOMAIN Only(w, keys) = DOMAIN w \cap keys
      /\ \A k \in DOMAIN w \cap keys : Only(w, keys)[k] = w[k]
    BY OnlyType
<1>2. \A k \in SessionKeys : Over(row, Only(w, keys))[k]
                             = IF k \in DOMAIN w \cap keys THEN w[k] ELSE row[k]
    BY <1>1, OverType
<1>3. DOMAIN allowed = SessionKeys /\ DOMAIN w \subseteq SessionKeys
    BY SessionWritesType DEF SessionTold
<1>4. \A k \in SessionKeys :
        /\ Unsure(allowed, w)[k] = IF k \in DOMAIN w THEN allowed[k] \cup {w[k]} ELSE allowed[k]
        /\ Sure(allowed, w)[k] = IF k \in DOMAIN w THEN {w[k]} ELSE allowed[k]
    BY <1>3 DEF Unsure, Sure
<1> QED BY <1>2, <1>4 DEF Shown

LEMMA CommitShown ==
    ASSUME SessionIndInv, NEW t, NEW landed, CommitFinds(t, landed), Shown(stables[t], sack[t])
    PROVE  /\ Shown(Over(stables[t], landed), Unsure(sack[t], landed))
           /\ Shown(stables[t], Unsure(sack[t], landed))
           /\ Shown(Over(stables[t], landed), Told(sack[t], smine[t], landed))
<1>1. /\ t \in SessionTables /\ landed \in SessionWrites
      /\ stables[t] \in SessionRow /\ sack[t] \in SessionTold
    BY DEF SessionIndInv, SessionTypeOK, CommitFinds
<1>2. \A k \in SessionKeys : Over(stables[t], landed)[k]
                             = IF k \in DOMAIN landed THEN landed[k] ELSE stables[t][k]
    BY <1>1, OverType
<1>3. DOMAIN sack[t] = SessionKeys
    BY <1>1 DEF SessionTold
<1>4. \A k \in SessionKeys :
        Unsure(sack[t], landed)[k] = IF k \in DOMAIN landed THEN sack[t][k] \cup {landed[k]} ELSE sack[t][k]
    BY <1>3 DEF Unsure
<1>5. \A k \in DOMAIN landed \cap DOMAIN smine[t] : landed[k] \in smine[t][k]
    BY <1>1, PendingMine DEF SessionIndInv, CommitFinds, Mine
<1>6. Shown(Over(stables[t], landed), Told(sack[t], smine[t], landed))
    BY <1>2, <1>5 DEF Shown, Told
<1> QED BY <1>2, <1>4, <1>6 DEF Shown

LEMMA LandsShown ==
    ASSUME SessionIndInv, TablesShowAcknowledged, NEW t \in SessionTables, NEW w \in SessionWrites,
           ~stx.active, smode = "consistent" => ApplyBatchTo(t) = t, Lands(t, w)
    PROVE  TablesShowAcknowledged'
<1>1. stables \in [SessionTables -> SessionRow] /\ sack \in [SessionTables -> SessionTold]
    BY DEF SessionIndInv, SessionTypeOK
<1>2. PICK keys : /\ stables' = [stables EXCEPT ![t] = Over(stables[t], Only(w, keys))]
                  /\ \/ DOMAIN w \subseteq keys /\ sack' = [sack EXCEPT ![t] = Sure(sack[t], w)]
                     \/ sack' = [sack EXCEPT ![t] = Unsure(sack[t], w)]
    BY DEF Lands
<1>3. Shown(stables'[t], sack'[t])
    BY <1>1, <1>2, WriteShown DEF TablesShowAcknowledged, Shown
<1>4. \A u \in SessionTables : u # t => stables'[u] = stables[u] /\ sack'[u] = sack[u]
    BY <1>1, <1>2
<1> QED BY <1>3, <1>4 DEF TablesShowAcknowledged, Shown

LEMMA AcknowledgedStep ==
    ASSUME ConsistentTables \subseteq {DefaultTable}
    PROVE  SessionIndInv /\ BufferInv /\ TablesShowAcknowledged /\ [SessionNext]_sessionvars
           => TablesShowAcknowledged'
<1> SUFFICES ASSUME SessionIndInv, BufferInv, TablesShowAcknowledged, [SessionNext]_sessionvars
             PROVE  TablesShowAcknowledged'
    OBVIOUS
<1>0. /\ stables \in [SessionTables -> SessionRow] /\ sack \in [SessionTables -> SessionTold]
      /\ smode \in {"local", "consistent"} /\ scount \in Nat /\ stx.active \in BOOLEAN
    BY DEF SessionIndInv, SessionTypeOK, SessionTx
<1>a. CASE UNCHANGED <<stables, sack>>
    BY <1>a DEF TablesShowAcknowledged
<1>1. ASSUME NEW t \in SessionTables, NEW w \in SessionWrites, Written(t), Commits(t, w)
      PROVE  TablesShowAcknowledged'
    <2>1. CASE ~stx.active /\ Lands(t, w)
        BY <1>1, <2>1, LandsShown DEF Written, ApplyBatchTo
    <2> QED BY <1>1, <1>a, <2>1 DEF Commits
<1>2. CASE ExecCommit
    <2>1. ASSUME NEW landed, CommitFinds(stx.table, landed), CommitLeaves(stx.table, stx.table, landed)
          PROVE  TablesShowAcknowledged'
        <3>1. stx.table \in SessionTables
            BY <2>1 DEF CommitFinds
        <3>2. Shown(stables[stx.table], sack[stx.table])
            BY <3>1 DEF TablesShowAcknowledged, Shown
        <3>3. Shown(stables'[stx.table], sack'[stx.table])
            BY <1>0, <2>1, <3>1, <3>2, CommitShown DEF CommitLeaves
        <3>4. \A u \in SessionTables : u # stx.table => stables'[u] = stables[u] /\ sack'[u] = sack[u]
            BY <1>0, <2>1 DEF CommitLeaves
        <3> QED BY <3>3, <3>4 DEF TablesShowAcknowledged, Shown
    <2>2. DOMAIN stx.buf # {} => ApplyBatchTo(stx.table) = stx.table
        BY DEF BufferInv, ApplyBatchTo
    <2> QED BY <1>2, <1>a, <2>1, <2>2, CommitIs
<1>3. CASE ExecBegin \/ ExecRollback
    BY <1>3, <1>a DEF ExecBegin, ExecRollback
<1>b. ASSUME NextStatement PROVE scount' \in Nat
    BY <1>0, <1>b DEF NextStatement
<1>4. ASSUME NEW t \in SessionTables, NEW k \in SessionKeys, ExecInsert(t, k)
      PROVE  TablesShowAcknowledged'
    <2>1. [q \in {k} |-> scount'] \in SessionWrites
        BY <1>b, <1>4, WritesType DEF ExecInsert
    <2> QED BY <1>1, <1>4, <2>1 DEF ExecInsert
<1>5. ASSUME NEW t \in SessionTables, NEW where \in SUBSET SessionKeys, ExecUpdate(t, where)
      PROVE  TablesShowAcknowledged'
    <2>1. MatchedKeys(t, where) \in SUBSET SessionKeys
        BY DEF MatchedKeys
    <2>2. [k \in MatchedKeys(t, where) |-> scount'] \in SessionWrites
        BY <1>b, <1>5, <2>1, WritesType DEF ExecUpdate
    <2> QED BY <1>1, <1>5, <2>2 DEF ExecUpdate
<1>6. ASSUME NEW t \in SessionTables, NEW keys \in SUBSET SessionKeys, WriteAds(t, keys)
      PROVE  TablesShowAcknowledged'
    <2>1. PICK rejected \in SUBSET keys : Commits(t, [k \in keys \ rejected |-> scount'])
        BY <1>6 DEF WriteAds
    <2>2. keys \ rejected \in SUBSET SessionKeys
        OBVIOUS
    <2>3. [k \in keys \ rejected |-> scount'] \in SessionWrites
        BY <1>b, <1>6, <2>2, WritesType DEF WriteAds
    <2> QED BY <1>1, <1>6, <2>1, <2>3 DEF WriteAds
<1>7. ASSUME NEW t \in SessionTables, NEW where \in SUBSET SessionKeys, ExecDelete(t, where)
      PROVE  TablesShowAcknowledged'
    <2>1. CASE BulkDelete
        <3>1. [k \in where |-> 0] \in SessionWrites
            BY WritesType
        <3> QED BY <1>7, <2>1, <3>1, LandsShown DEF ExecDelete, BulkDelete
    <2>2. CASE ~BulkDelete
        <3>1. MatchedKeys(t, where) \in SUBSET SessionKeys
            BY DEF MatchedKeys
        <3>2. [k \in MatchedKeys(t, where) |-> 0] \in SessionWrites
            BY <3>1, WritesType
        <3> QED BY <1>1, <1>7, <2>2, <3>2 DEF ExecDelete
    <2> QED BY <2>1, <2>2
<1>8. ASSUME NEW t \in SessionTables, NEW k \in SessionKeys, OtherCommits(t, k)
      PROVE  TablesShowAcknowledged'
    <2>1. /\ stables' = [stables EXCEPT ![t][k] = scount']
          /\ sack' = [sack EXCEPT ![t][k] = {scount'}]
        BY <1>8 DEF OtherCommits
    <2>2. \A u \in SessionTables, q \in SessionKeys :
            /\ stables'[u][q] = IF u = t /\ q = k THEN scount' ELSE stables[u][q]
            /\ sack'[u][q] = IF u = t /\ q = k THEN {scount'} ELSE sack[u][q]
        BY <1>0, <2>1 DEF SessionRow, SessionTold
    <2> QED BY <2>2 DEF TablesShowAcknowledged
<1>9. ASSUME NEW t \in SessionTables, NEW shape, ExecSelect(t, shape) PROVE TablesShowAcknowledged'
    BY <1>9, <1>a DEF ExecSelect
<1>10. CASE UNCHANGED sessionvars
    BY <1>10, <1>a DEF sessionvars
<1> QED BY <1>2, <1>3, <1>4, <1>5, <1>6, <1>7, <1>8, <1>9, <1>10 DEF SessionNext

(***************************************************************************)
(* commit, stage, execDelete, execCommit and consistentWriter: for every   *)
(* table, key, statement, failure and other session, the committed tables  *)
(* hold what the sessions were told: the last acknowledged write of a row, *)
(* or one that failed since.  A consistent session writes the default      *)
(* table only: the operations it proposes name no table, and a write of    *)
(* another one would be acknowledged and land in the default one.          *)
(***************************************************************************)
THEOREM AcknowledgedWritesShow ==
    ASSUME ConsistentTables \subseteq {DefaultTable}
    PROVE  SessionSpec => []TablesShowAcknowledged
<1>1. SessionInit => BufferInv /\ TablesShowAcknowledged
    BY NoWritesType DEF SessionInit, SessionStart, BufferInv, TablesShowAcknowledged, NoTx,
        NothingTold, Empty
<1> QED BY <1>1, SessionInductive, BufferStep, AcknowledgedStep, PTL DEF SessionSpec
-----------------------------------------------------------------------------
(***************************************************************************)
(* Flight.  A fetch is checked against the pin it read when it started,    *)
(* and other RPCs may re-pin, expire or close the handle before it ends.   *)
(* What holds throughout: a handle's pin is what its client was last told, *)
(* it is never empty, and an RPC that fetches carries such a pin.          *)
(***************************************************************************)
RpcFields ==
    {"id", "op", "who", "h", "q", "value", "pin", "told", "pc", "ds", "image"}
StatementFields == {"query", "owner", "created", "bound", "fp", "told"}

PinnedStatement(s) == DOMAIN s = StatementFields /\ s.fp = s.told /\ s.fp # NoPin
HandlesPinned == \A h \in DOMAIN handles : PinnedStatement(handles[h])

PinnedRpc(r) == DOMAIN r = RpcFields /\ (r.op = "get" => r.pin = r.told /\ r.pin # NoPin)
RpcsPinned == \A r \in rpcs : PinnedRpc(r)

FlightIndInv == HandlesPinned /\ RpcsPinned /\ FetchedAsPromised

LEMMA RpcPinned ==
    ASSUME NEW op, NEW who, NEW h, NEW q, NEW value, NEW pin, NEW told,
           op = "get" => pin = told /\ pin # NoPin
    PROVE  PinnedRpc(Rpc(op, who, h, q, value, pin, told))
BY DEF PinnedRpc, Rpc, RpcFields

\* The steps of an RPC keep what it is checked against.
LEMMA CallPinned ==
    ASSUME RpcsPinned, NEW rpc, PinnedRpc(rpc), CallRpc(rpc)
    PROVE  RpcsPinned'
<1>1. PICK id, pc, ds :
        \/ rpcs' = rpcs \union {[rpc EXCEPT !.id = id, !.pc = pc, !.ds = ds]}
        \/ rpcs' = rpcs \union {[rpc EXCEPT !.id = id, !.ds = ds]}
    BY DEF CallRpc
<1>2. /\ PinnedRpc([rpc EXCEPT !.id = id, !.pc = pc, !.ds = ds])
      /\ PinnedRpc([rpc EXCEPT !.id = id, !.ds = ds])
    BY DEF PinnedRpc, RpcFields
<1> QED BY <1>1, <1>2 DEF RpcsPinned

LEMMA MovePinned ==
    ASSUME RpcsPinned, NEW r \in rpcs, NEW next, PinnedRpc(r) => PinnedRpc(next),
           rpcs' = (rpcs \ {r}) \union {next}
    PROVE  RpcsPinned'
BY DEF RpcsPinned

LEMMA ExpiredPinned ==
    ASSUME HandlesPinned
    PROVE  \A h \in DOMAIN Expired(handles) : PinnedStatement(Expired(handles)[h])
BY DEF HandlesPinned, Expired

LEMMA FlightInitOK == FlightInit => FlightIndInv
BY DEF FlightInit, FlightStart, FlightIndInv, HandlesPinned, RpcsPinned, FetchedAsPromised

LEMMA PreparePinned ==
    ASSUME HandlesPinned, NEW r, Prepare(r)
    PROVE  HandlesPinned'
<1> DEFINE fp == {ProjectedColumns(r.q, r.ds)}
           s  == [query |-> r.q, owner |-> r.who, created |-> fclock, bound |-> Unbound,
                  fp |-> fp, told |-> fp]
<1>1. PinnedStatement(s)
    BY DEF PinnedStatement, StatementFields, NoPin
<1>2. \/ handles' = Expired(handles)
      \/ handles' = [h \in DOMAIN Expired(handles) \union {r.id} |->
                        IF h = r.id THEN s ELSE handles[h]]
    BY DEF Prepare
<1>3. \A h \in DOMAIN Expired(handles) : PinnedStatement(handles[h])
    BY DEF HandlesPinned, Expired
<1> HIDE DEF s
<1> QED BY <1>1, <1>2, <1>3, ExpiredPinned DEF HandlesPinned

LEMMA ReportPinned ==
    ASSUME HandlesPinned, NEW r, Report(r)
    PROVE  HandlesPinned'
<1> DEFINE fp == {ProjectedColumns(r.q, r.ds)}
<1>1. fp # NoPin
    BY DEF NoPin
<1>2. \/ UNCHANGED handles
      \/ /\ r.h \in DOMAIN handles
         /\ handles' = [handles EXCEPT ![r.h].fp = Repin(@, fp), ![r.h].told = fp]
    BY DEF Report
<1> HIDE DEF fp
<1> QED BY <1>1, <1>2 DEF HandlesPinned, PinnedStatement, StatementFields, Repin

LEMMA BindPinned ==
    ASSUME HandlesPinned, NEW r, StoreBind(r)
    PROVE  HandlesPinned'
<1>1. \/ handles' = Expired(handles)
      \/ handles' = [Expired(handles) EXCEPT ![r.h].bound = r.value]
    BY DEF StoreBind
<1> QED BY <1>1, ExpiredPinned DEF HandlesPinned, PinnedStatement, StatementFields

\* doGetQuery: the stream that passes the pin is the schema that was told.
LEMMA DeliverPinned ==
    ASSUME RpcsPinned, FetchedAsPromised, DeliverStream
    PROVE  RpcsPinned' /\ FetchedAsPromised'
<1>1. PICK r \in rpcs :
        /\ r.op = "get" /\ r.pc = "planned"
        /\ IF /\ Template(r.q, r.ds) /\ Binds(r.q, r.ds, r.value)
              /\ Projects(r.q, r.ds) /\ PinHolds(r.pin, ProjectedColumns(r.q, r.ds))
           THEN /\ delivered' = [got |-> {ProjectedColumns(r.q, r.ds)}, told |-> r.told]
                /\ rpcs' = (rpcs \ {r}) \union {[r EXCEPT !.pc = "streaming"]}
           ELSE rpcs' = rpcs \ {r} /\ UNCHANGED delivered
    BY DEF DeliverStream
<1>2. PinnedRpc(r) /\ PinnedRpc([r EXCEPT !.pc = "streaming"])
    BY DEF RpcsPinned, PinnedRpc, RpcFields
<1>3. RpcsPinned'
    BY <1>1, <1>2 DEF RpcsPinned
<1>4. FetchedAsPromised'
    BY <1>1, <1>2 DEF PinnedRpc, PinHolds, FetchedAsPromised
<1> QED BY <1>3, <1>4

LEMMA FlightStep == FlightIndInv /\ [FlightNext]_flightvars => FlightIndInv'
<1> SUFFICES ASSUME FlightIndInv, [FlightNext]_flightvars PROVE FlightIndInv'
    OBVIOUS
<1> USE DEF FlightIndInv
<1>a. ASSUME UNCHANGED handles PROVE HandlesPinned'
    BY <1>a DEF HandlesPinned
<1>b. ASSUME handles' = Expired(handles) PROVE HandlesPinned'
    BY <1>b, ExpiredPinned DEF HandlesPinned
<1>c. ASSUME UNCHANGED rpcs PROVE RpcsPinned'
    BY <1>c DEF RpcsPinned
<1>d. ASSUME UNCHANGED delivered PROVE FetchedAsPromised'
    BY <1>d DEF FetchedAsPromised
<1>1. CASE TickFlight
    BY <1>1, <1>a, <1>c, <1>d DEF TickFlight
<1>2. CASE PlanQuery
    <2>1. RpcsPinned'
        BY <1>2, RpcPinned, CallPinned DEF PlanQuery
    <2> QED BY <1>2, <2>1, <1>a, <1>d DEF PlanQuery
<1>3. CASE PlanHandle
    <2>1. RpcsPinned'
        BY <1>3, RpcPinned, CallPinned DEF PlanHandle
    <2> QED BY <1>3, <2>1, <1>b, <1>d DEF PlanHandle
<1>4. CASE FetchRows
    <2>1. ASSUME NEW h \in DOMAIN handles,
                 CallRpc(Rpc("get", handles[h].owner, h, handles[h].query, handles[h].bound,
                             handles[h].fp, handles[h].told))
          PROVE  RpcsPinned'
        <3>1. handles[h].fp = handles[h].told /\ handles[h].fp # NoPin
            BY DEF HandlesPinned, PinnedStatement
        <3> QED BY <2>1, <3>1, RpcPinned, CallPinned
    <2>2. ASSUME NEW who \in Clients, tickets[who].fp # NoPin,
                 CallRpc(Rpc("get", who, 0, tickets[who].q, Unbound, tickets[who].fp, tickets[who].fp))
          PROVE  RpcsPinned'
        BY <2>2, RpcPinned, CallPinned
    <2>3. RpcsPinned'
        BY <1>4, <2>1, <2>2 DEF FetchRows
    <2>4. HandlesPinned'
        BY <1>4, <1>a, <1>b DEF FetchRows
    <2> QED BY <1>4, <2>3, <2>4, <1>d DEF FetchRows
<1>5. CASE ReconcileTypes
    <2>1. RpcsPinned'
        <3>1. PICK r \in rpcs :
                rpcs' = (rpcs \ {r}) \union
                    {[r EXCEPT !.pc = "reconciled", !.ds = Settled(memory.cols, r.ds)]}
            BY <1>5 DEF ReconcileTypes
        <3>2. PinnedRpc(r) => PinnedRpc([r EXCEPT !.pc = "reconciled", !.ds = Settled(memory.cols, r.ds)])
            BY DEF PinnedRpc, RpcFields
        <3> QED BY <3>1, <3>2, MovePinned
    <2> QED BY <1>5, <2>1, <1>a, <1>d DEF ReconcileTypes
<1>14. CASE PutSchema
    <2>1. RpcsPinned'
        <3>1. PICK r \in rpcs :
                rpcs' = (rpcs \ {r}) \union
                    {[r EXCEPT !.pc = IF memory.dirty THEN "flush" ELSE "planned"]}
            BY <1>14 DEF PutSchema
        <3>2. PinnedRpc(r) => PinnedRpc([r EXCEPT !.pc = IF memory.dirty THEN "flush" ELSE "planned"])
            BY DEF PinnedRpc, RpcFields
        <3> QED BY <3>1, <3>2, MovePinned
    <2> QED BY <1>14, <2>1, <1>a, <1>d DEF PutSchema
<1>6. CASE FlushImage
    <2>1. RpcsPinned'
        <3>1. PICK r \in rpcs : \E pc, image :
                rpcs' = (rpcs \ {r}) \union {[r EXCEPT !.pc = pc, !.image = image]}
            BY <1>6 DEF FlushImage
        <3>2. PICK pc, image : rpcs' = (rpcs \ {r}) \union {[r EXCEPT !.pc = pc, !.image = image]}
            BY <3>1
        <3>3. PinnedRpc(r) => PinnedRpc([r EXCEPT !.pc = pc, !.image = image])
            BY DEF PinnedRpc, RpcFields
        <3> QED BY <3>2, <3>3, MovePinned
    <2> QED BY <1>6, <2>1, <1>a, <1>d DEF FlushImage
<1>7. CASE FlushWrite
    <2>1. RpcsPinned'
        <3>1. PICK r \in rpcs : \E pc, image :
                rpcs' = (rpcs \ {r}) \union {[r EXCEPT !.pc = pc, !.image = image]}
            BY <1>7 DEF FlushWrite
        <3>2. PICK pc, image : rpcs' = (rpcs \ {r}) \union {[r EXCEPT !.pc = pc, !.image = image]}
            BY <3>1
        <3>3. PinnedRpc(r) => PinnedRpc([r EXCEPT !.pc = pc, !.image = image])
            BY DEF PinnedRpc, RpcFields
        <3> QED BY <3>2, <3>3, MovePinned
    <2> QED BY <1>7, <2>1, <1>a, <1>d DEF FlushWrite
<1>8. CASE FinishPlan
    <2>1. HandlesPinned'
        BY <1>8, PreparePinned, ReportPinned, BindPinned DEF FinishPlan
    <2>2. RpcsPinned'
        BY <1>8 DEF FinishPlan, RpcsPinned
    <2> QED BY <1>8, <2>1, <2>2, <1>d DEF FinishPlan
<1>9. CASE DeliverStream
    BY <1>9, <1>a, DeliverPinned DEF DeliverStream
<1>10. CASE EndStream
    <2>1. RpcsPinned'
        BY <1>10 DEF EndStream, RpcsPinned
    <2> QED BY <1>10, <2>1, <1>a, <1>d DEF EndStream
<1>11. CASE ClosePreparedStatement
    <2>1. HandlesPinned'
        BY <1>11 DEF ClosePreparedStatement, HandlesPinned
    <2> QED BY <1>11, <2>1, <1>c, <1>d DEF ClosePreparedStatement
<1>12. CASE RestartFlight
    BY <1>12, <1>d DEF RestartFlight, HandlesPinned, RpcsPinned
<1>13. CASE UNCHANGED flightvars
    BY <1>13, <1>a, <1>c, <1>d DEF flightvars
<1> QED BY <1>1, <1>2, <1>3, <1>4, <1>5, <1>6, <1>7, <1>8, <1>9, <1>10, <1>11, <1>12, <1>13,
           <1>14 DEF FlightNext

(***************************************************************************)
(* checkPin and repin: for every table, statement, client, cache TTL and   *)
(* interleaving of RPCs, with the memory file's faults too, a client is    *)
(* streamed the schema its ticket was issued with, or the one the last     *)
(* call on its handle reported, or nothing.                                *)
(***************************************************************************)
THEOREM StreamsAsPromised == FlightSpec => []FetchedAsPromised
<1>1. FlightIndInv => FetchedAsPromised
    BY DEF FlightIndInv
<1> QED BY <1>1, FlightInitOK, FlightStep, PTL DEF FlightSpec

-----------------------------------------------------------------------------
(***************************************************************************)
(* Queue client.  That a daemon is answered honestly needs two things of a *)
(* query before it is answered.  Its rows: what the daemon has, the chunks *)
(* in the queue and the buffer are the rows 1..row cut into consecutive    *)
(* pieces (Contiguous), unless the query has failed or was freed.  Its     *)
(* session: a session in the pool counts exactly the queries that stream on*)
(* it (PoolCounts), so that what is reaped has none, and a session that a  *)
(* query streams on can only die or be dropped.                            *)
(***************************************************************************)
Streaming == {"read", "flush", "last", "notify", "notify_last", "finish"}
Chunk == Seq(Nat)
QueueRequest ==
    [pc : Streaming \cup {"none", "store", "done"}, via : {"chunks", "fd"}, conn : Nat, row : Nat,
     buf : Chunk, chunks : Seq(Chunk), closing : BOOLEAN, closed : BOOLEAN, err : BOOLEAN,
     refused : BOOLEAN, token : Int, daemon : {"idle", "checks", "waits", "answered", "freed"}, got : Chunk,
     socket : {"clean", "failed", "dirty"}, answer : {"none", "done", "error"}]
SessionState == {"none", "up", "died", "dropped", "reaped", "surplus"}
PoolEntry == [inUse : Int, idle : BOOLEAN]
QueueLoadType ==
    [queries : SUBSET Queries, vias : SUBSET {"chunks", "fd"}, rows : Nat, begins : Int, faults : Int]

QueueTypeOK ==
    /\ qconn \in [Sessions -> SessionState]
    /\ DOMAIN qpool \subseteq Sessions /\ qpool \in [DOMAIN qpool -> PoolEntry]
    /\ qreq \in [Queries -> QueueRequest]
    /\ qleft \in QueueLoadType

\* The rows after a up to b.
Rows(a, b) == [i \in 1..b - a |-> a + i]
CutAt(cut, got, chunks, buf, row) ==
    /\ got = Rows(0, cut[1])
    /\ \A i \in 1..Len(chunks) : cut[i] <= cut[i + 1] /\ chunks[i] = Rows(cut[i], cut[i + 1])
    /\ cut[Len(chunks) + 1] <= row /\ buf = Rows(cut[Len(chunks) + 1], row)
Contiguous(got, chunks, buf, row) ==
    \E cut \in [1..Len(chunks) + 1 -> Nat] : CutAt(cut, got, chunks, buf, row)

RowsInv(r, rows) ==
    /\ r.pc = "none" => r.answer = "none" /\ r.daemon = "idle" /\ r.err = FALSE
    /\ (r.closing <=> r.pc \in {"store", "done"}) /\ (r.closed <=> r.pc = "done")
    /\ r.via = "fd" => r.chunks = <<>>
    /\ r.daemon = "checks" => ~r.closed
    /\ r.answer = "done" => r.daemon = "answered" /\ r.closing /\ ~r.err /\ r.chunks = <<>>
    /\ ~r.err /\ r.daemon # "freed" =>
         /\ Contiguous(r.got, r.chunks, r.buf, r.row)
         /\ r.pc \in {"last", "notify_last", "finish", "store", "done"} => r.row = rows
         /\ r.pc \in {"notify", "notify_last", "finish", "store", "done"} => r.buf = <<>>

Lost(conns, c) == conns[c] \in {"died", "dropped"}
SessionInv(r, conns) ==
    /\ r.pc # "none" => r.conn \in Sessions /\ conns[r.conn] # "none"
    /\ r.pc \in Streaming => conns[r.conn] \in {"up", "died", "dropped"}
    /\ r.err /\ r.daemon # "freed" => Lost(conns, r.conn) \/ r.socket # "clean" \/ r.refused
    /\ r.answer = "error" => r.err /\ r.daemon = "answered"

Users(reqs, c) == {q \in Queries : reqs[q].pc \in Streaming /\ reqs[q].conn = c}
PoolCounts(pool, reqs, conns) ==
    \A c \in DOMAIN pool : conns[c] # "none" /\ pool[c].inUse = Cardinality(Users(reqs, c))

QueueRowsInv == \A q \in Queries : RowsInv(qreq[q], qleft.rows)
QueueSessionsInv == (\A q \in Queries : SessionInv(qreq[q], qconn)) /\ PoolCounts(qpool, qreq, qconn)
QueueIndInv == QueueTypeOK /\ QueueRowsInv /\ QueueSessionsInv

-----------------------------------------------------------------------------
\* Rows in pieces.
LEMMA RowsType ==
    ASSUME NEW a \in Nat, NEW b \in Nat, a <= b
    PROVE  /\ Rows(a, b) \in Chunk /\ Len(Rows(a, b)) = b - a
           /\ \A i \in 1..b - a : Rows(a, b)[i] = a + i
BY DEF Rows, Chunk

LEMMA RowsEmpty ==
    ASSUME NEW a \in Nat, NEW b \in Nat, a <= b
    PROVE  Rows(a, b) = <<>> <=> a = b
<1>1. Len(Rows(a, b)) = b - a /\ Rows(a, b) \in Chunk
    BY RowsType
<1> QED BY <1>1 DEF Chunk

LEMMA SeqSame ==
    ASSUME NEW s \in Chunk, NEW t \in Chunk, Len(s) = Len(t), \A i \in 1..Len(s) : s[i] = t[i]
    PROVE  s = t
BY DEF Chunk

LEMMA RowsJoin ==
    ASSUME NEW a \in Nat, NEW b \in Nat, NEW c \in Nat, a <= b, b <= c
    PROVE  Rows(a, b) \o Rows(b, c) = Rows(a, c)
<1>1. PICK s : s = Rows(a, b)
    OBVIOUS
<1>2. PICK t : t = Rows(b, c)
    OBVIOUS
<1>3. PICK u : u = Rows(a, c)
    OBVIOUS
<1>4. s \in Chunk /\ Len(s) = b - a /\ \A i \in 1..b - a : s[i] = a + i
    BY <1>1, RowsType
<1>5. t \in Chunk /\ Len(t) = c - b /\ \A i \in 1..c - b : t[i] = b + i
    BY <1>2, RowsType
<1>6. u \in Chunk /\ Len(u) = c - a /\ \A i \in 1..c - a : u[i] = a + i
    <2>1. a <= c
        OBVIOUS
    <2> QED BY <1>3, <2>1, RowsType
<1>7. PICK l : l = s \o t
    OBVIOUS
<1>8. l \in Chunk /\ Len(l) = Len(s) + Len(t)
    <2>1. s \in Seq(Nat) /\ t \in Seq(Nat)
        BY <1>4, <1>5 DEF Chunk
    <2> QED BY <1>7, <2>1 DEF Chunk
<1>9. \A i \in 1..Len(l) : l[i] = IF i <= Len(s) THEN s[i] ELSE t[i - Len(s)]
    BY <1>4, <1>5, <1>7, SMTT(30) DEF Chunk
<1>10. ASSUME NEW i \in 1..Len(l) PROVE l[i] = u[i]
    <2>1. i \in 1..c - a /\ u[i] = a + i
        BY <1>4, <1>5, <1>6, <1>8
    <2>2. CASE i <= Len(s)
        BY <1>4, <1>9, <2>1, <2>2
    <2>3. CASE ~(i <= Len(s))
        <3>1. i - Len(s) \in 1..c - b
            BY <1>4, <2>1, <2>3
        <3>2. t[i - Len(s)] = b + (i - Len(s))
            BY <1>5, <3>1
        <3> QED BY <1>4, <1>9, <2>1, <2>3, <3>2
    <2> QED BY <2>2, <2>3
<1>11. Len(l) = Len(u)
    BY <1>4, <1>5, <1>6, <1>8
<1>12. l = u
    BY <1>6, <1>8, <1>10, <1>11, SeqSame
<1> QED BY <1>1, <1>2, <1>3, <1>7, <1>12

LEMMA RowsNext ==
    ASSUME NEW a \in Nat, NEW b \in Nat, a <= b
    PROVE  Append(Rows(a, b), b + 1) = Rows(a, b + 1)
<1>1. PICK s : s = Rows(a, b)
    OBVIOUS
<1>2. PICK u : u = Rows(a, b + 1)
    OBVIOUS
<1>3. s \in Chunk /\ Len(s) = b - a /\ \A i \in 1..b - a : s[i] = a + i
    BY <1>1, RowsType
<1>4. u \in Chunk /\ Len(u) = b + 1 - a /\ \A i \in 1..b + 1 - a : u[i] = a + i
    <2>1. PICK c \in Nat : c = b + 1
        OBVIOUS
    <2>2. a <= c
        BY <2>1
    <2>3. Rows(a, c) \in Chunk /\ Len(Rows(a, c)) = c - a /\ \A i \in 1..c - a : Rows(a, c)[i] = a + i
        BY <2>2, RowsType
    <2> QED BY <1>2, <2>1, <2>3
<1>5. PICK l : l = Append(s, b + 1)
    OBVIOUS
<1>6. l \in Chunk /\ Len(l) = Len(s) + 1 /\ l[Len(s) + 1] = b + 1 /\ \A i \in 1..Len(s) : l[i] = s[i]
    BY <1>3, <1>5 DEF Chunk
<1>7. ASSUME NEW i \in 1..Len(l) PROVE l[i] = u[i]
    <2>1. i \in 1..b + 1 - a /\ u[i] = a + i
        BY <1>3, <1>4, <1>6
    <2>2. CASE i \in 1..Len(s)
        BY <1>3, <1>6, <2>1, <2>2
    <2>3. CASE i = Len(s) + 1
        BY <1>3, <1>6, <2>1, <2>3
    <2> QED BY <1>3, <1>6, <2>2, <2>3
<1>8. Len(l) = Len(u)
    BY <1>3, <1>4, <1>6
<1>9. l = u
    BY <1>4, <1>6, <1>7, <1>8, SeqSame
<1> QED BY <1>1, <1>2, <1>5, <1>9

\* A stream adds a row to the buffer;
LEMMA ContiguousRow ==
    ASSUME NEW got \in Chunk, NEW chunks \in Seq(Chunk), NEW buf \in Chunk, NEW row \in Nat,
           Contiguous(got, chunks, buf, row)
    PROVE  Contiguous(got, chunks, Append(buf, row + 1), row + 1)
<1>1. PICK cut \in [1..Len(chunks) + 1 -> Nat] : CutAt(cut, got, chunks, buf, row)
    BY DEF Contiguous
<1>2. cut[Len(chunks) + 1] \in Nat
    BY <1>1
<1>3. Append(buf, row + 1) = Rows(cut[Len(chunks) + 1], row + 1)
    BY <1>1, <1>2, RowsNext DEF CutAt
<1>4. CutAt(cut, got, chunks, Append(buf, row + 1), row + 1)
    BY <1>1, <1>2, <1>3 DEF CutAt
<1> QED BY <1>1, <1>4 DEF Contiguous

\* flush puts the buffer into the queue;
LEMMA ContiguousFlush ==
    ASSUME NEW got \in Chunk, NEW chunks \in Seq(Chunk), NEW buf \in Chunk, NEW row \in Nat,
           Contiguous(got, chunks, buf, row)
    PROVE  Contiguous(got, Append(chunks, buf), <<>>, row)
<1>1. PICK cut \in [1..Len(chunks) + 1 -> Nat] : CutAt(cut, got, chunks, buf, row)
    BY DEF Contiguous
<1> DEFINE n == Len(chunks)
           c == [i \in 1..n + 2 |-> IF i = n + 2 THEN row ELSE cut[i]]
           q == Append(chunks, buf)
<1>2. n \in Nat /\ Len(q) = n + 1 /\ q \in Seq(Chunk)
    OBVIOUS
<1>3. c \in [1..Len(q) + 1 -> Nat] /\ c[n + 2] = row /\ \A i \in 1..n + 1 : c[i] = cut[i]
    BY <1>1, <1>2
<1>4. q[n + 1] = buf /\ \A i \in 1..n : q[i] = chunks[i]
    OBVIOUS
<1>5. cut[n + 1] <= row /\ buf = Rows(cut[n + 1], row) /\ cut[n + 1] \in Nat
    BY <1>1, <1>2 DEF CutAt
<1>6. \A i \in 1..n : cut[i] <= cut[i + 1] /\ chunks[i] = Rows(cut[i], cut[i + 1])
    BY <1>1 DEF CutAt
<1>7. got = Rows(0, cut[1])
    BY <1>1 DEF CutAt
<1>8. <<>> = Rows(row, row)
    BY RowsEmpty
<1> HIDE DEF c, q, n
<1>9. ASSUME NEW i \in 1..n + 1 PROVE c[i] <= c[i + 1] /\ q[i] = Rows(c[i], c[i + 1])
    <2>1. CASE i = n + 1
        BY <1>2, <1>3, <1>4, <1>5, <2>1
    <2>2. CASE i \in 1..n
        <3>1. i + 1 \in 1..n + 1 /\ c[i] = cut[i] /\ c[i + 1] = cut[i + 1]
            BY <1>2, <1>3, <2>2
        <3> QED BY <1>4, <1>6, <2>2, <3>1
    <2> QED BY <1>2, <2>1, <2>2
<1>10. CutAt(c, got, q, <<>>, row)
    BY <1>2, <1>3, <1>7, <1>8, <1>9 DEF CutAt
<1> QED BY <1>3, <1>10 DEF Contiguous, q

\* or writes it to the client's socket;
LEMMA ContiguousWrite ==
    ASSUME NEW got \in Chunk, NEW buf \in Chunk, NEW row \in Nat,
           Contiguous(got, <<>>, buf, row)
    PROVE  Contiguous(got \o buf, <<>>, <<>>, row)
<1>1. PICK cut \in [1..1 -> Nat] : CutAt(cut, got, <<>>, buf, row)
    BY DEF Contiguous
<1>2. cut[1] \in Nat /\ cut[1] <= row /\ got = Rows(0, cut[1]) /\ buf = Rows(cut[1], row)
    BY <1>1 DEF CutAt
<1>3. got \o buf = Rows(0, row)
    <2>1. 0 <= cut[1]
        BY <1>2
    <2>2. Rows(0, cut[1]) \o Rows(cut[1], row) = Rows(0, row)
        BY <1>2, <2>1, RowsJoin
    <2> QED BY <1>2, <2>2
<1>4. <<>> = Rows(row, row)
    BY RowsEmpty
<1> DEFINE c == [i \in 1..1 |-> row]
<1>5. CutAt(c, got \o buf, <<>>, <<>>, row)
    BY <1>3, <1>4 DEF CutAt
<1> QED BY <1>5 DEF Contiguous

\* and hcdb_queue_next takes a chunk.
LEMMA ContiguousTake ==
    ASSUME NEW got \in Chunk, NEW chunks \in Seq(Chunk), NEW buf \in Chunk, NEW row \in Nat,
           chunks # <<>>, Contiguous(got, chunks, buf, row)
    PROVE  Contiguous(got \o Head(chunks), Tail(chunks), buf, row)
<1>1. PICK cut \in [1..Len(chunks) + 1 -> Nat] : CutAt(cut, got, chunks, buf, row)
    BY DEF Contiguous
<1> DEFINE n == Len(chunks)
           c == [i \in 1..n |-> cut[i + 1]]
           q == Tail(chunks)
<1>2. n \in Nat /\ n > 0 /\ Len(q) = n - 1 /\ q \in Seq(Chunk) /\ \A i \in 1..n - 1 : q[i] = chunks[i + 1]
    OBVIOUS
<1>3. c \in [1..Len(q) + 1 -> Nat] /\ \A i \in 1..n : c[i] = cut[i + 1]
    BY <1>1, <1>2
<1>4. \A i \in 1..n : cut[i] <= cut[i + 1] /\ chunks[i] = Rows(cut[i], cut[i + 1])
    BY <1>1 DEF CutAt
<1>5. cut[n + 1] <= row /\ buf = Rows(cut[n + 1], row) /\ got = Rows(0, cut[1])
    BY <1>1 DEF CutAt
<1>6. cut[1] \in Nat /\ cut[2] \in Nat /\ cut[1] <= cut[2] /\ Head(chunks) = Rows(cut[1], cut[2])
    BY <1>1, <1>2, <1>4
<1>7. got \o Head(chunks) = Rows(0, cut[2])
    <2>1. Rows(0, cut[1]) \o Rows(cut[1], cut[2]) = Rows(0, cut[2])
        <3>1. 0 <= cut[1]
            BY <1>6
        <3> QED BY <1>6, <3>1, RowsJoin
    <2> QED BY <1>5, <1>6, <2>1
<1> HIDE DEF c, q, n
<1>8. ASSUME NEW i \in 1..n - 1 PROVE c[i] <= c[i + 1] /\ q[i] = Rows(c[i], c[i + 1])
    <2>1. i \in 1..n /\ i + 1 \in 1..n /\ c[i] = cut[i + 1] /\ c[i + 1] = cut[(i + 1) + 1]
        <3>1. i \in 1..n /\ i + 1 \in 1..n
            BY <1>2
        <3> QED BY <1>3, <3>1
    <2>2. cut[i + 1] <= cut[(i + 1) + 1] /\ chunks[i + 1] = Rows(cut[i + 1], cut[(i + 1) + 1])
        BY <1>4, <2>1
    <2> QED BY <1>2, <2>1, <2>2
<1>9. CutAt(c, got \o Head(chunks), q, buf, row)
    <2>1. c[1] = cut[2] /\ c[Len(q) + 1] = cut[n + 1]
        BY <1>2, <1>3
    <2> QED BY <1>2, <1>5, <1>7, <1>8, <2>1 DEF CutAt
<1> QED BY <1>3, <1>9 DEF Contiguous, q

\* With nothing left in between, the daemon has the rows.
LEMMA ContiguousAll ==
    ASSUME NEW got \in Chunk, NEW row \in Nat, Contiguous(got, <<>>, <<>>, row)
    PROVE  got = [i \in 1..row |-> i]
<1>1. PICK cut \in [1..1 -> Nat] : CutAt(cut, got, <<>>, <<>>, row)
    BY DEF Contiguous
<1>2. cut[1] \in Nat /\ cut[1] <= row /\ got = Rows(0, cut[1]) /\ <<>> = Rows(cut[1], row)
    BY <1>1 DEF CutAt
<1>3. cut[1] = row
    BY <1>2, RowsEmpty
<1> QED BY <1>2, <1>3 DEF Rows

LEMMA ContiguousNone == Contiguous(<<>>, <<>>, <<>>, 0)
<1>1. <<>> = Rows(0, 0)
    BY RowsEmpty
<1> DEFINE c == [i \in 1..1 |-> 0]
<1>2. CutAt(c, <<>>, <<>>, <<>>, 0)
    BY <1>1 DEF CutAt
<1> QED BY <1>2 DEF Contiguous

-----------------------------------------------------------------------------
\* The pool and its sessions.
LEMMA LeastNat ==
    ASSUME NEW S \in SUBSET Nat, S # {}
    PROVE  \E x \in S : \A y \in S : x <= y
<1>1. IsWellFoundedOn(OpToRel(<, Nat), Nat)
    BY NatLessThanWellFounded
<1>2. PICK x \in S : \A y \in S : ~(<<y, x>> \in OpToRel(<, Nat))
    BY <1>1, WFMin
<1>3. ASSUME NEW y \in S, y < x PROVE FALSE
    <2>1. <<y, x>> \in Nat \X Nat /\ <<y, x>>[1] < <<y, x>>[2]
        BY <1>3
    <2>2. <<y, x>> \in OpToRel(<, Nat)
        BY <2>1 DEF OpToRel
    <2> QED BY <1>2, <2>2
<1> QED BY <1>3

LEMMA DialledFresh ==
    ASSUME QueueTypeOK, Fresh # {}
    PROVE  Dialled \in Sessions /\ qconn[Dialled] = "none"
<1>1. Fresh \subseteq Sessions /\ \A c \in Fresh : qconn[c] = "none"
    BY DEF Fresh
<1>2. Sessions \subseteq Nat
    BY MaxSessionAssumption DEF Sessions
<1>3. \E c \in Fresh : \A d \in Fresh : c <= d
    BY <1>1, <1>2, LeastNat
<1>4. Dialled \in Fresh
    BY <1>3 DEF Dialled
<1> QED BY <1>1, <1>4

LEMMA UsersFinite ==
    ASSUME NEW reqs, NEW c
    PROVE  /\ IsFiniteSet(Users(reqs, c)) /\ Cardinality(Users(reqs, c)) \in Nat
           /\ Users(reqs, c) = {} <=> Cardinality(Users(reqs, c)) = 0
<1>1. Users(reqs, c) \subseteq Queries
    BY DEF Users
<1>2. IsFiniteSet(Users(reqs, c))
    BY <1>1, QueueLoadAssumption, FS_Subset
<1> QED BY <1>2, FS_CardinalityType, FS_EmptySet

\* A session may change while requests stay: one that was not dialled becomes
\* anything, and one that is up dies, is dropped, or ends otherwise if nobody uses it.
SessionMay(r, conns, conns2, c) ==
    \/ conns2[c] = conns[c]
    \/ conns[c] = "none"
    \/ conns[c] = "up" /\ conns2[c] \in {"died", "dropped"}
    \/ conns[c] = "up" /\ conns2[c] # "none" /\ ~(r.pc \in Streaming /\ r.conn = c)

LEMMA SessionKept ==
    ASSUME NEW r \in QueueRequest, NEW conns \in [Sessions -> SessionState],
           NEW conns2 \in [Sessions -> SessionState], NEW rows,
           SessionInv(r, conns), RowsInv(r, rows),
           \A c \in Sessions : SessionMay(r, conns, conns2, c)
    PROVE  SessionInv(r, conns2)
<1>1. CASE r.pc = "none"
    <2>1. r.err = FALSE /\ r.answer = "none"
        BY <1>1 DEF RowsInv
    <2>2. r.pc \notin Streaming
        BY <1>1 DEF Streaming
    <2> QED BY <1>1, <2>1, <2>2 DEF SessionInv
<1>2. CASE r.pc # "none"
    <2>1. r.conn \in Sessions /\ conns[r.conn] # "none"
        BY <1>2 DEF SessionInv
    <2>2. SessionMay(r, conns, conns2, r.conn)
        BY <2>1
    <2>3. conns2[r.conn] # "none"
        BY <2>1, <2>2 DEF SessionMay
    <2>4. ASSUME r.pc \in Streaming PROVE conns2[r.conn] \in {"up", "died", "dropped"}
        BY <2>1, <2>2, <2>4 DEF SessionMay, SessionInv
    <2>5. ASSUME Lost(conns, r.conn) PROVE Lost(conns2, r.conn)
        BY <2>1, <2>2, <2>5 DEF SessionMay, Lost
    <2> QED BY <2>1, <2>3, <2>4, <2>5 DEF SessionInv
<1> QED BY <1>1, <1>2

LEMMA SessionsStep ==
    ASSUME QueueIndInv, qreq' = qreq, qconn' \in [Sessions -> SessionState],
           qleft' \in QueueLoadType, qleft'.rows = qleft.rows,
           DOMAIN qpool' \subseteq Sessions, qpool' \in [DOMAIN qpool' -> PoolEntry],
           \A q \in Queries : \A c \in Sessions : SessionMay(qreq[q], qconn, qconn', c),
           PoolCounts(qpool', qreq, qconn')
    PROVE  QueueIndInv'
<1> USE DEF QueueIndInv
<1>1. QueueTypeOK'
    BY DEF QueueTypeOK
<1>2. QueueRowsInv'
    BY DEF QueueRowsInv
<1>3. ASSUME NEW q \in Queries PROVE SessionInv(qreq'[q], qconn')
    <2>1. PICK r : r = qreq[q]
        OBVIOUS
    <2>2. r \in QueueRequest /\ qconn \in [Sessions -> SessionState]
        BY <2>1 DEF QueueTypeOK
    <2>3. SessionInv(r, qconn) /\ RowsInv(r, qleft.rows)
        BY <2>1 DEF QueueSessionsInv, QueueRowsInv
    <2>4. \A c \in Sessions : SessionMay(r, qconn, qconn', c)
        BY <2>1
    <2>5. SessionInv(r, qconn')
        BY <2>2, <2>3, <2>4, SessionKept
    <2> QED BY <2>1, <2>5
<1>4. QueueSessionsInv'
    BY <1>3 DEF QueueSessionsInv
<1> QED BY <1>1, <1>2, <1>4

LEMMA FaultType ==
    ASSUME QueueTypeOK, QueueFails
    PROVE  qleft' \in QueueLoadType /\ qleft'.rows = qleft.rows
BY DEF QueueTypeOK, QueueFails, QueueLoadType

LEMMA SessionDiesKeeps ==
    ASSUME QueueIndInv, NEW c \in Sessions, SessionDies(c) PROVE QueueIndInv'
<1> USE DEF QueueIndInv
<1>1. qleft' \in QueueLoadType /\ qleft'.rows = qleft.rows
    BY FaultType DEF SessionDies
<1>2. qconn' \in [Sessions -> SessionState] /\ qconn[c] = "up" /\ qconn'[c] = "died"
      /\ \A d \in Sessions : d # c => qconn'[d] = qconn[d]
    BY DEF SessionDies, QueueTypeOK, SessionState
<1>3. \A q \in Queries : \A d \in Sessions : SessionMay(qreq[q], qconn, qconn', d)
    BY <1>2 DEF SessionMay
<1>4. qpool' = qpool /\ DOMAIN qpool \subseteq Sessions /\ qpool \in [DOMAIN qpool -> PoolEntry]
      /\ qreq' = qreq
    BY DEF SessionDies, QueueTypeOK
<1>5. PoolCounts(qpool, qreq, qconn')
    <2>1. PoolCounts(qpool, qreq, qconn)
        BY DEF QueueSessionsInv
    <2> QED BY <1>2, <1>4, <2>1 DEF PoolCounts
<1> QED BY <1>1, <1>2, <1>3, <1>4, <1>5, SessionsStep

\* What evictDeadLocked leaves, and any other part of the pool.
LEMMA PartOfPool ==
    ASSUME QueueIndInv, NEW S, S \subseteq DOMAIN qpool
    PROVE  LET p == [c \in S |-> qpool[c]] IN
           /\ DOMAIN p \subseteq Sessions /\ p \in [DOMAIN p -> PoolEntry]
           /\ PoolCounts(p, qreq, qconn)
BY DEF QueueIndInv, QueueTypeOK, QueueSessionsInv, PoolCounts

LEMMA AliveOK ==
    ASSUME QueueIndInv
    PROVE  /\ DOMAIN Alive \subseteq Sessions /\ Alive \in [DOMAIN Alive -> PoolEntry]
           /\ PoolCounts(Alive, qreq, qconn)
           /\ \A c \in DOMAIN Alive : qconn[c] = "up"
<1>1. {d \in DOMAIN qpool : ~Ended(d)} \subseteq DOMAIN qpool
    OBVIOUS
<1>2. \A c \in DOMAIN Alive : qconn[c] = "up"
    BY DEF Alive, Ended
<1> QED BY <1>1, <1>2, PartOfPool DEF Alive

LEMMA EmptyPoolOK ==
    /\ DOMAIN EmptyPool = {} /\ EmptyPool \in [DOMAIN EmptyPool -> PoolEntry]
    /\ \A reqs, conns : PoolCounts(EmptyPool, reqs, conns)
BY DEF EmptyPool, PoolCounts

LEMMA SameConns ==
    ASSUME qconn' = qconn
    PROVE  \A q \in Queries : \A c \in Sessions : SessionMay(qreq[q], qconn, qconn', c)
BY DEF SessionMay

LEMMA EnsureSessionKeeps ==
    ASSUME QueueIndInv, EnsureSession PROVE QueueIndInv'
<1>1. qpool' = Alive /\ qconn' = qconn /\ qreq' = qreq /\ qleft' = qleft
    BY DEF EnsureSession
<1>2. qconn \in [Sessions -> SessionState] /\ qleft \in QueueLoadType
    BY DEF QueueIndInv, QueueTypeOK
<1>3. /\ DOMAIN qpool' \subseteq Sessions /\ qpool' \in [DOMAIN qpool' -> PoolEntry]
      /\ PoolCounts(qpool', qreq, qconn')
    BY <1>1, AliveOK
<1> QED BY <1>1, <1>2, <1>3, SameConns, SessionsStep

\* A session is dialled: a fresh one, that no query uses.
LEMMA NewSession ==
    ASSUME QueueIndInv, Fresh # {}
    PROVE  LET c == Dialled IN
           /\ c \in Sessions /\ qconn[c] = "none"
           /\ \A s \in SessionState \ {"none"} :
                LET conns == [qconn EXCEPT ![c] = s] IN
                /\ conns \in [Sessions -> SessionState]
                /\ \A q \in Queries : \A d \in Sessions : SessionMay(qreq[q], qconn, conns, d)
                /\ PoolCounts(qpool, qreq, conns) /\ PoolCounts(PoolWith(c), qreq, conns)
           /\ DOMAIN PoolWith(c) \subseteq Sessions /\ PoolWith(c) \in [DOMAIN PoolWith(c) -> PoolEntry]
<1> USE DEF QueueIndInv
<1>1. PICK c : c = Dialled
    OBVIOUS
<1>2. c \in Sessions /\ qconn[c] = "none"
    BY <1>1, DialledFresh
<1>3. qconn \in [Sessions -> SessionState] /\ DOMAIN qpool \subseteq Sessions
      /\ qpool \in [DOMAIN qpool -> PoolEntry] /\ PoolCounts(qpool, qreq, qconn)
    BY DEF QueueTypeOK, QueueSessionsInv
<1>4. PICK p : p = PoolWith(c)
    OBVIOUS
<1>5. p = [d \in DOMAIN qpool \cup {c} |-> IF d = c THEN [inUse |-> 0, idle |-> FALSE] ELSE qpool[d]]
    BY <1>4 DEF PoolWith
<1>6. DOMAIN p = DOMAIN qpool \cup {c} /\ p[c].inUse = 0
      /\ \A d \in DOMAIN qpool : d # c => p[d] = qpool[d]
    BY <1>5
<1>7. DOMAIN p \subseteq Sessions /\ p \in [DOMAIN p -> PoolEntry]
    BY <1>2, <1>3, <1>5 DEF PoolEntry
<1>8. Users(qreq, c) = {}
    <2>1. ASSUME NEW q \in Queries, qreq[q].pc \in Streaming, qreq[q].conn = c PROVE FALSE
        BY <1>2, <2>1 DEF QueueSessionsInv, SessionInv
    <2> QED BY <2>1 DEF Users
<1>9. Cardinality(Users(qreq, c)) = 0
    BY <1>8, FS_EmptySet
<1>10. ASSUME NEW s \in SessionState \ {"none"}, NEW conns, conns = [qconn EXCEPT ![c] = s]
       PROVE  /\ conns \in [Sessions -> SessionState]
              /\ \A q \in Queries : \A d \in Sessions : SessionMay(qreq[q], qconn, conns, d)
              /\ PoolCounts(qpool, qreq, conns) /\ PoolCounts(p, qreq, conns)
    <2>1. conns \in [Sessions -> SessionState] /\ conns[c] = s
          /\ \A d \in Sessions : d # c => conns[d] = qconn[d]
        BY <1>2, <1>3, <1>10
    <2>2. \A q \in Queries : \A d \in Sessions : SessionMay(qreq[q], qconn, conns, d)
        BY <1>2, <2>1 DEF SessionMay
    <2>3. PoolCounts(qpool, qreq, conns)
        BY <1>3, <2>1 DEF PoolCounts
    <2>4. PoolCounts(p, qreq, conns)
        BY <1>3, <1>6, <1>9, <2>1, <2>3 DEF PoolCounts
    <2> QED BY <2>1, <2>2, <2>3, <2>4
<1> QED BY <1>1, <1>2, <1>4, <1>7, <1>10

LEMMA DialFloorKeeps ==
    ASSUME QueueIndInv, DialFloor PROVE QueueIndInv'
<1>1. qreq' = qreq /\ qconn \in [Sessions -> SessionState] /\ qleft \in QueueLoadType
      /\ DOMAIN qpool \subseteq Sessions /\ qpool \in [DOMAIN qpool -> PoolEntry]
      /\ PoolCounts(qpool, qreq, qconn)
    BY DEF DialFloor, QueueIndInv, QueueTypeOK, QueueSessionsInv
<1>2. CASE Fresh # {} /\ qconn' = [qconn EXCEPT ![Dialled] = "up"] /\ qpool' = PoolWith(Dialled)
           /\ qleft' = qleft
    <2>1. "up" \in SessionState \ {"none"}
        BY DEF SessionState
    <2>2. /\ qconn' \in [Sessions -> SessionState]
          /\ \A q \in Queries : \A d \in Sessions : SessionMay(qreq[q], qconn, qconn', d)
          /\ PoolCounts(qpool', qreq, qconn')
          /\ DOMAIN qpool' \subseteq Sessions /\ qpool' \in [DOMAIN qpool' -> PoolEntry]
        BY <1>2, <2>1, NewSession
    <2> QED BY <1>1, <1>2, <2>2, SessionsStep
<1>3. CASE QueueFails /\ UNCHANGED <<qconn, qpool>>
    <2>1. qleft' \in QueueLoadType /\ qleft'.rows = qleft.rows
        BY <1>3, FaultType DEF QueueIndInv
    <2> QED BY <1>1, <1>3, <2>1, SameConns, SessionsStep
<1> QED BY <1>2, <1>3 DEF DialFloor

LEMMA DropKeeps ==
    ASSUME QueueIndInv, Drop, qreq' = qreq, qleft' \in QueueLoadType, qleft'.rows = qleft.rows
    PROVE  QueueIndInv'
<1>1. qconn \in [Sessions -> SessionState]
    BY DEF QueueIndInv, QueueTypeOK
<1>2. qpool' = EmptyPool
    BY DEF Drop
<1>3. \A c \in Sessions : qconn'[c] = qconn[c] \/ (qconn[c] = "up" /\ qconn'[c] = "dropped")
    BY DEF Drop, Ended
<1>4. qconn' \in [Sessions -> SessionState]
    BY <1>1 DEF Drop, SessionState
<1>5. \A q \in Queries : \A c \in Sessions : SessionMay(qreq[q], qconn, qconn', c)
    BY <1>3 DEF SessionMay
<1>6. DOMAIN qpool' \subseteq Sessions /\ qpool' \in [DOMAIN qpool' -> PoolEntry]
      /\ PoolCounts(qpool', qreq, qconn')
    BY <1>2, EmptyPoolOK
<1> QED BY <1>4, <1>5, <1>6, SessionsStep

LEMMA JudgeKeeps ==
    ASSUME QueueIndInv, Judge PROVE QueueIndInv'
<1>1. PICK reaped : reaped = {c \in DOMAIN qpool : Reapable(c)}
    OBVIOUS
<1>2. qpool' = [c \in DOMAIN qpool \ reaped |-> qpool[c]] /\ qreq' = qreq /\ qleft' = qleft
      /\ qconn' = [c \in Sessions |-> IF c \in reaped /\ ~Ended(c) THEN "reaped" ELSE qconn[c]]
    BY <1>1 DEF Judge
<1>3. qconn \in [Sessions -> SessionState] /\ qleft \in QueueLoadType
      /\ PoolCounts(qpool, qreq, qconn)
    BY DEF QueueIndInv, QueueTypeOK, QueueSessionsInv
<1>4. ASSUME NEW q \in Queries, NEW c \in reaped PROVE ~(qreq[q].pc \in Streaming /\ qreq[q].conn = c)
    <2>1. c \in DOMAIN qpool /\ qpool[c].inUse = 0
        BY <1>1 DEF Reapable
    <2>2. Cardinality(Users(qreq, c)) = 0
        BY <1>3, <2>1 DEF PoolCounts
    <2>3. Users(qreq, c) = {}
        BY <2>2, UsersFinite
    <2> QED BY <2>3 DEF Users
<1>5. \A c \in Sessions : qconn'[c] = qconn[c] \/ (qconn[c] = "up" /\ qconn'[c] = "reaped" /\ c \in reaped)
    BY <1>2 DEF Ended
<1>6. qconn' \in [Sessions -> SessionState]
    BY <1>2, <1>3 DEF SessionState
<1>7. \A q \in Queries : \A c \in Sessions : SessionMay(qreq[q], qconn, qconn', c)
    BY <1>4, <1>5 DEF SessionMay
<1>8. DOMAIN qpool' \subseteq Sessions /\ qpool' \in [DOMAIN qpool' -> PoolEntry]
      /\ PoolCounts(qpool', qreq, qconn)
    BY <1>2, PartOfPool
<1>9. PoolCounts(qpool', qreq, qconn')
    BY <1>5, <1>8 DEF PoolCounts
<1> QED BY <1>2, <1>3, <1>6, <1>7, <1>8, <1>9, SessionsStep

LEMMA IdleTimeoutKeeps ==
    ASSUME QueueIndInv, NEW c \in Sessions, IdleTimeout(c) PROVE QueueIndInv'
<1>1. qconn' = qconn /\ qreq' = qreq /\ qleft' = qleft /\ c \in DOMAIN qpool
      /\ qpool' = [qpool EXCEPT ![c].idle = TRUE]
    BY DEF IdleTimeout
<1>2. qconn \in [Sessions -> SessionState] /\ qleft \in QueueLoadType
      /\ PoolCounts(qpool, qreq, qconn) /\ DOMAIN qpool \subseteq Sessions
      /\ qpool \in [DOMAIN qpool -> PoolEntry]
    BY DEF QueueIndInv, QueueTypeOK, QueueSessionsInv
<1>3. DOMAIN qpool' = DOMAIN qpool /\ qpool' \in [DOMAIN qpool' -> PoolEntry]
      /\ \A d \in DOMAIN qpool : qpool'[d].inUse = qpool[d].inUse
    BY <1>1, <1>2 DEF PoolEntry
<1>4. PoolCounts(qpool', qreq, qconn')
    BY <1>1, <1>2, <1>3 DEF PoolCounts
<1> QED BY <1>1, <1>2, <1>3, <1>4, SameConns, SessionsStep

LEMMA GrowDoneKeeps ==
    ASSUME QueueIndInv, GrowDone PROVE QueueIndInv'
<1>1. qreq' = qreq /\ qconn \in [Sessions -> SessionState] /\ qleft \in QueueLoadType
      /\ DOMAIN qpool \subseteq Sessions /\ qpool \in [DOMAIN qpool -> PoolEntry]
      /\ PoolCounts(qpool, qreq, qconn)
    BY DEF GrowDone, QueueIndInv, QueueTypeOK, QueueSessionsInv
<1>2. CASE QueueFails /\ UNCHANGED <<qconn, qpool>>
    <2>1. qleft' \in QueueLoadType /\ qleft'.rows = qleft.rows
        BY <1>2, FaultType DEF QueueIndInv
    <2> QED BY <1>1, <1>2, <2>1, SameConns, SessionsStep
<1>3. CASE Fresh # {} /\ qleft' = qleft /\ qconn' = [qconn EXCEPT ![Dialled] = "surplus"]
           /\ qpool' = qpool
    <2>1. "surplus" \in SessionState \ {"none"}
        BY DEF SessionState
    <2>2. /\ qconn' \in [Sessions -> SessionState]
          /\ \A q \in Queries : \A d \in Sessions : SessionMay(qreq[q], qconn, qconn', d)
          /\ PoolCounts(qpool', qreq, qconn')
        BY <1>3, <2>1, NewSession
    <2> QED BY <1>1, <1>3, <2>2, SessionsStep
<1>4. CASE Fresh # {} /\ qleft' = qleft /\ qconn' = [qconn EXCEPT ![Dialled] = "up"]
           /\ qpool' = PoolWith(Dialled)
    <2>1. "up" \in SessionState \ {"none"}
        BY DEF SessionState
    <2>2. /\ qconn' \in [Sessions -> SessionState]
          /\ \A q \in Queries : \A d \in Sessions : SessionMay(qreq[q], qconn, qconn', d)
          /\ PoolCounts(qpool', qreq, qconn')
          /\ DOMAIN qpool' \subseteq Sessions /\ qpool' \in [DOMAIN qpool' -> PoolEntry]
        BY <1>4, <2>1, NewSession
    <2> QED BY <1>1, <1>4, <2>2, SessionsStep
<1> QED BY <1>2, <1>3, <1>4 DEF GrowDone

LEMMA SupervisorKeeps ==
    ASSUME QueueIndInv, ProbeFails \/ QueueClose \/ SupervisorEnds \/ GrowBackoffEnds
    PROVE  QueueIndInv'
<1>1. qleft \in QueueLoadType /\ qconn \in [Sessions -> SessionState]
      /\ DOMAIN qpool \subseteq Sessions /\ qpool \in [DOMAIN qpool -> PoolEntry]
      /\ PoolCounts(qpool, qreq, qconn)
    BY DEF QueueIndInv, QueueTypeOK, QueueSessionsInv
<1>2. CASE ProbeFails
    <2>1. qleft' \in QueueLoadType /\ qleft'.rows = qleft.rows
        BY <1>2, FaultType DEF QueueIndInv, ProbeFails
    <2> QED BY <1>2, <2>1, DropKeeps DEF ProbeFails
<1>3. CASE SupervisorEnds
    BY <1>1, <1>3, DropKeeps DEF SupervisorEnds
<1>4. CASE QueueClose \/ GrowBackoffEnds
    <2>1. qconn' = qconn /\ qpool' = qpool /\ qreq' = qreq /\ qleft' = qleft
        BY <1>4 DEF QueueClose, GrowBackoffEnds
    <2> QED BY <1>1, <2>1, SameConns, SessionsStep
<1> QED BY <1>2, <1>3, <1>4

-----------------------------------------------------------------------------
\* The requests.
LEMMA QueueRequestStep ==
    ASSUME QueueIndInv, NEW q \in Queries, NEW r \in QueueRequest,
           qreq' = [qreq EXCEPT ![q] = r], qconn' = qconn,
           qleft' \in QueueLoadType, qleft'.rows = qleft.rows,
           RowsInv(r, qleft.rows), SessionInv(r, qconn),
           DOMAIN qpool' \subseteq Sessions, qpool' \in [DOMAIN qpool' -> PoolEntry],
           PoolCounts(qpool', qreq', qconn)
    PROVE  QueueIndInv'
<1> USE DEF QueueIndInv
<1>1. qreq \in [Queries -> QueueRequest]
    BY DEF QueueTypeOK
<1>2. qreq' \in [Queries -> QueueRequest] /\ qreq'[q] = r /\ \A p \in Queries : p # q => qreq'[p] = qreq[p]
    BY <1>1
<1>3. QueueTypeOK'
    BY <1>2 DEF QueueTypeOK
<1>4. QueueRowsInv'
    BY <1>2 DEF QueueRowsInv
<1>5. QueueSessionsInv'
    BY <1>2 DEF QueueSessionsInv
<1> QED BY <1>3, <1>4, <1>5

\* A step of a request that goes on using its session, or goes on not using one.
LEMMA QueueStreamStep ==
    ASSUME QueueIndInv, NEW q \in Queries, NEW r \in QueueRequest,
           qreq' = [qreq EXCEPT ![q] = r], StreamOnly,
           qleft' \in QueueLoadType, qleft'.rows = qleft.rows,
           r.pc \in Streaming <=> qreq[q].pc \in Streaming,
           r.pc \in Streaming => r.conn = qreq[q].conn,
           RowsInv(r, qleft.rows), SessionInv(r, qconn)
    PROVE  QueueIndInv'
<1>1. qconn' = qconn /\ qpool' = qpool
    BY DEF StreamOnly
<1>2. qreq \in [Queries -> QueueRequest] /\ PoolCounts(qpool, qreq, qconn)
      /\ DOMAIN qpool \subseteq Sessions /\ qpool \in [DOMAIN qpool -> PoolEntry]
    BY DEF QueueIndInv, QueueTypeOK, QueueSessionsInv
<1>3. qreq'[q] = r /\ \A p \in Queries : p # q => qreq'[p] = qreq[p]
    BY <1>2
<1>4. ASSUME NEW c PROVE Users(qreq', c) = Users(qreq, c)
    BY <1>3 DEF Users
<1>5. PoolCounts(qpool, qreq', qconn)
    BY <1>2, <1>4 DEF PoolCounts
<1> QED BY <1>1, <1>2, <1>5, QueueRequestStep

\* What is known of a request before a step.
LEMMA QueueRequestOK ==
    ASSUME QueueIndInv, NEW q \in Queries
    PROVE  /\ qreq[q] \in QueueRequest /\ RowsInv(qreq[q], qleft.rows) /\ SessionInv(qreq[q], qconn)
           /\ qleft \in QueueLoadType /\ qleft.rows \in Nat
BY DEF QueueIndInv, QueueTypeOK, QueueRowsInv, QueueSessionsInv, QueueLoadType

LEMMA StreamRowKeeps ==
    ASSUME QueueIndInv, NEW q \in Queries, StreamRow(q) PROVE QueueIndInv'
<1>1. PICK r : r = qreq[q]
    OBVIOUS
<1>2. r \in QueueRequest /\ RowsInv(r, qleft.rows) /\ SessionInv(r, qconn) /\ qleft \in QueueLoadType
    BY <1>1, QueueRequestOK
<1>3. PICK pc \in {"read", "flush"} : qreq' = [qreq EXCEPT ![q].row = r.row + 1,
          ![q].buf = Append(r.buf, r.row + 1), ![q].pc = pc]
    BY <1>1 DEF StreamRow
<1>4. PICK s : s = [r EXCEPT !.row = r.row + 1, !.buf = Append(r.buf, r.row + 1), !.pc = pc]
    OBVIOUS
<1>5. r.pc = "read" /\ StreamOnly /\ qleft' = qleft
    BY <1>1 DEF StreamRow
<1>6. qreq' = [qreq EXCEPT ![q] = s]
    BY <1>1, <1>3, <1>4
<1>7. r.row \in Nat /\ r.buf \in Chunk /\ r.chunks \in Seq(Chunk) /\ r.got \in Chunk
    BY <1>2 DEF QueueRequest
<1>8. s \in QueueRequest
    <2>1. Append(r.buf, r.row + 1) \in Chunk /\ r.row + 1 \in Nat
        BY <1>7 DEF Chunk
    <2> QED BY <1>2, <1>4, <2>1 DEF QueueRequest, Streaming
<1>9. RowsInv(s, qleft.rows)
    <2>1. ASSUME ~r.err, r.daemon # "freed"
          PROVE  Contiguous(r.got, r.chunks, Append(r.buf, r.row + 1), r.row + 1)
        <3>1. Contiguous(r.got, r.chunks, r.buf, r.row)
            BY <1>2, <2>1 DEF RowsInv
        <3> QED BY <1>7, <3>1, ContiguousRow
    <2> QED BY <1>2, <1>4, <1>5, <2>1 DEF RowsInv, QueueRequest
<1>10. SessionInv(s, qconn) /\ s.pc \in Streaming /\ r.pc \in Streaming /\ s.conn = r.conn
    BY <1>2, <1>4, <1>5 DEF SessionInv, Streaming, QueueRequest
<1> QED BY <1>1, <1>2, <1>5, <1>6, <1>8, <1>9, <1>10, QueueStreamStep

LEMMA StreamEndKeeps ==
    ASSUME QueueIndInv, NEW q \in Queries, StreamEnd(q) PROVE QueueIndInv'
<1>1. PICK r : r = qreq[q]
    OBVIOUS
<1>2. r \in QueueRequest /\ RowsInv(r, qleft.rows) /\ SessionInv(r, qconn) /\ qleft \in QueueLoadType
    BY <1>1, QueueRequestOK
<1>3. r.pc = "read" /\ (r.row = qleft.rows \/ Cancelled(q)) /\ StreamOnly /\ qleft' = qleft
    BY <1>1 DEF StreamEnd
<1>4. r.conn \in Sessions /\ qconn[r.conn] \in {"up", "died", "dropped"} /\ r.err \in BOOLEAN
    BY <1>2, <1>3 DEF SessionInv, Streaming, QueueRequest
<1>5. CASE EndedWell(q) /\ r.daemon # "freed"
    <2>1. PICK s : s = [r EXCEPT !.pc = "last"]
        OBVIOUS
    <2>2. qreq' = [qreq EXCEPT ![q] = s]
        BY <1>1, <1>5, <2>1 DEF StreamEnd
    <2>3. r.row = qleft.rows
        BY <1>1, <1>3, <1>5 DEF EndedWell, Cancelled
    <2>4. s \in QueueRequest
        BY <1>2, <2>1 DEF QueueRequest, Streaming
    <2>5. RowsInv(s, qleft.rows)
        BY <1>2, <1>3, <2>1, <2>3 DEF RowsInv, QueueRequest
    <2>6. SessionInv(s, qconn) /\ s.pc \in Streaming /\ r.pc \in Streaming /\ s.conn = r.conn
        BY <1>2, <1>3, <2>1 DEF SessionInv, Streaming, QueueRequest
    <2> QED BY <1>1, <1>2, <1>3, <2>2, <2>4, <2>5, <2>6, QueueStreamStep
<1>6. CASE ~(EndedWell(q) /\ r.daemon # "freed")
    <2>1. PICK s : s = [r EXCEPT !.err = TRUE, !.pc = "finish"]
        OBVIOUS
    <2>2. qreq' = [qreq EXCEPT ![q] = s]
        BY <1>1, <1>6, <2>1 DEF StreamEnd, RequestFails
    <2>3. r.daemon # "freed" => Lost(qconn, r.conn)
        BY <1>1, <1>4, <1>6 DEF EndedWell, Ended, Lost
    <2>4. s \in QueueRequest
        BY <1>2, <2>1 DEF QueueRequest, Streaming
    <2>5. RowsInv(s, qleft.rows)
        BY <1>2, <1>3, <2>1 DEF RowsInv, QueueRequest
    <2>6. SessionInv(s, qconn) /\ s.pc \in Streaming /\ r.pc \in Streaming /\ s.conn = r.conn
        BY <1>2, <1>3, <2>1, <2>3 DEF SessionInv, Streaming, QueueRequest
    <2> QED BY <1>1, <1>2, <1>3, <2>2, <2>4, <2>5, <2>6, QueueStreamStep
<1> QED BY <1>5, <1>6

LEMMA StreamRefusedKeeps ==
    ASSUME QueueIndInv, NEW q \in Queries, StreamRefused(q) PROVE QueueIndInv'
<1>1. PICK r : r = qreq[q]
    OBVIOUS
<1>2. r \in QueueRequest /\ RowsInv(r, qleft.rows) /\ SessionInv(r, qconn) /\ qleft \in QueueLoadType
    BY <1>1, QueueRequestOK
<1>3. r.pc = "read" /\ StreamOnly /\ QueueFails
    BY <1>1 DEF StreamRefused
<1>4. PICK s : s = [r EXCEPT !.err = TRUE, !.pc = "finish", !.refused = TRUE]
    OBVIOUS
<1>5. qreq' = [qreq EXCEPT ![q] = s]
    BY <1>1, <1>4 DEF StreamRefused, RequestFails
<1>6. qleft' \in QueueLoadType /\ qleft'.rows = qleft.rows
    BY <1>2, <1>3, FaultType DEF QueueIndInv
<1>7. s \in QueueRequest
    BY <1>2, <1>4 DEF QueueRequest, Streaming
<1>8. RowsInv(s, qleft.rows)
    BY <1>2, <1>3, <1>4 DEF RowsInv, QueueRequest
<1>9. SessionInv(s, qconn) /\ s.pc \in Streaming /\ r.pc \in Streaming /\ s.conn = r.conn
    BY <1>2, <1>3, <1>4 DEF SessionInv, Streaming, QueueRequest
<1> QED BY <1>1, <1>2, <1>3, <1>5, <1>6, <1>7, <1>8, <1>9, QueueStreamStep

LEMMA FlushChunkKeeps ==
    ASSUME QueueIndInv, NEW q \in Queries, FlushChunk(q) PROVE QueueIndInv'
<1>1. PICK r : r = qreq[q]
    OBVIOUS
<1>2. r \in QueueRequest /\ RowsInv(r, qleft.rows) /\ SessionInv(r, qconn) /\ qleft \in QueueLoadType
    BY <1>1, QueueRequestOK
<1>3. r.pc \in {"flush", "last"} /\ StreamOnly /\ qleft' = qleft
    BY <1>1 DEF FlushChunk
<1>4. PICK next : next = IF r.pc = "last" THEN "finish" ELSE "read"
    OBVIOUS
<1>5. r.row \in Nat /\ r.buf \in Chunk /\ r.chunks \in Seq(Chunk) /\ r.got \in Chunk
    BY <1>2 DEF QueueRequest
<1>6. CASE r.buf = <<>> /\ qreq' = [qreq EXCEPT ![q].pc = next]
    <2>1. PICK s : s = [r EXCEPT !.pc = next]
        OBVIOUS
    <2>2. qreq' = [qreq EXCEPT ![q] = s]
        BY <1>1, <1>6, <2>1
    <2>3. s \in QueueRequest
        BY <1>2, <1>4, <2>1 DEF QueueRequest, Streaming
    <2>4. RowsInv(s, qleft.rows)
        BY <1>2, <1>3, <1>4, <1>6, <2>1 DEF RowsInv, QueueRequest
    <2>5. SessionInv(s, qconn) /\ s.pc \in Streaming /\ r.pc \in Streaming /\ s.conn = r.conn
        BY <1>2, <1>3, <1>4, <2>1 DEF SessionInv, Streaming, QueueRequest
    <2> QED BY <1>1, <1>2, <1>3, <2>2, <2>3, <2>4, <2>5, QueueStreamStep
<1>7. CASE r.via = "fd" /\ qreq' = [qreq EXCEPT ![q] = [WriteChunk(r) EXCEPT !.pc = next]]
    <2>1. PICK s : s = [r EXCEPT !.got = r.got \o r.buf, !.buf = <<>>, !.pc = next]
        OBVIOUS
    <2>2. qreq' = [qreq EXCEPT ![q] = s]
        BY <1>2, <1>7, <2>1 DEF WriteChunk, QueueRequest
    <2>3. r.got \o r.buf \in Chunk /\ <<>> \in Chunk
        BY <1>5 DEF Chunk
    <2>4. s \in QueueRequest
        BY <1>2, <1>4, <2>1, <2>3 DEF QueueRequest, Streaming
    <2>5. r.chunks = <<>>
        BY <1>2, <1>7 DEF RowsInv
    <2>6. ASSUME ~r.err, r.daemon # "freed" PROVE Contiguous(r.got \o r.buf, <<>>, <<>>, r.row)
        <3>1. Contiguous(r.got, <<>>, r.buf, r.row)
            BY <1>2, <2>5, <2>6 DEF RowsInv
        <3> QED BY <1>5, <3>1, ContiguousWrite
    <2>7. RowsInv(s, qleft.rows)
        BY <1>2, <1>3, <1>4, <2>1, <2>5, <2>6 DEF RowsInv, QueueRequest
    <2>8. SessionInv(s, qconn) /\ s.pc \in Streaming /\ r.pc \in Streaming /\ s.conn = r.conn
        BY <1>2, <1>3, <1>4, <2>1 DEF SessionInv, Streaming, QueueRequest
    <2> QED BY <1>1, <1>2, <1>3, <2>2, <2>4, <2>7, <2>8, QueueStreamStep
<1>8. CASE /\ r.via = "chunks"
           /\ qreq' = [qreq EXCEPT
                    ![q].chunks = IF r.daemon = "freed" THEN @ ELSE Append(@, r.buf),
                    ![q].buf = <<>>, ![q].pc = IF r.pc = "last" THEN "notify_last" ELSE "notify"]
    <2>1. PICK pc : pc = IF r.pc = "last" THEN "notify_last" ELSE "notify"
        OBVIOUS
    <2>2. PICK chunks : chunks = IF r.daemon = "freed" THEN r.chunks ELSE Append(r.chunks, r.buf)
        OBVIOUS
    <2>3. PICK s : s = [r EXCEPT !.chunks = chunks, !.buf = <<>>, !.pc = pc]
        OBVIOUS
    <2>4. qreq' = [qreq EXCEPT ![q] = s]
        BY <1>1, <1>8, <2>1, <2>2, <2>3
    <2>5. chunks \in Seq(Chunk) /\ <<>> \in Chunk
        BY <1>5, <2>2 DEF Chunk
    <2>6. s \in QueueRequest
        BY <1>2, <2>1, <2>3, <2>5 DEF QueueRequest, Streaming
    <2>7. ASSUME ~r.err, r.daemon # "freed" PROVE Contiguous(r.got, chunks, <<>>, r.row)
        <3>1. Contiguous(r.got, r.chunks, r.buf, r.row)
            BY <1>2, <2>7 DEF RowsInv
        <3> QED BY <1>5, <2>2, <2>7, <3>1, ContiguousFlush
    <2>8. RowsInv(s, qleft.rows)
        BY <1>2, <1>3, <1>8, <2>1, <2>3, <2>7 DEF RowsInv, QueueRequest
    <2>9. SessionInv(s, qconn) /\ s.pc \in Streaming /\ r.pc \in Streaming /\ s.conn = r.conn
        BY <1>2, <1>3, <2>1, <2>3 DEF SessionInv, Streaming, QueueRequest
    <2> QED BY <1>1, <1>2, <1>3, <2>4, <2>6, <2>8, <2>9, QueueStreamStep
<1> QED BY <1>1, <1>4, <1>6, <1>7, <1>8 DEF FlushChunk

LEMMA FlushFailsKeeps ==
    ASSUME QueueIndInv, NEW q \in Queries, FlushFails(q), "last_flush" \notin QueueFaults
    PROVE  QueueIndInv'
<1>1. PICK r : r = qreq[q]
    OBVIOUS
<1>2. r \in QueueRequest /\ RowsInv(r, qleft.rows) /\ SessionInv(r, qconn) /\ qleft \in QueueLoadType
    BY <1>1, QueueRequestOK
<1>3. r.pc \in {"flush", "last"} /\ StreamOnly /\ (r.pc = "last" => r.daemon = "freed")
    BY <1>1 DEF FlushFails
<1>4. PICK left \in (IF r.via = "fd" THEN {"failed", "dirty"} ELSE {"clean"}) :
         qreq' = [qreq EXCEPT ![q].pc = "finish", ![q].buf = <<>>, ![q].socket = left,
                              ![q].err = @ \/ r.pc = "flush"]
    BY <1>1 DEF FlushFails
<1>5. qleft' \in QueueLoadType /\ qleft'.rows = qleft.rows
    BY <1>1, <1>2, FaultType DEF FlushFails, QueueIndInv
<1>6. r.via = "chunks" => Cancelled(q)
    BY <1>1 DEF FlushFails
<1>7. PICK err : err = (r.err \/ r.pc = "flush")
    OBVIOUS
<1>8. PICK s : s = [r EXCEPT !.pc = "finish", !.buf = <<>>, !.socket = left, !.err = err]
    OBVIOUS
<1>9. qreq' = [qreq EXCEPT ![q] = s]
    BY <1>1, <1>4, <1>7, <1>8
<1>10. err \in BOOLEAN /\ <<>> \in Chunk /\ left \in {"clean", "failed", "dirty"}
    BY <1>2, <1>4, <1>7 DEF QueueRequest, Chunk
<1>11. s \in QueueRequest
    BY <1>2, <1>8, <1>10 DEF QueueRequest, Streaming
<1>12. r.daemon # "freed" => err = TRUE
    BY <1>3, <1>7, <1>10
<1>13. RowsInv(s, qleft.rows)
    <2>1. /\ s.pc = "finish" /\ s.err = err /\ s.answer = r.answer /\ s.daemon = r.daemon
          /\ s.closing = r.closing /\ s.closed = r.closed /\ s.via = r.via /\ s.chunks = r.chunks
        BY <1>2, <1>8 DEF QueueRequest
    <2>2. r.answer # "done"
        BY <1>2, <1>3 DEF RowsInv
    <2> QED BY <1>2, <1>3, <1>12, <2>1, <2>2 DEF RowsInv
<1>14. SessionInv(s, qconn)
    <2>1. s.pc = "finish" /\ s.err = err /\ s.answer = r.answer /\ s.daemon = r.daemon
          /\ s.conn = r.conn /\ s.socket = left
        BY <1>2, <1>8 DEF QueueRequest
    <2>2. r.conn \in Sessions /\ qconn[r.conn] \in {"up", "died", "dropped"}
        BY <1>2, <1>3 DEF SessionInv, Streaming
    <2>3. r.daemon # "freed" => Lost(qconn, r.conn) \/ left # "clean"
        <3>1. CASE r.via = "fd"
            BY <1>4, <3>1
        <3>2. CASE r.via = "chunks"
            BY <1>1, <1>6, <2>2, <3>2 DEF Cancelled, Ended, Lost
        <3> QED BY <1>2, <3>1, <3>2 DEF QueueRequest
    <2>4. r.answer = "error" => r.err /\ r.daemon = "answered"
        BY <1>2 DEF SessionInv
    <2> QED BY <1>7, <2>1, <2>2, <2>3, <2>4 DEF SessionInv, Streaming
<1>15. s.pc \in Streaming /\ r.pc \in Streaming /\ s.conn = r.conn
    BY <1>2, <1>3, <1>8 DEF Streaming, QueueRequest
<1> QED BY <1>1, <1>2, <1>3, <1>5, <1>9, <1>11, <1>13, <1>14, <1>15, QueueStreamStep

LEMMA NotifyKeeps ==
    ASSUME QueueIndInv, NEW q \in Queries, Notify(q) PROVE QueueIndInv'
<1>1. PICK r : r = qreq[q]
    OBVIOUS
<1>2. r \in QueueRequest /\ RowsInv(r, qleft.rows) /\ SessionInv(r, qconn) /\ qleft \in QueueLoadType
    BY <1>1, QueueRequestOK
<1>3. r.pc \in {"notify", "notify_last"} /\ StreamOnly /\ qleft' = qleft
    BY <1>1 DEF Notify
<1>4. PICK s : s = [r EXCEPT !.token = r.token + 1, !.pc = IF r.pc = "notify" THEN "read" ELSE "finish"]
    OBVIOUS
<1>5. qreq' = [qreq EXCEPT ![q] = s]
    BY <1>1, <1>4 DEF Notify
<1>6. s \in QueueRequest
    <2>1. r.token + 1 \in Int
        BY <1>2 DEF QueueRequest
    <2> QED BY <1>2, <1>4, <2>1 DEF QueueRequest, Streaming
<1>7. RowsInv(s, qleft.rows)
    BY <1>2, <1>3, <1>4 DEF RowsInv, QueueRequest
<1>8. SessionInv(s, qconn) /\ s.pc \in Streaming /\ r.pc \in Streaming /\ s.conn = r.conn
    BY <1>2, <1>3, <1>4 DEF SessionInv, Streaming, QueueRequest
<1> QED BY <1>1, <1>2, <1>3, <1>5, <1>6, <1>7, <1>8, QueueStreamStep

LEMMA QueryReleaseKeeps ==
    ASSUME QueueIndInv, NEW q \in Queries, QueryRelease(q) PROVE QueueIndInv'
<1>1. PICK r : r = qreq[q]
    OBVIOUS
<1>2. r \in QueueRequest /\ RowsInv(r, qleft.rows) /\ SessionInv(r, qconn) /\ qleft \in QueueLoadType
    BY <1>1, QueueRequestOK
<1>3. r.pc = "finish" /\ qpool' = Released(r.conn) /\ qconn' = qconn /\ qleft' = qleft
    BY <1>1 DEF QueryRelease
<1>4. PICK s : s = [r EXCEPT !.pc = "store", !.closing = TRUE]
    OBVIOUS
<1>5. qreq' = [qreq EXCEPT ![q] = s]
    BY <1>1, <1>4 DEF QueryRelease
<1>6. s \in QueueRequest
    BY <1>2, <1>4 DEF QueueRequest
<1>7. RowsInv(s, qleft.rows)
    BY <1>2, <1>3, <1>4 DEF RowsInv, QueueRequest
<1>8. SessionInv(s, qconn) /\ s.pc \notin Streaming /\ r.pc \in Streaming
    BY <1>2, <1>3, <1>4 DEF SessionInv, Streaming, QueueRequest
<1>9. qreq \in [Queries -> QueueRequest] /\ PoolCounts(qpool, qreq, qconn)
      /\ DOMAIN qpool \subseteq Sessions /\ qpool \in [DOMAIN qpool -> PoolEntry]
    BY DEF QueueIndInv, QueueTypeOK, QueueSessionsInv
<1>10. qreq'[q] = s /\ \A p \in Queries : p # q => qreq'[p] = qreq[p]
    BY <1>5, <1>9
<1>11. PICK c : c = r.conn
    OBVIOUS
<1>12. q \in Users(qreq, c) /\ Users(qreq', c) = Users(qreq, c) \ {q}
    BY <1>1, <1>8, <1>10, <1>11 DEF Users
<1>13. Cardinality(Users(qreq', c)) = Cardinality(Users(qreq, c)) - 1
    BY <1>12, UsersFinite, FS_RemoveElement
<1>14. \A d : d # c => Users(qreq', d) = Users(qreq, d)
    BY <1>1, <1>8, <1>10, <1>11 DEF Users
<1>15. DOMAIN qpool' = DOMAIN qpool /\ qpool' \in [DOMAIN qpool' -> PoolEntry]
       /\ \A d \in DOMAIN qpool : qpool'[d].inUse = IF d = c THEN qpool[d].inUse - 1 ELSE qpool[d].inUse
    <2>1. qpool' = [d \in DOMAIN qpool |-> IF d = c THEN [qpool[d] EXCEPT !.inUse = @ - 1] ELSE qpool[d]]
        BY <1>3, <1>11 DEF Released
    <2>2. \A d \in DOMAIN qpool : qpool[d] \in PoolEntry
        BY <1>9
    <2>3. \A d \in DOMAIN qpool : [qpool[d] EXCEPT !.inUse = @ - 1] \in PoolEntry
            /\ [qpool[d] EXCEPT !.inUse = @ - 1].inUse = qpool[d].inUse - 1
        BY <2>2 DEF PoolEntry
    <2> QED BY <1>9, <2>1, <2>3
<1>16. ASSUME NEW d \in DOMAIN qpool
       PROVE  qconn[d] # "none" /\ qpool'[d].inUse = Cardinality(Users(qreq', d))
    <2>1. qconn[d] # "none" /\ qpool[d].inUse = Cardinality(Users(qreq, d))
        BY <1>9 DEF PoolCounts
    <2>2. CASE d = c
        BY <1>13, <1>15, <2>1, <2>2
    <2>3. CASE d # c
        BY <1>14, <1>15, <2>1, <2>3
    <2> QED BY <2>1, <2>2, <2>3
<1>17. PoolCounts(qpool', qreq', qconn)
    BY <1>15, <1>16 DEF PoolCounts
<1> QED BY <1>2, <1>3, <1>5, <1>6, <1>7, <1>8, <1>9, <1>15, <1>17, QueueRequestStep

LEMMA NotBegunOK ==
    ASSUME NEW rows, NEW conns
    PROVE  NotBegun \in QueueRequest /\ RowsInv(NotBegun, rows) /\ SessionInv(NotBegun, conns)
<1>1. NotBegun \in QueueRequest
    <2>1. <<>> \in Chunk /\ <<>> \in Seq(Chunk)
        BY DEF Chunk
    <2> QED BY <2>1 DEF NotBegun, QueueRequest
<1>2. RowsInv(NotBegun, rows)
    <2>1. PICK r : r = NotBegun
        OBVIOUS
    <2>2. /\ r.pc = "none" /\ r.answer = "none" /\ r.daemon = "idle" /\ r.err = FALSE
          /\ r.closing = FALSE /\ r.closed = FALSE /\ r.chunks = <<>> /\ r.got = <<>>
          /\ r.buf = <<>> /\ r.row = 0
        BY <2>1 DEF NotBegun
    <2>3. Contiguous(r.got, r.chunks, r.buf, r.row)
        BY <2>2, ContiguousNone
    <2>4. RowsInv(r, rows)
        BY <2>2, <2>3 DEF RowsInv
    <2> QED BY <2>1, <2>4
<1>3. SessionInv(NotBegun, conns)
    BY DEF NotBegun, SessionInv, Streaming
<1> QED BY <1>1, <1>2, <1>3

LEMMA QueryClosedKeeps ==
    ASSUME QueueIndInv, NEW q \in Queries, QueryClosed(q), "late_check" \notin QueueFaults
    PROVE  QueueIndInv'
<1>1. PICK r : r = qreq[q]
    OBVIOUS
<1>2. r \in QueueRequest /\ RowsInv(r, qleft.rows) /\ SessionInv(r, qconn) /\ qleft \in QueueLoadType
    BY <1>1, QueueRequestOK
<1>3. r.pc = "store" /\ r.daemon # "checks" /\ StreamOnly /\ qleft' = qleft
    BY <1>1 DEF QueryClosed
<1>4. CASE r.daemon = "freed"
    <2>1. qreq' = [qreq EXCEPT ![q] = NotBegun]
        BY <1>1, <1>4 DEF QueryClosed
    <2>2. NotBegun.pc \notin Streaming /\ r.pc \notin Streaming
        BY <1>3 DEF NotBegun, Streaming
    <2> QED BY <1>1, <1>2, <1>3, <2>1, <2>2, NotBegunOK, QueueStreamStep
<1>5. CASE r.daemon # "freed"
    <2>1. PICK s : s = [r EXCEPT !.pc = "done", !.closed = TRUE, !.token = r.token + 1]
        OBVIOUS
    <2>2. qreq' = [qreq EXCEPT ![q] = s]
        BY <1>1, <1>5, <2>1 DEF QueryClosed
    <2>3. s \in QueueRequest
        <3>1. r.token + 1 \in Int
            BY <1>2 DEF QueueRequest
        <3> QED BY <1>2, <2>1, <3>1 DEF QueueRequest
    <2>4. RowsInv(s, qleft.rows)
        BY <1>2, <1>3, <2>1 DEF RowsInv, QueueRequest
    <2>5. SessionInv(s, qconn) /\ s.pc \notin Streaming /\ r.pc \notin Streaming
        BY <1>2, <1>3, <2>1 DEF SessionInv, Streaming, QueueRequest
    <2> QED BY <1>1, <1>2, <1>3, <2>2, <2>3, <2>4, <2>5, QueueStreamStep
<1> QED BY <1>4, <1>5

\* The daemon's calls leave the stream where it is.
LEMMA QueueDaemonStep ==
    ASSUME QueueIndInv, NEW q \in Queries, NEW r, r = qreq[q], NEW s \in QueueRequest,
           qreq' = [qreq EXCEPT ![q] = s], StreamOnly, qleft' = qleft,
           s.pc = r.pc, s.conn = r.conn, RowsInv(s, qleft.rows), SessionInv(s, qconn)
    PROVE  QueueIndInv'
<1>1. qleft \in QueueLoadType
    BY QueueRequestOK
<1> QED BY <1>1, QueueStreamStep

LEMMA NextChunkKeeps ==
    ASSUME QueueIndInv, NEW q \in Queries, NextChunk(q) PROVE QueueIndInv'
<1>1. PICK r : r = qreq[q]
    OBVIOUS
<1>2. r \in QueueRequest /\ RowsInv(r, qleft.rows) /\ SessionInv(r, qconn)
    BY <1>1, QueueRequestOK
<1>3. r.via = "chunks" /\ r.daemon = "idle" /\ r.pc # "none" /\ StreamOnly /\ qleft' = qleft
    BY <1>1 DEF NextChunk
<1>4. r.row \in Nat /\ r.buf \in Chunk /\ r.chunks \in Seq(Chunk) /\ r.got \in Chunk /\ r.err \in BOOLEAN
    BY <1>2 DEF QueueRequest
<1>5. CASE r.chunks # <<>>
    <2>1. PICK s : s = [r EXCEPT !.got = r.got \o Head(r.chunks), !.chunks = Tail(r.chunks)]
        OBVIOUS
    <2>2. qreq' = [qreq EXCEPT ![q] = s]
        BY <1>1, <1>5, <2>1 DEF NextChunk
    <2>3. r.got \o Head(r.chunks) \in Chunk /\ Tail(r.chunks) \in Seq(Chunk)
        <3>1. Head(r.chunks) \in Chunk /\ Tail(r.chunks) \in Seq(Chunk)
            BY <1>4, <1>5
        <3> QED BY <1>4, <3>1 DEF Chunk
    <2>4. s \in QueueRequest
        BY <1>2, <2>1, <2>3 DEF QueueRequest
    <2>5. ASSUME ~r.err PROVE Contiguous(r.got \o Head(r.chunks), Tail(r.chunks), r.buf, r.row)
        <3>1. Contiguous(r.got, r.chunks, r.buf, r.row)
            BY <1>2, <1>3, <2>5 DEF RowsInv
        <3> QED BY <1>4, <1>5, <3>1, ContiguousTake
    <2>6. RowsInv(s, qleft.rows)
        BY <1>2, <1>3, <1>5, <2>1, <2>5 DEF RowsInv, QueueRequest
    <2>7. SessionInv(s, qconn) /\ s.pc = r.pc /\ s.conn = r.conn
        BY <1>2, <2>1 DEF SessionInv, QueueRequest
    <2> QED BY <1>1, <1>3, <2>2, <2>4, <2>6, <2>7, QueueDaemonStep
<1>6. CASE r.chunks = <<>> /\ r.closing
    <2>1. PICK answer : answer = IF r.err THEN "error" ELSE "done"
        OBVIOUS
    <2>2. PICK s : s = [r EXCEPT !.answer = answer, !.daemon = "answered"]
        OBVIOUS
    <2>3. qreq' = [qreq EXCEPT ![q] = s]
        BY <1>1, <1>6, <2>1, <2>2 DEF NextChunk, Answer
    <2>4. s \in QueueRequest
        BY <1>2, <2>1, <2>2 DEF QueueRequest
    <2>5. RowsInv(s, qleft.rows)
        BY <1>2, <1>3, <1>6, <2>1, <2>2 DEF RowsInv, QueueRequest
    <2>6. SessionInv(s, qconn) /\ s.pc = r.pc /\ s.conn = r.conn
        BY <1>2, <1>3, <2>1, <2>2 DEF SessionInv, QueueRequest
    <2> QED BY <1>1, <1>3, <2>3, <2>4, <2>5, <2>6, QueueDaemonStep
<1>7. CASE r.chunks = <<>> /\ ~r.closing
    <2>1. PICK s : s = [r EXCEPT !.daemon = "checks"]
        OBVIOUS
    <2>2. qreq' = [qreq EXCEPT ![q] = s]
        BY <1>1, <1>7, <2>1 DEF NextChunk
    <2>3. s \in QueueRequest
        BY <1>2, <2>1 DEF QueueRequest
    <2>4. RowsInv(s, qleft.rows)
        BY <1>2, <1>3, <1>7, <2>1 DEF RowsInv, QueueRequest
    <2>5. SessionInv(s, qconn) /\ s.pc = r.pc /\ s.conn = r.conn
        BY <1>2, <1>3, <2>1 DEF SessionInv, QueueRequest
    <2> QED BY <1>1, <1>3, <2>2, <2>3, <2>4, <2>5, QueueDaemonStep
<1> QED BY <1>5, <1>6, <1>7

LEMMA CheckClosedKeeps ==
    ASSUME QueueIndInv, NEW q \in Queries, CheckClosed(q) PROVE QueueIndInv'
<1>1. PICK r : r = qreq[q]
    OBVIOUS
<1>2. r \in QueueRequest /\ RowsInv(r, qleft.rows) /\ SessionInv(r, qconn)
    BY <1>1, QueueRequestOK
<1>3. r.daemon = "checks" /\ StreamOnly /\ qleft' = qleft
    BY <1>1 DEF CheckClosed
<1>4. ~r.closed
    BY <1>2, <1>3 DEF RowsInv
<1>5. PICK s : s = [r EXCEPT !.daemon = "waits"]
    OBVIOUS
<1>6. qreq' = [qreq EXCEPT ![q] = s]
    BY <1>1, <1>4, <1>5 DEF CheckClosed
<1>7. s \in QueueRequest
    BY <1>2, <1>5 DEF QueueRequest
<1>8. RowsInv(s, qleft.rows)
    BY <1>2, <1>3, <1>5 DEF RowsInv, QueueRequest
<1>9. SessionInv(s, qconn) /\ s.pc = r.pc /\ s.conn = r.conn
    BY <1>2, <1>3, <1>5 DEF SessionInv, QueueRequest
<1> QED BY <1>1, <1>3, <1>6, <1>7, <1>8, <1>9, QueueDaemonStep

LEMMA NotifiedKeeps ==
    ASSUME QueueIndInv, NEW q \in Queries, Notified(q) PROVE QueueIndInv'
<1>1. PICK r : r = qreq[q]
    OBVIOUS
<1>2. r \in QueueRequest /\ RowsInv(r, qleft.rows) /\ SessionInv(r, qconn)
    BY <1>1, QueueRequestOK
<1>3. r.daemon = "waits" /\ StreamOnly /\ qleft' = qleft
    BY <1>1 DEF Notified
<1>4. PICK s : s = [r EXCEPT !.token = r.token - 1, !.daemon = "idle"]
    OBVIOUS
<1>5. qreq' = [qreq EXCEPT ![q] = s]
    BY <1>1, <1>4 DEF Notified
<1>6. s \in QueueRequest
    <2>1. r.token - 1 \in Int
        BY <1>2 DEF QueueRequest
    <2> QED BY <1>2, <1>4, <2>1 DEF QueueRequest
<1>7. RowsInv(s, qleft.rows)
    BY <1>2, <1>3, <1>4 DEF RowsInv, QueueRequest
<1>8. SessionInv(s, qconn) /\ s.pc = r.pc /\ s.conn = r.conn
    BY <1>2, <1>3, <1>4 DEF SessionInv, QueueRequest
<1> QED BY <1>1, <1>3, <1>5, <1>6, <1>7, <1>8, QueueDaemonStep

LEMMA QueueResultKeeps ==
    ASSUME QueueIndInv, NEW q \in Queries, QueueResult(q) PROVE QueueIndInv'
<1>1. PICK r : r = qreq[q]
    OBVIOUS
<1>2. r \in QueueRequest /\ RowsInv(r, qleft.rows) /\ SessionInv(r, qconn)
    BY <1>1, QueueRequestOK
<1>3. r.via = "fd" /\ r.daemon = "idle" /\ r.closed /\ StreamOnly /\ qleft' = qleft
    BY <1>1 DEF QueueResult
<1>4. PICK answer : answer = IF r.err THEN "error" ELSE "done"
    OBVIOUS
<1>5. PICK s : s = [r EXCEPT !.answer = answer, !.daemon = "answered"]
    OBVIOUS
<1>6. qreq' = [qreq EXCEPT ![q] = s]
    BY <1>1, <1>4, <1>5 DEF QueueResult, Answer
<1>7. s \in QueueRequest
    BY <1>2, <1>4, <1>5 DEF QueueRequest
<1>8. RowsInv(s, qleft.rows)
    BY <1>2, <1>3, <1>4, <1>5 DEF RowsInv, QueueRequest
<1>9. SessionInv(s, qconn) /\ s.pc = r.pc /\ s.conn = r.conn
    BY <1>2, <1>3, <1>4, <1>5 DEF SessionInv, QueueRequest
<1> QED BY <1>1, <1>3, <1>6, <1>7, <1>8, <1>9, QueueDaemonStep

LEMMA QueueFreeKeeps ==
    ASSUME QueueIndInv, NEW q \in Queries, QueueFree(q) PROVE QueueIndInv'
<1>1. PICK r : r = qreq[q]
    OBVIOUS
<1>2. r \in QueueRequest /\ RowsInv(r, qleft.rows) /\ SessionInv(r, qconn) /\ qleft \in QueueLoadType
    BY <1>1, QueueRequestOK
<1>3. r.pc # "none" /\ StreamOnly /\ qleft' = qleft
    BY <1>1 DEF QueueFree
<1>4. CASE r.closed
    <2>1. qreq' = [qreq EXCEPT ![q] = NotBegun]
        BY <1>1, <1>4 DEF QueueFree
    <2>2. NotBegun.pc \notin Streaming /\ r.pc \notin Streaming
        BY <1>2, <1>4 DEF NotBegun, Streaming, RowsInv
    <2> QED BY <1>1, <1>2, <1>3, <2>1, <2>2, NotBegunOK, QueueStreamStep
<1>5. CASE ~r.closed
    <2>1. PICK s : s = [r EXCEPT !.daemon = "freed", !.chunks = <<>>, !.answer = "none"]
        OBVIOUS
    <2>2. qreq' = [qreq EXCEPT ![q] = s]
        BY <1>1, <1>5, <2>1 DEF QueueFree
    <2>3. s \in QueueRequest
        <3>1. <<>> \in Seq(Chunk)
            OBVIOUS
        <3> QED BY <1>2, <2>1, <3>1 DEF QueueRequest
    <2>4. RowsInv(s, qleft.rows)
        BY <1>2, <1>3, <2>1 DEF RowsInv, QueueRequest
    <2>5. SessionInv(s, qconn) /\ s.pc = r.pc /\ s.conn = r.conn
        BY <1>2, <2>1 DEF SessionInv, QueueRequest
    <2> QED BY <1>1, <1>3, <2>2, <2>3, <2>4, <2>5, QueueDaemonStep
<1> QED BY <1>4, <1>5

\* acquire picks a session of the pool that is up.
LEMMA BestIn ==
    ASSUME NEW pool, DOMAIN pool \subseteq Sessions, DOMAIN pool # {},
           \A c \in DOMAIN pool : pool[c].inUse \in Nat
    PROVE  Best(pool) \in DOMAIN pool
<1>1. Sessions \subseteq Nat
    BY MaxSessionAssumption DEF Sessions
<1> DEFINE U == {pool[c].inUse : c \in DOMAIN pool}
<1>2. U \in SUBSET Nat /\ U # {}
    OBVIOUS
<1> HIDE DEF U
<1>3. PICK u \in U : \A v \in U : u <= v
    BY <1>2, LeastNat
<1> DEFINE S == {c \in DOMAIN pool : pool[c].inUse = u}
<1>4. S \in SUBSET Nat /\ S # {}
    BY <1>1, <1>3 DEF U
<1>5. PICK c \in S : \A d \in S : c <= d
    BY <1>4, LeastNat
<1>6. c \in DOMAIN pool /\ pool[c].inUse = u
    BY <1>5
<1>7. ASSUME NEW d \in DOMAIN pool
      PROVE  pool[c].inUse < pool[d].inUse \/ (pool[c].inUse = pool[d].inUse /\ c <= d)
    <2>1. pool[d].inUse \in U /\ u <= pool[d].inUse /\ u \in Nat /\ pool[d].inUse \in Nat
        BY <1>2, <1>3 DEF U
    <2>2. CASE pool[d].inUse = u
        BY <1>5, <1>6, <2>2
    <2>3. CASE pool[d].inUse # u
        BY <1>6, <2>1, <2>3
    <2> QED BY <2>2, <2>3
<1>8. \E b \in DOMAIN pool : \A d \in DOMAIN pool :
        pool[b].inUse < pool[d].inUse \/ (pool[b].inUse = pool[d].inUse /\ b <= d)
    BY <1>6, <1>7
<1> QED BY <1>8 DEF Best

LEMMA BeginKeeps ==
    ASSUME QueueIndInv, NEW q \in Queries, NEW via \in {"chunks", "fd"}, BeginImpl(q, via)
    PROVE  QueueIndInv'
<1>1. /\ qreq[q].pc = "none" /\ qconn' = qconn /\ qleft' = [qleft EXCEPT !.begins = @ - 1]
    BY DEF BeginImpl
<1>2. qreq \in [Queries -> QueueRequest] /\ qleft \in QueueLoadType /\ qconn \in [Sessions -> SessionState]
    BY DEF QueueIndInv, QueueTypeOK
<1>3. qleft' \in QueueLoadType /\ qleft'.rows = qleft.rows
    BY <1>1, <1>2 DEF QueueLoadType
<1>4. PICK pool : pool = Alive
    OBVIOUS
<1>5. /\ DOMAIN pool \subseteq Sessions /\ pool \in [DOMAIN pool -> PoolEntry]
      /\ PoolCounts(pool, qreq, qconn) /\ \A c \in DOMAIN pool : qconn[c] = "up"
    BY <1>4, AliveOK
<1>6. CASE pool = EmptyPool
    <2>1. qpool' = EmptyPool /\ qreq' = qreq
        BY <1>4, <1>6 DEF BeginImpl
    <2>2. DOMAIN qpool' \subseteq Sessions /\ qpool' \in [DOMAIN qpool' -> PoolEntry]
          /\ PoolCounts(qpool', qreq, qconn')
        BY <2>1, EmptyPoolOK
    <2>3. qconn' \in [Sessions -> SessionState]
        BY <1>1, <1>2
    <2> QED BY <1>1, <1>3, <2>1, <2>2, <2>3, SameConns, SessionsStep
<1>7. CASE pool # EmptyPool
    <2>1. DOMAIN pool # {}
        <3>1. ASSUME DOMAIN pool = {} PROVE FALSE
            <4>1. pool = [c \in DOMAIN pool |-> pool[c]]
                BY <1>5
            <4>2. pool = EmptyPool
                BY <3>1, <4>1 DEF EmptyPool
            <4> QED BY <1>7, <4>2
        <3> QED BY <3>1
    <2>2. \A c \in DOMAIN pool : pool[c].inUse \in Nat
        BY <1>5, UsersFinite DEF PoolCounts
    <2>3. PICK best : best = Best(pool)
        OBVIOUS
    <2>4. best \in DOMAIN pool /\ best \in Sessions /\ qconn[best] = "up"
        BY <1>5, <2>1, <2>2, <2>3, BestIn
    <2>5. qpool' = [pool EXCEPT ![best] = [inUse |-> @.inUse + 1, idle |-> FALSE]]
        BY <1>4, <1>7, <2>3 DEF BeginImpl
    <2>6. PICK r : r = [NotBegun EXCEPT !.pc = "read", !.via = via, !.conn = best]
        OBVIOUS
    <2>7. qreq' = [qreq EXCEPT ![q] = r]
        BY <1>4, <1>7, <2>3, <2>6 DEF BeginImpl
    <2>8. NotBegun \in QueueRequest /\ RowsInv(NotBegun, qleft.rows)
        BY NotBegunOK
    <2>9. r \in QueueRequest
        <3>1. best \in Nat
            BY <2>4, MaxSessionAssumption DEF Sessions
        <3> QED BY <2>6, <2>8, <3>1 DEF QueueRequest, Streaming
    <2>10. r.pc = "read" /\ r.conn = best /\ r.via = via /\ r.err = FALSE /\ r.answer = "none"
           /\ r.daemon = "idle" /\ r.chunks = <<>> /\ r.got = <<>> /\ r.buf = <<>> /\ r.row = 0
           /\ r.closing = FALSE /\ r.closed = FALSE
        BY <2>6 DEF NotBegun
    <2>11. RowsInv(r, qleft.rows)
        <3>1. Contiguous(r.got, r.chunks, r.buf, r.row)
            BY <2>10, ContiguousNone
        <3> QED BY <2>10, <3>1 DEF RowsInv
    <2>12. SessionInv(r, qconn)
        BY <2>4, <2>10 DEF SessionInv
    <2>13. qreq'[q] = r /\ \A p \in Queries : p # q => qreq'[p] = qreq[p]
        BY <1>2, <2>7
    <2>14. r.pc \in Streaming /\ qreq[q].pc \notin Streaming
        BY <1>1, <2>10 DEF Streaming
    <2>15. q \notin Users(qreq, best) /\ Users(qreq', best) = Users(qreq, best) \cup {q}
        BY <2>10, <2>13, <2>14 DEF Users
    <2>16. Cardinality(Users(qreq', best)) = Cardinality(Users(qreq, best)) + 1
        BY <2>15, UsersFinite, FS_AddElement
    <2>17. \A d : d # best => Users(qreq', d) = Users(qreq, d)
        BY <2>10, <2>13, <2>14 DEF Users
    <2>18. DOMAIN qpool' = DOMAIN pool /\ qpool' \in [DOMAIN qpool' -> PoolEntry]
           /\ \A d \in DOMAIN pool : qpool'[d].inUse = IF d = best THEN pool[d].inUse + 1 ELSE pool[d].inUse
        <3>1. pool[best] \in PoolEntry
            BY <1>5, <2>4
        <3>2. PICK e : e = [inUse |-> pool[best].inUse + 1, idle |-> FALSE]
            OBVIOUS
        <3>3. e \in PoolEntry /\ e.inUse = pool[best].inUse + 1
            BY <3>1, <3>2 DEF PoolEntry
        <3>4. qpool' = [pool EXCEPT ![best] = e]
            BY <2>5, <3>2
        <3> QED BY <1>5, <2>4, <3>3, <3>4
    <2>19. ASSUME NEW d \in DOMAIN pool
           PROVE  qconn[d] # "none" /\ qpool'[d].inUse = Cardinality(Users(qreq', d))
        <3>1. qconn[d] # "none" /\ pool[d].inUse = Cardinality(Users(qreq, d))
            BY <1>5 DEF PoolCounts
        <3>2. CASE d = best
            BY <2>16, <2>18, <3>1, <3>2
        <3>3. CASE d # best
            BY <2>17, <2>18, <3>1, <3>3
        <3> QED BY <3>1, <3>2, <3>3
    <2>20. PoolCounts(qpool', qreq', qconn)
        BY <2>18, <2>19 DEF PoolCounts
    <2>21. DOMAIN qpool' \subseteq Sessions
        BY <1>5, <2>18
    <2> QED BY <1>1, <1>3, <2>7, <2>9, <2>11, <2>12, <2>18, <2>20, <2>21, QueueRequestStep
<1> QED BY <1>6, <1>7

-----------------------------------------------------------------------------
LEMMA QueueInitInv == ASSUME QueueInit PROVE QueueIndInv
<1>1. PICK load \in QueueLoads : QueueStart(load)
    BY DEF QueueInit
<1>2. load \in QueueLoadType
    BY <1>1, QueueLoadAssumption DEF QueueLoadType
<1>3. qreq = [q \in Queries |-> NotBegun] /\ qpool = EmptyPool /\ qleft = load
      /\ qconn = [c \in Sessions |-> "none"]
    BY <1>1 DEF QueueStart
<1>4. QueueTypeOK
    <2>1. qreq \in [Queries -> QueueRequest]
        BY <1>3, NotBegunOK
    <2>2. qconn \in [Sessions -> SessionState]
        BY <1>3 DEF SessionState
    <2> QED BY <1>2, <1>3, <2>1, <2>2, EmptyPoolOK DEF QueueTypeOK
<1>5. QueueRowsInv
    BY <1>3, NotBegunOK DEF QueueRowsInv
<1>6. QueueSessionsInv
    BY <1>3, NotBegunOK, EmptyPoolOK DEF QueueSessionsInv
<1> QED BY <1>4, <1>5, <1>6 DEF QueueIndInv

LEMMA QueueNextInv ==
    ASSUME QueueFaults = {}, QueueIndInv, [QueueNext]_queuevars PROVE QueueIndInv'
<1>1. CASE UNCHANGED queuevars
    BY <1>1 DEF queuevars, QueueIndInv, QueueTypeOK, QueueRowsInv, QueueSessionsInv
<1>2. CASE \E c \in Sessions : SessionDies(c) \/ IdleTimeout(c)
    BY <1>2, SessionDiesKeeps, IdleTimeoutKeeps
<1>3. CASE EnsureSession \/ DialFloor \/ Judge \/ GrowDone
    BY <1>3, EnsureSessionKeeps, DialFloorKeeps, JudgeKeeps, GrowDoneKeeps
<1>4. CASE ProbeFails \/ QueueClose \/ SupervisorEnds \/ GrowBackoffEnds
    BY <1>4, SupervisorKeeps
<1>5. ASSUME NEW q \in Queries,
             \/ QueueBegin(q) \/ QueueBeginFd(q) \/ StreamRow(q) \/ StreamEnd(q) \/ StreamRefused(q)
             \/ FlushChunk(q) \/ FlushFails(q) \/ Notify(q) \/ QueryRelease(q) \/ QueryClosed(q)
             \/ NextChunk(q) \/ CheckClosed(q) \/ Notified(q) \/ QueueResult(q) \/ QueueFree(q)
      PROVE  QueueIndInv'
    <2>1. CASE QueueBegin(q) \/ QueueBeginFd(q)
        BY <2>1, BeginKeeps DEF QueueBegin, QueueBeginFd
    <2>2. CASE StreamRow(q) \/ StreamEnd(q) \/ StreamRefused(q) \/ FlushChunk(q) \/ FlushFails(q) \/ Notify(q)
        BY <2>2, StreamRowKeeps, StreamEndKeeps, StreamRefusedKeeps, FlushChunkKeeps, FlushFailsKeeps,
           NotifyKeeps
    <2>3. CASE QueryRelease(q) \/ QueryClosed(q)
        BY <2>3, QueryReleaseKeeps, QueryClosedKeeps
    <2>4. CASE NextChunk(q) \/ CheckClosed(q) \/ Notified(q) \/ QueueResult(q) \/ QueueFree(q)
        BY <2>4, NextChunkKeeps, CheckClosedKeeps, NotifiedKeeps, QueueResultKeeps, QueueFreeKeeps
    <2> QED BY <1>5, <2>1, <2>2, <2>3, <2>4
<1> QED BY <1>1, <1>2, <1>3, <1>4, <1>5 DEF QueueNext

LEMMA QueueInvHonest == ASSUME QueueIndInv PROVE AnswerHonest
<1>1. ASSUME NEW q \in Queries
      PROVE  LET r == qreq[q] IN
             /\ r.answer = "done" => r.got = [i \in 1..qleft.rows |-> i]
             /\ r.answer = "error" =>
                  qconn[r.conn] \in {"died", "dropped"} \/ r.socket # "clean" \/ r.refused
    <2>1. PICK r : r = qreq[q]
        OBVIOUS
    <2>2. r \in QueueRequest /\ RowsInv(r, qleft.rows) /\ SessionInv(r, qconn) /\ qleft.rows \in Nat
        BY <2>1, QueueRequestOK
    <2>3. ASSUME r.answer = "done" PROVE r.got = [i \in 1..qleft.rows |-> i]
        <3>1. r.pc \in {"store", "done"} /\ ~r.err /\ r.daemon # "freed" /\ r.chunks = <<>>
            BY <2>2, <2>3 DEF RowsInv
        <3>2. r.row = qleft.rows /\ r.buf = <<>> /\ Contiguous(r.got, r.chunks, r.buf, r.row)
            BY <2>2, <3>1 DEF RowsInv
        <3>3. r.got \in Chunk /\ r.row \in Nat
            BY <2>2 DEF QueueRequest
        <3>4. Contiguous(r.got, <<>>, <<>>, r.row)
            BY <3>1, <3>2
        <3>5. r.got = [i \in 1..r.row |-> i]
            BY <3>3, <3>4, ContiguousAll
        <3> QED BY <3>2, <3>5
    <2>4. ASSUME r.answer = "error"
          PROVE  qconn[r.conn] \in {"died", "dropped"} \/ r.socket # "clean" \/ r.refused
        BY <2>2, <2>4 DEF SessionInv, Lost
    <2> QED BY <2>1, <2>3, <2>4
<1> QED BY <1>1 DEF AnswerHonest

(***************************************************************************)
(* A daemon that is told its query is done has every row once and in order,*)
(* and an error is reported only for a session that was lost, a socket that*)
(* failed or a query that did, on a row or at the server, for any number of*)
(* queries, rows, chunks, sessions and failures, unless one of the two     *)
(* outcomes in QueueFaults happens (hcdb_queue_next, stream, reapIdle).    *)
(***************************************************************************)
THEOREM AnswersAreHonest ==
    ASSUME QueueFaults = {} PROVE QueueSpec => []AnswerHonest
<1>1. QueueInit => QueueIndInv
    BY QueueInitInv
<1>2. QueueIndInv /\ [QueueNext]_queuevars => QueueIndInv'
    BY QueueNextInv
<1>3. QueueIndInv => AnswerHonest
    BY QueueInvHonest
<1> QED BY <1>1, <1>2, <1>3, PTL DEF QueueSpec
=============================================================================
