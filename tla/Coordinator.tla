---------------------------- MODULE Coordinator ----------------------------
(***************************************************************************)
(* ha/consistent: a catalog replicated with hashicorp/raft.  The raft      *)
(* library is external and modelled by what it promises: one committed log *)
(* that every node applies in order, a leader that may change or be lost   *)
(* at any time, snapshots.  The code of the repository is the FSM that     *)
(* applies a batch table by table, the control requests a node answers,    *)
(* and the client that follows redirects.                                  *)
(***************************************************************************)
EXTENDS Integers, Sequences, FiniteSets, SequencesExt

CONSTANTS
    Node, NoNode,     \* the daemons
    FirstNode,        \* the one with CoordinatorConfig.Bootstrap
    CTable,           \* tables; the default table is one of them
    Batches,          \* the batches a client may submit: sequences of [table, ok]
    ReadOnlyTables,   \* the tables TableWritable refuses
    ClusterSize,      \* CoordinatorConfig.ClusterSize; 0: no limit
    MaxRedirects,     \* ControlClient.maxRedirects
    CoordBudgets      \* bounds: changes of leader (elect), restarts and snapshot
                      \*   installations (restart), batches that a node alone fails
                      \*   to apply (fail)

\* A submission is known by its batch, so no two of a client's are alike.
ASSUME CoordAssumption ==
    /\ NoNode \notin Node /\ FirstNode \in Node
    /\ Batches \in Seq(ToSet(Batches)) /\ IsInjective(Batches)
    /\ {MaxRedirects, ClusterSize} \subseteq Nat
    /\ CoordBudgets \subseteq [elect : Nat, restart : Nat, fail : Nat]

VARIABLES
    clead,     \* the leader, or NoNode
    cknown,    \* per node: the leader it believes in (LeaderWithID)
    clog,      \* the committed log
    cnode,     \* per node: its state machine and its snapshot
    cclient,   \* the client's request
    craft,     \* the voters, the members each Coordinator has noted, registrations under way
    csubmit,   \* the next batch to submit
    cleft      \* budgets

coordvars == <<clead, cknown, clog, cnode, cclient, craft, csubmit, cleft>>

EmptyTables == [t \in CTable |-> 0]
(***************************************************************************)
(* What a node holds: the entries applied since its log was last replayed, *)
(* the last entry its tables ever saw, its tables, and those of them that a*)
(* failure of its own kept an entry from.                                  *)
(***************************************************************************)
NoSnapshot == [at |-> 0, seen |-> 0, tables |-> EmptyTables, lost |-> {}]
EmptyNode == [applied |-> 0, seen |-> 0, tables |-> EmptyTables, lost |-> {}, snap |-> NoSnapshot]
NoRequest == [st |-> "idle", at |-> NoNode, hops |-> 0, batch |-> <<>>]

\* maybeBootstrap: the first node starts the cluster alone and notes itself.
CoordStart(budget) ==
    /\ clead = FirstNode /\ cknown = [n \in Node |-> FirstNode]
    /\ craft = [voters |-> {FirstNode}, adding |-> {},
                members |-> [n \in Node |-> IF n = FirstNode THEN {n} ELSE {}]]
    /\ clog = <<>> /\ csubmit = 1
    /\ cnode = [n \in Node |-> EmptyNode]
    /\ cclient = NoRequest
    /\ cleft = budget
CoordInit == \E budget \in CoordBudgets : CoordStart(budget)

-----------------------------------------------------------------------------
(***************************************************************************)
(* FSM.applyBatch: the operations grouped by table, each table's in one    *)
(* transaction, in the order of first use; a transaction that fails ends   *)
(* the batch.  A table's content is the place in the log of the batch that *)
(* wrote it last: every operation is absolute (new, destroy, set, delete). *)
(***************************************************************************)
TablesOf(b) ==
    LET first == {i \in DOMAIN b : \A j \in 1..i - 1 : b[j].table # b[i].table}
    IN  [k \in 1..Cardinality(first) |->
            b[CHOOSE i \in first : Cardinality({j \in first : j <= i}) = k].table]
\* applyOps: one operation that does not parse aborts its table's transaction,
\* on every node alike; a table in failed cannot be opened (EnsureTable) or its
\* transaction not committed on the node that applies the batch.
ApplyOps(b, t, failed) == t \notin failed /\ \A i \in DOMAIN b : b[i].table = t => b[i].ok
WrittenTables(b, failed) ==
    LET order == TablesOf(b)
    IN  {order[k] : k \in {k \in DOMAIN order : \A j \in 1..k : ApplyOps(b, order[j], failed)}}
Applies(b) == WrittenTables(b, {})
ApplyBatch(s, b, i, failed) ==
    [s EXCEPT !.applied = i,
              !.seen = IF i > s.seen THEN i ELSE s.seen,
              !.tables = [t \in CTable |-> IF t \in WrittenTables(b, failed) THEN i ELSE s.tables[t]],
              !.lost = s.lost \cup {t \in CTable : t \in Applies(b) \ WrittenTables(b, failed)}]
ApplyError(b) == \E i \in DOMAIN b : ~b[i].ok

\* How the batch b may fail on one node alone, with the budget that is left then.
NodeFails(b, failed) ==
    \/ failed = {} /\ UNCHANGED cleft
    \/ /\ \E t \in Applies(b) : failed = {t}
       /\ cleft.fail > 0 /\ cleft' = [cleft EXCEPT !.fail = @ - 1]

\* What applying the first n entries of the log in order leaves: the table is as
\* the last of them that writes it left it, or empty.
ShowsLog(tabs, t, n) ==
    /\ tabs[t] \in 0..n
    /\ tabs[t] > 0 => t \in Applies(clog[tabs[t]])
    /\ \A i \in tabs[t] + 1..n : t \notin Applies(clog[i])

\* FSM.Apply at node n, of the next committed entry.  raft goes on to the next
\* one whatever it returns.
CoordApply(n) ==
    LET next == cnode[n].applied + 1 IN
    /\ n \in craft.voters /\ next <= Len(clog)
    /\ \E failed \in SUBSET CTable :
          /\ NodeFails(clog[next], failed)
          /\ cnode' = [cnode EXCEPT ![n] = ApplyBatch(@, clog[next], next, failed)]
    /\ UNCHANGED <<clead, cknown, clog, cclient, craft, csubmit>>

\* FSM.Snapshot: the whole catalog.  (Mutant: the first table alone.)
SnapshotOneTable(s) ==
    [at |-> s.applied, seen |-> s.seen, lost |-> s.lost,
     tables |-> [t \in CTable |-> IF t = CHOOSE u \in CTable : TRUE THEN s.tables[t] ELSE 0]]
Snapshot(s) == [at |-> s.applied, seen |-> s.seen, lost |-> s.lost, tables |-> s.tables]

CoordSnapshot(n) ==
    /\ cnode[n].applied > cnode[n].snap.at
    /\ cnode' = [cnode EXCEPT ![n].snap = Snapshot(cnode[n])]
    /\ UNCHANGED <<clead, cknown, clog, cclient, craft, csubmit, cleft>>

\* FSM.Restore: every table truncated and reloaded, from the leader's snapshot
\* or, at a restart, from the node's own; without one the log is replayed over
\* the tables that the node still holds.
Restored(s, snap) ==
    IF snap.at = 0 THEN [s EXCEPT !.applied = 0, !.snap = snap, !.lost = {}]
    ELSE [applied |-> snap.at, seen |-> snap.seen, tables |-> snap.tables, lost |-> snap.lost,
          snap |-> snap]

CoordInstall(n) ==
    /\ clead # NoNode /\ n \in craft.voters /\ cnode[clead].snap.at > cnode[n].applied
    /\ cleft.restart > 0 /\ cleft' = [cleft EXCEPT !.restart = @ - 1]
    /\ cnode' = [cnode EXCEPT ![n] = Restored(@, cnode[clead].snap)]
    /\ UNCHANGED <<clead, cknown, clog, cclient, craft, csubmit>>

\* A restart, NewCoordinator: raft's state is durable, the members are noted
\* again only by a bootstrap node.  A node that led leads no longer.
CoordRestart(n) ==
    /\ cleft.restart > 0 /\ cleft' = [cleft EXCEPT !.restart = @ - 1]
    /\ cnode' = [cnode EXCEPT ![n] = Restored(@, @.snap)]
    /\ clead' = IF clead = n THEN NoNode ELSE clead
    /\ cknown' = [cknown EXCEPT ![n] = NoNode]
    /\ craft' = [craft EXCEPT !.adding = {r \in @ : r.at # n},
                    !.members[n] = IF n = FirstNode THEN craft.voters ELSE {}]
    /\ UNCHANGED <<clog, cclient, csubmit>>

-----------------------------------------------------------------------------
\* Elections (external): a leader has applied the log before it serves.
CoordElect(n) ==
    /\ cleft.elect > 0 /\ cleft' = [cleft EXCEPT !.elect = @ - 1]
    /\ n \in craft.voters /\ n # clead
    /\ clead' = n /\ cknown' = [cknown EXCEPT ![n] = n]
    /\ UNCHANGED <<clog, cnode, cclient, craft, csubmit>>
CoordLearn(n) ==
    /\ cknown[n] # clead /\ cknown' = [cknown EXCEPT ![n] = clead]
    /\ UNCHANGED <<clead, clog, cnode, cclient, craft, csubmit, cleft>>

(***************************************************************************)
(* A client's write: ControlClient.Apply, to any node, or a transaction    *)
(* committed over a session, which startConsistent's hook proposes at that *)
(* node and does not redirect.                                             *)
(***************************************************************************)
ClientSubmit ==
    /\ cclient.st = "idle" /\ csubmit <= Len(Batches)
    /\ csubmit' = csubmit + 1
    /\ \E n \in Node, hops \in {0, MaxRedirects} :
          cclient' = [st |-> "send", at |-> n, hops |-> hops, batch |-> Batches[csubmit]]
    /\ UNCHANGED <<clead, cknown, clog, cnode, craft, cleft>>

Ends(result) ==
    cclient' = [NoRequest EXCEPT !.st = result, !.batch = cclient.batch]

FirstReadOnly(b) == \E i \in DOMAIN b : b[i].table \in ReadOnlyTables

(***************************************************************************)
(* HandleControl, handleApply and Coordinator.Apply at the node that the   *)
(* request reaches.  Errors of raft: not the leader, and leadership lost   *)
(* after the entry was proposed, whose fate is then unknown.               *)
(***************************************************************************)
\* encodeRedirect: which raft errors become a redirect.  (Mutant: every error
\* of raft does.)
RedirectsAny(err) == err # "none"
Redirects(err) == err = "not_leader"

\* doWithRedirect: follow a redirect, up to MaxRedirects times.
Answered(err) ==
    LET next == cknown[cclient.at] IN
    IF err = "none" THEN Ends(IF ApplyError(cclient.batch) THEN "error" ELSE "acked")
    ELSE IF Redirects(err) /\ next \notin {NoNode, cclient.at} /\ cclient.hops < MaxRedirects
      THEN cclient' = [cclient EXCEPT !.st = "send", !.at = next, !.hops = @ + 1]
      ELSE Ends("error")

HandleApply ==
    /\ cclient.st = "send"
    /\ \/ FirstReadOnly(cclient.batch) /\ Ends("error")
       \/ /\ ~FirstReadOnly(cclient.batch)
          /\ \/ cclient.at # clead /\ Answered("not_leader")
             \/ cclient.at = clead /\ cclient' = [cclient EXCEPT !.st = "proposed"]
    /\ UNCHANGED <<clead, cknown, clog, cnode, craft, csubmit, cleft>>

\* Coordinator.Apply returns: the entry is committed and this node has applied
\* it, after all that came before, or leadership was lost first.
ApplyReturns ==
    LET b == cclient.batch IN
    /\ cclient.st = "proposed"
    /\ \/ /\ cclient.at = clead /\ cnode[clead].applied = Len(clog)
          /\ clog' = Append(clog, b)
          /\ \E failed \in SUBSET CTable :
                /\ NodeFails(b, failed)
                /\ cnode' = [cnode EXCEPT ![clead] = ApplyBatch(@, b, Len(clog) + 1, failed)]
                /\ IF failed = {} THEN Answered("none") ELSE Ends("error")
       \/ /\ cclient.at # clead /\ Answered("lost")
          /\ clog' \in {clog, Append(clog, b)}
          /\ UNCHANGED <<cnode, cleft>>
    /\ UNCHANGED <<clead, cknown, craft, csubmit>>

\* The exchange fails; a proposed entry is committed all the same or is not.
ExchangeFails ==
    /\ cclient.st \in {"send", "proposed"} /\ Ends("error")
    /\ clog' \in {clog} \cup (IF cclient.st = "proposed" THEN {Append(clog, cclient.batch)} ELSE {})
    /\ UNCHANGED <<clead, cknown, cnode, craft, csubmit, cleft>>

ClientDone ==
    /\ cclient.st \in {"acked", "error"}
    /\ cclient' = NoRequest
    /\ UNCHANGED <<clead, cknown, clog, cnode, craft, csubmit, cleft>>

-----------------------------------------------------------------------------
\* startSelfJoin, handleRegister and RegisterPeer at the leader that the
\* redirects end at: the size is checked under the lock, the voter is added
\* without it.
RegisterPeer(id) ==
    /\ clead # NoNode /\ id \notin craft.members[clead]
    /\ ClusterSize > 0 => Cardinality(craft.members[clead]) < ClusterSize
    /\ \A r \in craft.adding : r.id # id
    /\ craft' = [craft EXCEPT !.adding = @ \cup {[at |-> clead, id |-> id]}]
    /\ UNCHANGED <<clead, cknown, clog, cnode, cclient, csubmit, cleft>>
\* The future of AddVoter: granted and noted, or failed, and then the new
\* configuration may be committed all the same.
AddVoter(r) ==
    /\ r \in craft.adding
    /\ \/ /\ r.at = clead
          /\ craft' = [craft EXCEPT !.adding = @ \ {r}, !.voters = @ \cup {r.id},
                          !.members[r.at] = @ \cup {r.id}]
       \/ /\ r.at # clead
          /\ \E committed \in {{}, {r.id}} :
                craft' = [craft EXCEPT !.adding = @ \ {r}, !.voters = @ \cup committed]
    /\ UNCHANGED <<clead, cknown, clog, cnode, cclient, csubmit, cleft>>

CoordNext ==
    \/ \E n \in Node :
        \/ CoordApply(n) \/ CoordSnapshot(n) \/ CoordInstall(n) \/ CoordRestart(n)
        \/ CoordElect(n) \/ CoordLearn(n)
        \/ RegisterPeer(n)
    \/ \E r \in craft.adding : AddVoter(r)
    \/ ClientSubmit \/ HandleApply \/ ApplyReturns \/ ExchangeFails \/ ClientDone

CoordSpec == CoordInit /\ [][CoordNext]_coordvars

-----------------------------------------------------------------------------
(***************************************************************************)
(* Two voters that have applied the same entries hold the same tables:     *)
(* those of the log's batches up to there, applied in order, whether the   *)
(* voter got there entry by entry, through a snapshot of another or its    *)
(* own, or by replaying the log over tables that survived a restart (seen: *)
(* the replay is past what they held).  Excepted are the tables that an    *)
(* apply failed on, at the voter or at the one whose snapshot it holds:    *)
(* FSM.Apply's error goes no further than the log of that node, which lacks*)
(* the entry in them until its tables are restored or replayed.            *)
(***************************************************************************)
ReplicasAgree ==
    \A n \in craft.voters : \A t \in CTable \ cnode[n].lost :
        cnode[n].applied >= cnode[n].seen => ShowsLog(cnode[n].tables, t, cnode[n].applied)

(***************************************************************************)
(* A batch that a client submits once is committed at most once, and one   *)
(* that it was told succeeded is committed: redirects, leaders that lose   *)
(* their office with a proposal under way, and failed exchanges neither    *)
(* repeat it nor acknowledge it in vain.                                   *)
(***************************************************************************)
CommittedOnce ==
    /\ \A i, j \in DOMAIN clog : i # j => clog[i] # clog[j]
    /\ cclient.st = "acked" => Contains(clog, cclient.batch)
=============================================================================
