-------------------------- MODULE TableSinkProofs --------------------------
(***************************************************************************)
(* Type correctness of TableSink, what Reflects says of a table when the   *)
(* source changes and when a change is applied, and its safety: IndInv is  *)
(* inductive when the source has none of FaultKinds, and with it           *)
(* CursorCovered and SyncedExact hold of every number of keys, values,     *)
(* changes, sessions, failures and crashes.                                *)
(***************************************************************************)
EXTENDS TableSink, TLAPS

Versions == Seq(Version)

\* A table that reflects a version still does after another change.
LEMMA Grows ==
    ASSUME NEW vs \in Versions, NEW e \in Version,
           NEW t, NEW n \in 1..Len(vs), Reflects(vs, t, n)
    PROVE  Reflects(Append(vs, e), t, n)
<1>1. SUFFICES ASSUME NEW k \in Key
               PROVE  \/ t[k] = Append(vs, e)[n].rows[k]
                      \/ Append(vs, e)[n].rows[k] \in Opaque
                      \/ \E i \in n + 1..Len(Append(vs, e)) : Append(vs, e)[i].key = k
    BY DEF Reflects
<1>2. Len(Append(vs, e)) = Len(vs) + 1 /\ Len(vs) \in Nat
    BY DEF Versions
<1>3. \A i \in 1..Len(vs) : Append(vs, e)[i] = vs[i]
    BY DEF Versions
<1>4. CASE \E i \in n + 1..Len(vs) : vs[i].key = k
    <2>1. PICK i \in n + 1..Len(vs) : vs[i].key = k
        BY <1>4
    <2>2. i \in n + 1..Len(Append(vs, e)) /\ Append(vs, e)[i].key = k
        BY <2>1, <1>2, <1>3
    <2> QED BY <2>2
<1>5. CASE t[k] = vs[n].rows[k] \/ vs[n].rows[k] \in Opaque
    BY <1>5, <1>3
<1> QED BY <1>4, <1>5 DEF Reflects

\* A write to the key of a later change does not disturb an earlier version.
LEMMA WriteLater ==
    ASSUME NEW vs \in Versions, NEW at \in Nat, at + 1 <= Len(vs),
           NEW n \in 1..at, NEW t, NEW u,
           \A j \in Key : j # vs[at + 1].key => u[j] = t[j],
           Reflects(vs, t, n)
    PROVE  Reflects(vs, u, n)
<1>1. at + 1 \in n + 1..Len(vs)
    BY DEF Versions
<1> QED BY <1>1 DEF Reflects

\* Applying the next change brings a table to the next version.
LEMMA Advance ==
    ASSUME NEW vs \in Versions, NEW at \in Nat \ {0}, at + 1 <= Len(vs), NEW t, NEW u,
           \A j \in Key : j # vs[at + 1].key => u[j] = t[j],
           \A j \in Key : j # vs[at + 1].key => vs[at + 1].rows[j] = vs[at].rows[j],
           LET k == vs[at + 1].key IN u[k] = vs[at + 1].rows[k] \/ vs[at + 1].rows[k] \in Opaque,
           Reflects(vs, t, at)
    PROVE  Reflects(vs, u, at + 1)
<1>1. SUFFICES ASSUME NEW j \in Key, j # vs[at + 1].key
               PROVE  \/ u[j] = vs[at + 1].rows[j]
                      \/ vs[at + 1].rows[j] \in Opaque
                      \/ \E i \in at + 1 + 1..Len(vs) : vs[i].key = j
    BY DEF Reflects
<1>2. u[j] = t[j] /\ vs[at + 1].rows[j] = vs[at].rows[j]
    BY <1>1
<1>3. CASE \E i \in at + 1..Len(vs) : vs[i].key = j
    <2>1. PICK i \in at + 1..Len(vs) : vs[i].key = j
        BY <1>3
    <2>2. i # at + 1 /\ Len(vs) \in Nat
        BY <2>1, <1>1 DEF Versions
    <2>3. i \in at + 1 + 1..Len(vs)
        BY <2>1, <2>2
    <2> QED BY <2>1, <2>3
<1> QED BY <1>2, <1>3 DEF Reflects

\* A batch holds at least one write.
LEMMA BatchBound == MaxBatch \in Nat \ {0}
BY BoundAssumption

\* What the types say of the versions.
LEMMA VersionFacts ==
    ASSUME TypeOK
    PROVE  /\ versions \in Versions /\ Len(versions) \in Nat \ {0}
           /\ \A n \in 1..Len(versions) : versions[n] \in Version /\ Rows(n) \in Table
<1>1. versions \in Seq(Version) /\ Len(versions) > 0
    BY DEF TypeOK, VersionType
<1>2. \A n \in 1..Len(versions) : versions[n] \in Version
    BY <1>1
<1>3. \A x \in Version : x.rows \in Table
    BY DEF Version
<1> QED BY <1>1, <1>2, <1>3 DEF Rows, Versions

-----------------------------------------------------------------------------
(***************************************************************************)
(* Type correctness.                                                       *)
(***************************************************************************)
\* The parts of the type invariant that a step leaves alone.
LEMMA TypeFrame ==
    ASSUME TypeOK
    PROVE  /\ versions' = versions => VersionType'
           /\ UNCHANGED <<versions, hub, cur, stored>> => StoreType'
           /\ UNCHANGED <<versions, view, pending, nextCur>> => BatchType'
           /\ UNCHANGED <<versions, touched, feed>> => FeedType'
           /\ UNCHANGED <<fails, budget>> => BudgetType'
<1>1. versions' = versions => VersionType'
    BY DEF TypeOK, VersionType
<1>2. UNCHANGED <<versions, hub, cur, stored>> => StoreType'
    BY DEF TypeOK, StoreType
<1>3. UNCHANGED <<versions, view, pending, nextCur>> => BatchType'
    BY DEF TypeOK, BatchType
<1>4. UNCHANGED <<versions, touched, feed>> => FeedType'
    BY DEF TypeOK, FeedType
<1>5. UNCHANGED <<fails, budget>> => BudgetType'
    BY DEF TypeOK, BudgetType
<1> QED BY <1>1, <1>2, <1>3, <1>4, <1>5

\* A failure costs one of the failures that are left.
LEMMA FailType ==
    ASSUME TypeOK, SpendsFail
    PROVE  fails' \in Nat
BY DEF TypeOK, BudgetType, SpendsFail

\* A flush keeps the types of what it writes.
LEMMA FlushType ==
    ASSUME TypeOK, versions' = versions, NEW v \in Table, NEW c \in 0..Len(versions),
           Flush(v, c)
    PROVE  StoreType' /\ BatchType' /\ failed' \in BOOLEAN /\ fails' \in Nat
<1>0. hub \in Table /\ cur \in 0..Len(versions) /\ stored \in 0..Len(versions)
      /\ fails \in Nat /\ 0 \in 0..Len(versions) /\ 0 \in 0..MaxBatch - 1
    BY BatchBound, VersionFacts DEF TypeOK, StoreType, BudgetType
<1>1. CASE Flushed(v, c)
    <2>1. StoreType' /\ BatchType' /\ fails' \in Nat
        BY <1>0, <1>1 DEF Flushed, NoCursor, StoreType, BatchType, cursors
    <2>2. failed' \in BOOLEAN
        BY <1>1, Zenon DEF Flushed, TypeOK, FlagType
    <2> QED BY <2>1, <2>2
<1>2. CASE Fail({hub, v}, v, c)
    <2>1. StoreType' /\ BatchType'
        BY <1>0, <1>2 DEF Fail, Left, NoCursor, StoreType, BatchType
    <2>2. failed' \in BOOLEAN
        BY <1>2, Zenon DEF Fail
    <2> QED BY <1>2, <2>1, <2>2, FailType DEF Fail
<1> QED BY <1>1, <1>2 DEF Flush

\* So does the end of apply.
LEMMA BatchedType ==
    ASSUME TypeOK, versions' = versions, NEW v \in Table, NEW n \in 0..MaxBatch,
           NEW c \in 0..Len(versions), Batched(v, n, c)
    PROVE  StoreType' /\ BatchType' /\ failed' \in BOOLEAN /\ fails' \in Nat
<1>1. CASE n >= MaxBatch
    BY <1>1, FlushType DEF Batched
<1>2. CASE ~(n >= MaxBatch)
    <2>1. StoreType'
        BY <1>2, TypeFrame DEF Batched, cursors
    <2>2. BatchType'
        BY <1>2, BatchBound DEF Batched, BatchType
    <2>3. failed' \in BOOLEAN
        BY <1>2, Zenon DEF Batched, TypeOK, FlagType
    <2>4. fails' \in Nat
        BY <1>2 DEF Batched, TypeOK, BudgetType
    <2> QED BY <2>1, <2>2, <2>3, <2>4
<1> QED BY <1>1, <1>2

\* And so does applying an upsert or a delete.
LEMMA ApplyType ==
    ASSUME TypeOK, versions' = versions, NEW k \in Key, NEW v \in Row,
           NEW c \in 0..Len(versions), Apply(k, v, c)
    PROVE  StoreType' /\ BatchType' /\ failed' \in BOOLEAN /\ fails' \in Nat
<1>1. pending \in 0..MaxBatch /\ pending + 1 \in 0..MaxBatch /\ view \in Table
    BY BatchBound DEF TypeOK, BatchType
<1>2. [view EXCEPT ![k] = v] \in Table
    BY <1>1 DEF Table
<1>3. CASE Skipped(k, v)
    BY <1>1, <1>3, BatchedType DEF Apply
<1>4. CASE ~Skipped(k, v)
    BY <1>1, <1>2, <1>4, BatchedType DEF Apply
<1> QED BY <1>3, <1>4

\* Every reset is at a version that exists.
LEMMA ResetsType ==
    ASSUME TypeOK, NEW f \in Resets
    PROVE  f \in Feed /\ f.kind = "reset" /\ f.at \in 1..Len(versions) /\ f.left = Live(f.at)
BY VersionFacts DEF Resets, Feed, Live, newest

\* So is a stream that resumes.
LEMMA ResumedType ==
    ASSUME NEW n \in Nat
    PROVE  Resumed(n) \in Feed /\ Resumed(n).at = n /\ Resumed(n).kind = "tail"
BY DEF Resumed, Feed

\* A closed stream is a stream.
LEMMA ClosedType == Closed \in Feed /\ Closed.at = 0 /\ Closed.kind = "closed"
BY DEF Closed, Feed

\* Spending keeps the budget a budget.
LEMMA SpendsType ==
    ASSUME TypeOK, NEW w \in {"close", "crash", "resync"}, Spends(w)
    PROVE  budget' \in Budget
BY DEF TypeOK, BudgetType, Budget, Spends

\* The flags are assigned constants or left alone, but for failed.
LEMMA FlagStep ==
    ASSUME TypeOK, [Next]_vars, failed' \in BOOLEAN
    PROVE  FlagType'
<1>0. catchup \in BOOLEAN /\ resetting \in BOOLEAN /\ synced \in BOOLEAN
    BY DEF TypeOK, FlagType
<1>1. /\ catchup' \in {catchup, TRUE, FALSE}
      /\ resetting' \in {resetting, TRUE, FALSE}
      /\ synced' \in {synced, TRUE, FALSE}
    BY Zenon DEF Next, Runner, vars, SpokeChanges, OpenSession, DeliverReset, DeliverRow,
        DeliverSynced, Synced, DeliverChange, FlushTick, CloseFailed, DeliverResync,
        CloseSession, EndSession, Crash, replay
<1>2. catchup' \in BOOLEAN /\ resetting' \in BOOLEAN /\ synced' \in BOOLEAN
    BY <1>0, <1>1, Zenon
<1> QED BY <1>2, Zenon DEF FlagType

\* The initial state is well typed.
LEMMA TypeInit == Init => TypeOK
<1> SUFFICES ASSUME Init PROVE TypeOK
    OBVIOUS
<1>0. PICK r \in Table : versions = <<[key |-> NoKey, rows |-> r]>>
    BY DEF Init
<1>1. [key |-> NoKey, rows |-> r] \in Version
    BY DEF Version
<1>2. VersionType /\ Len(versions) = 1
    BY <1>0, <1>1 DEF VersionType
<1>3. StoreType /\ BatchType
    BY <1>2, BatchBound DEF Init, StoreType, BatchType, NoCursor, Table, Row
<1>4. FlagType
    BY Zenon DEF Init, FlagType
<1>5. FeedType
    BY <1>2, ClosedType DEF Init, FeedType
<1>6. BudgetType
    BY BoundAssumption DEF Init, BudgetType, Budget
<1> QED BY <1>2, <1>3, <1>4, <1>5, <1>6 DEF TypeOK

\* The change that the stream delivers next is to one of the keys.
LEMMA NextChange ==
    ASSUME TypeOK, VersionsOK, feed.kind = "tail", feed.at < newest
    PROVE  /\ feed.at \in 1..newest - 1
           /\ versions[feed.at + 1].key \in Key
           /\ Rows(feed.at + 1) \in Table
           /\ Rows(feed.at + 1)[versions[feed.at + 1].key] \in Row
<1>1. feed.at \in 1..newest - 1 /\ feed.at + 1 \in 2..newest /\ newest \in Nat
    BY VersionFacts DEF TypeOK, FeedType, newest
<1>2. versions[feed.at + 1].key \in Key
    BY <1>1 DEF VersionsOK
<1>3. Rows(feed.at + 1) \in Table
    BY <1>1, VersionFacts DEF newest
<1> QED BY <1>1, <1>2, <1>3 DEF Table

\* A step keeps the types of everything but the flags.
LEMMA TypeParts ==
    ASSUME TypeOK, VersionsOK, [Next]_vars
    PROVE  /\ VersionType' /\ StoreType' /\ BatchType' /\ FeedType' /\ BudgetType'
           /\ failed' \in BOOLEAN
<1> DEFINE Parts == /\ VersionType' /\ StoreType' /\ BatchType' /\ FeedType' /\ BudgetType'
                    /\ failed' \in BOOLEAN
<1>0. /\ failed \in BOOLEAN /\ TRUE \in BOOLEAN /\ FALSE \in BOOLEAN
      /\ hub \in Table /\ view \in Table
      /\ nextCur \in 0..Len(versions) /\ cur \in 0..Len(versions) /\ stored \in 0..Len(versions)
      /\ 0 \in 0..MaxBatch - 1 /\ 0 \in 0..Len(versions) /\ Len(versions) \in Nat
      /\ touched \subseteq Key /\ feed \in Feed
    BY BatchBound, VersionFacts DEF TypeOK, StoreType, BatchType, FlagType, FeedType
<1>1. CASE SpokeChanges
    <2>1. PICK k \in Key, v \in Row :
              versions' = Append(versions, [key |-> k, rows |-> [Rows(newest) EXCEPT ![k] = v]])
        BY <1>1 DEF SpokeChanges
    <2>2. [key |-> k, rows |-> [Rows(newest) EXCEPT ![k] = v]] \in Version
        BY VersionFacts DEF Version, Table, newest
    <2>3. versions' \in Seq(Version) /\ Len(versions') = Len(versions) + 1
        BY <2>1, <2>2, VersionFacts DEF Versions
    <2>4. VersionType'
        BY <2>3, <1>0 DEF VersionType
    <2>5. StoreType' /\ BatchType'
        BY <1>1, <2>3, <1>0 DEF SpokeChanges, TypeOK, StoreType, BatchType, batch, cursors
    <2>6. FeedType'
        BY <1>1, <2>3, <1>0 DEF SpokeChanges, TypeOK, FeedType, replay
    <2>7. BudgetType'
        BY <1>1, TypeFrame DEF SpokeChanges
    <2>8. failed' \in BOOLEAN
        BY <1>1, <1>0, Zenon DEF SpokeChanges
    <2> QED BY <2>4, <2>5, <2>6, <2>7, <2>8
<1>2. CASE OpenSession
    <2>1. versions' = versions /\ UNCHANGED <<hub, cur, stored>>
          /\ UNCHANGED <<fails, budget>> /\ touched' = touched
        BY <1>2 DEF OpenSession, cursors, replay
    <2>2. BatchType'
        BY <1>2, <2>1, <1>0 DEF OpenSession, BatchType, NoCursor
    <2>3. FeedType'
        <3>1. CASE feed' \in Resets
            BY <3>1, <2>1, <1>0, ResetsType DEF FeedType
        <3>2. CASE cur # NoCursor /\ feed' = Resumed(cur)
            BY <3>2, <2>1, <1>0, ResumedType DEF FeedType, NoCursor
        <3> QED BY <1>2, <3>1, <3>2 DEF OpenSession
    <2>4. failed' \in BOOLEAN
        BY <1>2, Zenon DEF OpenSession
    <2> QED BY <2>1, <2>2, <2>3, <2>4, TypeFrame
<1>3. CASE DeliverReset
    <2>1. versions' = versions /\ budget' = budget
        BY <1>3 DEF DeliverReset
    <2>2. CASE /\ ClearCursor
               /\ touched' = {} /\ feed' = [feed EXCEPT !.kind = "replay"]
               /\ feed.kind = "reset"
        <3>1. StoreType' /\ BatchType'
            BY <2>1, <2>2, <1>0 DEF ClearCursor, StoreType, BatchType, NoCursor
        <3>2. FeedType'
            BY <2>1, <2>2, <1>0 DEF FeedType, Feed, TypeOK
        <3>3. failed' \in BOOLEAN
            BY <2>2, <1>0, Zenon DEF ClearCursor
        <3>4. BudgetType'
            BY <2>1, <2>2, TypeFrame DEF ClearCursor
        <3> QED BY <2>1, <3>1, <3>2, <3>3, <3>4, TypeFrame
    <2>3. CASE Fail({hub, view}, view, nextCur) /\ touched' = touched /\ feed' = feed
        <3>1. Flush(view, nextCur)
            BY <2>3 DEF Flush
        <3>2. StoreType' /\ BatchType' /\ failed' \in BOOLEAN /\ fails' \in Nat
            BY <3>1, <2>1, <1>0, FlushType
        <3>3. FeedType' /\ VersionType'
            BY <2>1, <2>3, TypeFrame
        <3>4. BudgetType'
            BY <2>1, <3>2 DEF TypeOK, BudgetType
        <3> QED BY <3>2, <3>3, <3>4
    <2>4. CASE ClearFails /\ touched' = touched /\ feed' = feed
        <3>1. StoreType' /\ BatchType'
            BY <2>1, <2>4, <1>0 DEF ClearFails, StoreType, BatchType, NoCursor
        <3>2. FeedType' /\ VersionType'
            BY <2>1, <2>4, TypeFrame
        <3>3. failed' \in BOOLEAN
            BY <2>4, Zenon DEF ClearFails
        <3>4. BudgetType'
            BY <2>1, <2>4, FailType DEF ClearFails, TypeOK, BudgetType
        <3> QED BY <3>1, <3>2, <3>3, <3>4
    <2> QED BY <1>3, <2>2, <2>3, <2>4 DEF DeliverReset, Delivering, replay
<1>4. CASE DeliverRow
    <2>1. PICK k \in feed.left :
              /\ Apply(k, Rows(feed.at)[k], nextCur)
              /\ touched' = Touch(k, Rows(feed.at)[k])
              /\ feed' = [feed EXCEPT !.left = @ \ {k}]
        BY <1>4 DEF DeliverRow
    <2>2. versions' = versions /\ budget' = budget /\ feed.kind = "replay"
        BY <1>4 DEF DeliverRow, Delivering
    <2>3. k \in Key /\ feed.at \in 1..Len(versions)
        BY <2>1, <2>2, <1>0 DEF TypeOK, FeedType, Feed
    <2>4. Rows(feed.at)[k] \in Row
        BY <2>3, VersionFacts DEF Table
    <2>5. StoreType' /\ BatchType' /\ failed' \in BOOLEAN /\ fails' \in Nat
        BY <2>1, <2>2, <2>3, <2>4, <1>0, ApplyType
    <2>6. FeedType'
        BY <2>1, <2>2, <2>3, <1>0 DEF FeedType, Feed, Touch
    <2>7. VersionType' /\ BudgetType'
        BY <2>2, <2>5, TypeFrame DEF TypeOK, BudgetType
    <2> QED BY <2>5, <2>6, <2>7
<1>5. CASE DeliverSynced
    <2>1. versions' = versions /\ budget' = budget /\ feed.kind # "closed"
        BY <1>5 DEF DeliverSynced, Delivering
    <2>2. feed.at \in 1..Len(versions)
        BY <2>1, <1>0 DEF TypeOK, FeedType
    <2>3. \A ks : Without(view, ks) \in Table
        BY <1>0 DEF Without, Table, Row
    <2>4. CASE Flushed(Without(view, Stale), feed.at) /\ touched' = {} /\ feed' = Resumed(feed.at)
        <3>1. Flush(Without(view, Stale), feed.at)
            BY <2>4 DEF Flush
        <3>2. StoreType' /\ BatchType' /\ failed' \in BOOLEAN /\ fails' \in Nat
            BY <3>1, <2>1, <2>2, <2>3, FlushType
        <3>3. FeedType'
            BY <2>1, <2>2, <2>4, <1>0, ResumedType DEF FeedType
        <3>4. VersionType' /\ BudgetType'
            BY <2>1, <3>2, TypeFrame DEF TypeOK, BudgetType
        <3> QED BY <3>2, <3>3, <3>4
    <2>5. CASE /\ Fail({hub} \cup {Without(view, ks) : ks \in SUBSET Stale},
                       Without(view, Stale), feed.at)
               /\ touched' = touched /\ feed' = feed
        <3>1. StoreType' /\ BatchType'
            <4>1. hub' \in Table /\ stored' \in 0..Len(versions) /\ cur' = cur
                BY <2>5, <2>2, <2>3, <1>0 DEF Fail, Left
            <4>2. view' = hub' /\ pending' = 0 /\ nextCur' = NoCursor
                BY <2>5 DEF Fail
            <4> QED BY <4>1, <4>2, <2>1, <1>0 DEF StoreType, BatchType, NoCursor
        <3>2. failed' \in BOOLEAN
            BY <2>5, Zenon DEF Fail
        <3>3. FeedType' /\ VersionType'
            BY <2>1, <2>5, TypeFrame
        <3>4. BudgetType'
            BY <2>1, <2>5, FailType DEF Fail, TypeOK, BudgetType
        <3> QED BY <3>1, <3>2, <3>3, <3>4
    <2> QED BY <1>5, <2>4, <2>5 DEF DeliverSynced, Synced, replay
<1>6. CASE DeliverChange
    <2>1. versions' = versions /\ budget' = budget /\ feed.kind = "tail" /\ feed.at < newest
        BY <1>6 DEF DeliverChange, Delivering
    <2> DEFINE k == versions[feed.at + 1].key
               v == Rows(feed.at + 1)[k]
    <2>2. /\ Apply(k, v, feed.at + 1)
          /\ touched' = IF v = NoRow THEN touched ELSE Touch(k, v)
          /\ feed' = [feed EXCEPT !.at = @ + 1]
        BY <1>6 DEF DeliverChange
    <2>3. k \in Key /\ v \in Row /\ feed.at + 1 \in 1..Len(versions)
        BY <2>1, <1>0, NextChange DEF newest
    <2> HIDE DEF k, v
    <2>4. StoreType' /\ BatchType' /\ failed' \in BOOLEAN /\ fails' \in Nat
        BY <2>1, <2>2, <2>3, <1>0, ApplyType
    <2>5. FeedType'
        BY <2>1, <2>2, <2>3, <1>0 DEF FeedType, Feed, Touch
    <2>6. VersionType' /\ BudgetType'
        BY <2>1, <2>4, TypeFrame DEF TypeOK, BudgetType
    <2> QED BY <2>4, <2>5, <2>6
<1>7. CASE FlushTick
    <2>1. UNCHANGED <<versions, touched, feed, budget>> /\ Flush(view, nextCur)
        BY <1>7 DEF FlushTick, replay
    <2>2. StoreType' /\ BatchType' /\ failed' \in BOOLEAN /\ fails' \in Nat
        BY <2>1, <1>0, FlushType
    <2>3. VersionType' /\ FeedType' /\ BudgetType'
        BY <2>1, <2>2, TypeFrame DEF TypeOK, BudgetType
    <2> QED BY <2>2, <2>3
<1>8. ASSUME EndSession PROVE VersionType' /\ FeedType' /\ versions' = versions
    BY <1>8, <1>0, ClosedType, TypeFrame DEF EndSession, FeedType
<1>9. CASE CloseFailed
    <2>1. EndSession /\ UNCHANGED <<hub, view, pending, nextCur, cur, stored, fails, budget>>
        BY <1>9 DEF CloseFailed, batch, cursors
    <2>2. failed' \in BOOLEAN
        BY <1>9, <1>0, Zenon DEF CloseFailed
    <2> QED BY <2>1, <2>2, <1>8, TypeFrame
<1>10. CASE CloseSession
    <2>1. EndSession /\ Flush(view, nextCur) /\ Spends("close")
        BY <1>10 DEF CloseSession
    <2>2. StoreType' /\ BatchType' /\ failed' \in BOOLEAN /\ fails' \in Nat
        BY <2>1, <1>0, <1>8, FlushType
    <2>3. BudgetType'
        BY <2>1, <2>2, SpendsType DEF BudgetType
    <2> QED BY <2>1, <2>2, <2>3, <1>8
<1>11. CASE DeliverResync
    <2>1. /\ UNCHANGED <<versions, hub, view, pending, nextCur, cur, stored, fails, touched>>
          /\ Spends("resync") /\ feed.kind = "tail"
        BY <1>11 DEF DeliverResync, Delivering, batch, cursors, replay
    <2>2. feed.at \in 1..Len(versions)
        BY <2>1, <1>0 DEF TypeOK, FeedType
    <2>3. feed' \in Resets \/ \E n \in 1..feed.at : feed' = Resumed(n)
        BY <1>11, <2>2 DEF DeliverResync
    <2>4. FeedType'
        BY <2>1, <2>2, <2>3, <1>0, ResetsType, ResumedType DEF FeedType
    <2>5. BudgetType'
        BY <2>1, SpendsType DEF TypeOK, BudgetType
    <2>6. failed' \in BOOLEAN
        BY <1>11, <1>0, Zenon DEF DeliverResync
    <2> QED BY <2>1, <2>4, <2>5, <2>6, TypeFrame
<1>12. CASE Crash
    <2>1. UNCHANGED <<versions, hub, stored, fails>> /\ Spends("crash")
        BY <1>12 DEF Crash
    <2>2. StoreType' /\ BatchType'
        BY <1>12, <2>1, <1>0 DEF Crash, StoreType, BatchType, NoCursor
    <2>3. FeedType'
        BY <1>12, <2>1, <1>0, ClosedType DEF Crash, FeedType
    <2>4. failed' \in BOOLEAN
        BY <1>12, Zenon DEF Crash
    <2>5. BudgetType'
        BY <2>1, SpendsType DEF TypeOK, BudgetType
    <2> QED BY <2>1, <2>2, <2>3, <2>4, <2>5, TypeFrame
<1>13. CASE UNCHANGED vars
    <2>1. failed' \in BOOLEAN
        BY <1>13, <1>0, Zenon DEF vars
    <2> QED BY <1>13, <2>1, TypeFrame DEF vars
<1> QED BY <1>1, <1>2, <1>3, <1>4, <1>5, <1>6, <1>7, <1>9, <1>10, <1>11, <1>12, <1>13
        DEF Next, Runner

\* A step keeps the types.
LEMMA TypeStep == TypeOK /\ VersionsOK /\ [Next]_vars => TypeOK'
BY TypeParts, FlagStep DEF TypeOK

-----------------------------------------------------------------------------
\* Without late_error a failed flush leaves the cursors alone.
LEMMA LeftEffect ==
    ASSUME Faults = {}, NEW rows, NEW v, NEW c, Left(rows, v, c)
    PROVE  hub' \in rows /\ stored' = stored /\ cur' = cur
BY DEF Left

\* A flush of rows that the cursors cover keeps the cursors covered.
LEMMA FlushKeeps ==
    ASSUME Faults = {}, CursorsOK, versions' = versions, NEW v, NEW c, Flush(v, c),
           cur # NoCursor => Reflects(versions, v, cur),
           c # NoCursor => Reflects(versions, v, c)
    PROVE  /\ CursorsOK'
           /\ cur' \in {cur, c} /\ nextCur' = NoCursor
<1>1. CASE Flushed(v, c)
    BY <1>1 DEF Flushed, CursorsOK, cursors
<1>2. CASE Fail({hub, v}, v, c)
    <2>1. hub' \in {hub, v} /\ stored' = stored /\ cur' = cur
        BY <1>2, LeftEffect DEF Fail
    <2>2. view' = hub' /\ nextCur' = NoCursor
        BY <1>2 DEF Fail
    <2> QED BY <2>1, <2>2 DEF CursorsOK
<1> QED BY <1>1, <1>2 DEF Flush

\* A flush either has the rows committed or fails the sink.
LEMMA FlushOutcome ==
    ASSUME NEW v, NEW c, Flush(v, c)
    PROVE  failed' \/ view' = v
BY Zenon DEF Flush, Flushed, Fail

\* The end of apply keeps the cursors covered too.
LEMMA BatchedKeeps ==
    ASSUME Faults = {}, CursorsOK, versions' = versions, NEW v, NEW n, NEW c, Batched(v, n, c),
           cur # NoCursor => Reflects(versions, v, cur),
           c # NoCursor => Reflects(versions, v, c)
    PROVE  /\ CursorsOK'
           /\ cur' \in {cur, c} /\ nextCur' \in {NoCursor, c}
<1>1. CASE n >= MaxBatch
    BY <1>1, FlushKeeps DEF Batched
<1>2. CASE ~(n >= MaxBatch)
    BY <1>2 DEF Batched, CursorsOK, cursors
<1> QED BY <1>1, <1>2

\* And either the transaction sees the rows or the sink has failed.
LEMMA BatchedOutcome ==
    ASSUME NEW v, NEW n, NEW c, Batched(v, n, c)
    PROVE  failed' \/ view' = v
BY FlushOutcome, Zenon DEF Batched

\* What applying a row or a delete does to the rows.
LEMMA ApplyEffect ==
    ASSUME TypeOK, NEW k \in Key, NEW v \in Row, NEW c, Apply(k, v, c)
    PROVE  \E u \in Table, n \in Nat : /\ Batched(u, n, c)
                                       /\ \A j \in Key : j # k => u[j] = view[j]
                                       /\ u[k] = v \/ v \in Opaque
<1>1. view \in Table /\ pending \in Nat /\ pending + 1 \in Nat
    BY DEF TypeOK, BatchType
<1>2. CASE Skipped(k, v)
    <2>1. Batched(view, pending, c)
        BY <1>2 DEF Apply
    <2>2. view[k] = v \/ v \in Opaque
        BY <1>2 DEF Skipped
    <2> QED BY <1>1, <2>1, <2>2
<1>3. CASE ~Skipped(k, v)
    <2> DEFINE u == [view EXCEPT ![k] = v]
    <2>1. Batched(u, pending + 1, c)
        BY <1>3 DEF Apply
    <2>2. u \in Table /\ u[k] = v /\ \A j \in Key : j # k => u[j] = view[j]
        BY <1>1 DEF Table
    <2> HIDE DEF u
    <2> QED BY <1>1, <2>1, <2>2
<1> QED BY <1>2, <1>3

-----------------------------------------------------------------------------
\* A step keeps the versions a history of single changes.
LEMMA VersionsStep ==
    ASSUME TypeOK, VersionsOK, [Next]_vars
    PROVE  VersionsOK'
<1>1. CASE SpokeChanges
    <2>1. PICK k \in Key, v \in Row :
              versions' = Append(versions, [key |-> k, rows |-> [Rows(newest) EXCEPT ![k] = v]])
        BY <1>1 DEF SpokeChanges
    <2> DEFINE e == [key |-> k, rows |-> [Rows(newest) EXCEPT ![k] = v]]
    <2>2. /\ newest \in Nat \ {0} /\ Rows(newest) \in Table
        BY VersionFacts DEF newest
    <2>3. e.key = k /\ \A j \in Key \ {k} : e.rows[j] = Rows(newest)[j]
        BY <2>2 DEF Table
    <2>4. e \in Version
        BY <2>2 DEF Version, Table
    <2> HIDE DEF e
    <2>5. /\ Len(versions') = newest + 1 /\ versions'[newest + 1] = e
          /\ \A i \in 1..newest : versions'[i] = versions[i]
        BY <2>1, <2>4, VersionFacts DEF e, newest, Versions
    <2>6. ASSUME NEW i \in 2..newest + 1
          PROVE  /\ versions'[i].key \in Key
                 /\ \A j \in Key \ {versions'[i].key} :
                        versions'[i].rows[j] = versions'[i - 1].rows[j]
        <3>1. CASE i = newest + 1
            <4>1. versions'[i] = e /\ versions'[i - 1] = versions[newest]
                BY <3>1, <2>2, <2>5
            <4> QED BY <4>1, <2>3 DEF Rows
        <3>2. CASE i # newest + 1
            <4>1. i \in 2..newest /\ i \in 1..newest /\ i - 1 \in 1..newest
                BY <3>2, <2>2
            <4>2. versions'[i] = versions[i] /\ versions'[i - 1] = versions[i - 1]
                BY <4>1, <2>5
            <4> QED BY <4>1, <4>2 DEF VersionsOK, Rows
        <3> QED BY <3>1, <3>2
    <2> QED BY <2>5, <2>6 DEF VersionsOK, Rows, newest
<1>2. CASE versions' = versions
    BY <1>2 DEF VersionsOK, Rows, newest
<1> QED BY <1>1, <1>2 DEF Next, Runner, vars, OpenSession, DeliverReset, DeliverRow,
        DeliverSynced, DeliverChange, FlushTick, CloseFailed, DeliverResync, CloseSession,
        EndSession, Crash

\* While a replay runs to its end, the sweep leaves exactly its version.
LEMMA SweepExact ==
    ASSUME TypeOK, CursorsOK, TailOK, ReplayOK, ~failed,
           \/ feed.kind = "replay" /\ feed.left = {}
           \/ feed.kind = "tail"
    PROVE  Reflects(versions, Without(view, Stale), feed.at)
<1>1. CASE feed.kind = "replay"
    <2>1. resetting /\ touched = Live(feed.at)
        BY <1>1 DEF ReplayOK
    <2>2. \A k \in touched : view[k] = Rows(feed.at)[k] \/ Rows(feed.at)[k] \in Opaque
        BY <1>1 DEF ReplayOK
    <2>3. Stale = {k \in Key : view[k] # NoRow /\ k \notin touched}
        BY <2>1 DEF Stale
    <2>4. \A k \in Key : \/ Without(view, Stale)[k] = Rows(feed.at)[k]
                         \/ Rows(feed.at)[k] \in Opaque
        BY <2>1, <2>2, <2>3 DEF Without, Live
    <2> QED BY <2>4 DEF Reflects, Rows
<1>2. CASE feed.kind = "tail"
    <2>1. Reflects(versions, view, feed.at)
        BY <1>2 DEF TailOK
    <2>2. ~resetting
        BY <1>2 DEF ReplayOK
    <2>3. \A k \in Key : Without(view, Stale)[k] = view[k]
        BY <2>2 DEF Stale, Without
    <2> QED BY <2>1, <2>3 DEF Reflects
<1> QED BY <1>1, <1>2

\* Outside a replay nothing is swept.
LEMMA NothingSwept ==
    ASSUME TypeOK, ReplayOK, feed.kind # "replay"
    PROVE  \A ks \in SUBSET Stale : Without(view, ks) = view
<1>1. Stale = {}
    BY DEF ReplayOK, Stale
<1>2. view \in Table
    BY DEF TypeOK, BatchType
<1> QED BY <1>1, <1>2 DEF Without, Table
-----------------------------------------------------------------------------
(***************************************************************************)
(* The steps.                                                              *)
(***************************************************************************)
\* What the session's own part of the invariant says.
SessionOK == TailOK /\ ReplayOK /\ (synced => feed.kind = "tail")

\* A closed stream promises nothing.
LEMMA ClosedSession ==
    ASSUME feed' = Closed, resetting' = FALSE, synced' = FALSE
    PROVE  SessionOK'
<1>1. feed'.kind = "closed"
    BY ClosedType
<1>2. ~resetting' /\ ~synced'
    BY Zenon
<1> QED BY <1>1, <1>2 DEF SessionOK, TailOK, ReplayOK

\* A change at the spoke disturbs neither a cursor nor the stream.
LEMMA ChangeStep ==
    ASSUME IndInv, SpokeChanges
    PROVE  CursorsOK' /\ SessionOK'
<1>1. PICK e \in Version : versions' = Append(versions, e)
    <2>1. PICK k \in Key, v \in Row :
              versions' = Append(versions, [key |-> k, rows |-> [Rows(newest) EXCEPT ![k] = v]])
        BY DEF SpokeChanges
    <2>2. [key |-> k, rows |-> [Rows(newest) EXCEPT ![k] = v]] \in Version
        BY VersionFacts DEF IndInv, Version, Table, newest
    <2> QED BY <2>1, <2>2
<1>2. /\ TypeOK /\ versions \in Versions /\ newest \in Nat
      /\ cur \in 0..newest /\ nextCur \in 0..newest /\ feed.at \in 0..newest
      /\ feed.kind # "closed" => feed.at # 0
    BY VersionFacts DEF IndInv, TypeOK, StoreType, BatchType, FeedType, newest
<1>3. \A t : \A n \in 1..newest : Reflects(versions, t, n) => Reflects(versions', t, n)
    BY <1>1, <1>2, Grows DEF newest
<1>4. \A n \in 1..newest : versions'[n] = versions[n]
    BY <1>1, <1>2 DEF newest, Versions
<1>5. UNCHANGED <<hub, view, nextCur, cur, stored, resetting, touched, feed>>
    BY DEF SpokeChanges, batch, cursors, replay
<1>6. failed' = failed /\ synced' = synced
    BY Zenon DEF SpokeChanges
<1>7. CursorsOK'
    BY <1>2, <1>3, <1>5 DEF IndInv, CursorsOK, NoCursor
<1>8. TailOK'
    BY <1>2, <1>3, <1>5, <1>6 DEF IndInv, TailOK
<1>9. feed.kind # "closed" => Live(feed.at)' = Live(feed.at) /\ Rows(feed.at)' = Rows(feed.at)
    BY <1>2, <1>4, <1>5 DEF Live, Rows
<1>10. ReplayOK'
    BY <1>5, <1>6, <1>9 DEF IndInv, ReplayOK
<1> QED BY <1>5, <1>6, <1>7, <1>8, <1>10 DEF IndInv, SessionOK

\* A session opens where the hub's rows are covered.
LEMMA OpenStep ==
    ASSUME IndInv, OpenSession
    PROVE  CursorsOK' /\ SessionOK'
<1>1. /\ UNCHANGED <<versions, hub, cur, stored, resetting, touched>>
      /\ view' = hub /\ nextCur' = NoCursor /\ feed.kind = "closed"
    BY DEF OpenSession, cursors, replay
<1>2. ~synced' /\ ~failed' /\ ~resetting
    BY DEF OpenSession, IndInv, ReplayOK
<1>3. CursorsOK'
    BY <1>1 DEF IndInv, CursorsOK
<1>4. CASE feed' \in Resets
    <2>1. feed'.kind = "reset" /\ feed'.left = Live(feed'.at)
        BY <1>4, ResetsType DEF IndInv
    <2>2. Live(feed.at)' = Live(feed'.at)
        BY <1>1 DEF Live, Rows
    <2> QED BY <1>1, <1>2, <1>3, <2>1, <2>2 DEF SessionOK, TailOK, ReplayOK
<1>5. CASE cur # NoCursor /\ feed' = Resumed(cur)
    <2>1. cur \in Nat /\ Len(versions) \in Nat
        BY VersionFacts DEF IndInv, TypeOK, StoreType
    <2>2. feed'.kind = "tail" /\ feed'.at = cur
        BY <1>5, <2>1, ResumedType
    <2>3. Reflects(versions, hub, cur)
        BY <1>5 DEF IndInv, CursorsOK
    <2> QED BY <1>1, <1>2, <1>3, <2>1, <2>2, <2>3 DEF SessionOK, TailOK, ReplayOK, NoCursor
<1> QED BY <1>4, <1>5 DEF OpenSession

\* A Reset leaves no cursor, or the stream where it was.
LEMMA ResetStep ==
    ASSUME Faults = {}, IndInv, DeliverReset
    PROVE  CursorsOK' /\ SessionOK'
<1>1. versions' = versions /\ feed.kind = "reset" /\ ~resetting /\ ~synced'
    BY DEF DeliverReset, Delivering, IndInv, ReplayOK
<1>2. feed.left = Live(feed.at) /\ Live(feed.at) = {k \in Key : Rows(feed.at)[k] # NoRow}
    BY <1>1 DEF IndInv, ReplayOK, Live
<1>3. CASE ClearCursor /\ resetting' = TRUE /\ touched' = {} /\ feed' = [feed EXCEPT !.kind = "replay"]
    <2>1. cur' = NoCursor /\ stored' = NoCursor /\ nextCur' = NoCursor
        BY <1>3 DEF ClearCursor
    <2>2. feed'.kind = "replay" /\ feed'.at = feed.at /\ feed'.left = feed.left
        BY <1>3 DEF IndInv, TypeOK, FeedType, Feed
    <2>3. resetting'
        BY <1>3, Zenon
    <2>4. CursorsOK'
        BY <2>1 DEF CursorsOK
    <2>5. Live(feed.at)' = Live(feed.at)
        BY <1>1, <2>2 DEF Live, Rows
    <2> QED BY <1>1, <1>2, <1>3, <2>1, <2>2, <2>3, <2>4, <2>5 DEF SessionOK, TailOK, ReplayOK
<1>4. ASSUME UNCHANGED <<resetting, touched, feed>> PROVE SessionOK'
    <2>1. Live(feed.at)' = Live(feed.at)
        BY <1>1, <1>4 DEF Live, Rows
    <2> QED BY <1>1, <1>2, <1>4, <2>1 DEF SessionOK, TailOK, ReplayOK
<1>5. CASE Fail({hub, view}, view, nextCur) /\ UNCHANGED <<resetting, touched, feed>>
    <2>1. Flush(view, nextCur)
        BY <1>5 DEF Flush
    <2>2. CursorsOK'
        BY <2>1, <1>1, FlushKeeps DEF IndInv, CursorsOK
    <2> QED BY <1>4, <1>5, <2>2
<1>6. CASE ClearFails /\ UNCHANGED <<resetting, touched, feed>>
    <2>1. CursorsOK'
        BY <1>1, <1>6 DEF ClearFails, IndInv, CursorsOK
    <2> QED BY <1>4, <1>6, <2>1
<1> QED BY <1>3, <1>5, <1>6 DEF DeliverReset, replay

\* A replayed row brings its key to the replay's version.
LEMMA RowStep ==
    ASSUME Faults = {}, IndInv, DeliverRow
    PROVE  CursorsOK' /\ SessionOK'
<1>1. PICK k \in feed.left :
          /\ Apply(k, Rows(feed.at)[k], nextCur)
          /\ touched' = Touch(k, Rows(feed.at)[k])
          /\ feed' = [feed EXCEPT !.left = @ \ {k}]
    BY DEF DeliverRow
<1>2. versions' = versions /\ feed.kind = "replay" /\ ~failed /\ resetting /\ ~synced
    BY DEF DeliverRow, Delivering, IndInv, ReplayOK
<1>3. synced' = synced /\ resetting' = resetting
    BY Zenon DEF DeliverRow
<1>4. k \in Key /\ feed.at \in 1..Len(versions) /\ feed \in Feed
    BY <1>1, <1>2, VersionFacts DEF IndInv, TypeOK, FeedType, Feed
<1>5. Rows(feed.at)[k] \in Row
    BY <1>4, VersionFacts DEF IndInv, Table
<1>6. PICK u \in Table, n \in Nat : /\ Batched(u, n, nextCur)
                                    /\ \A j \in Key : j # k => u[j] = view[j]
                                    /\ u[k] = Rows(feed.at)[k] \/ Rows(feed.at)[k] \in Opaque
    BY <1>1, <1>4, <1>5, ApplyEffect DEF IndInv
<1>7. /\ cur = NoCursor /\ nextCur = NoCursor
      /\ touched \cup feed.left = Live(feed.at)
      /\ \A j \in touched : view[j] = Rows(feed.at)[j] \/ Rows(feed.at)[j] \in Opaque
    BY <1>2 DEF IndInv, ReplayOK
<1>8. CursorsOK' /\ cur' = NoCursor /\ nextCur' = NoCursor
    BY <1>2, <1>6, <1>7, BatchedKeeps DEF IndInv
<1>9. feed'.kind = "replay" /\ feed'.at = feed.at /\ feed'.left = feed.left \ {k}
    BY <1>1, <1>2, <1>4 DEF Feed
<1>10. Live(feed.at)' = Live(feed.at) /\ Rows(feed.at)' = Rows(feed.at)
    BY <1>2, <1>9 DEF Live, Rows
<1>11. touched' = touched \cup {k} /\ touched \subseteq Key
    BY <1>1, <1>2 DEF Touch, IndInv, TypeOK, FeedType
<1>12. touched' \cup feed'.left = Live(feed.at)
    BY <1>1, <1>7, <1>9, <1>11
<1>13. ~failed' => view' = u
    BY <1>6, BatchedOutcome
<1>14. ~failed' => \A j \in touched' : view'[j] = Rows(feed.at)[j] \/ Rows(feed.at)[j] \in Opaque
    BY <1>6, <1>7, <1>11, <1>13
<1>15. ReplayOK'
    BY <1>2, <1>3, <1>8, <1>9, <1>10, <1>12, <1>14 DEF ReplayOK
<1> QED BY <1>2, <1>3, <1>8, <1>9, <1>15 DEF SessionOK, TailOK

\* Synced brings the hub to the version the stream is at.
LEMMA SyncedStep ==
    ASSUME Faults = {}, IndInv, DeliverSynced
    PROVE  CursorsOK' /\ SessionOK'
<1>1. /\ versions' = versions /\ ~failed
      /\ \/ feed.kind = "replay" /\ feed.left = {}
         \/ feed.kind = "tail" /\ ~synced
    BY DEF DeliverSynced, Delivering
<1>2. feed.at \in 1..Len(versions) /\ Len(versions) \in Nat
    BY <1>1, VersionFacts DEF IndInv, TypeOK, FeedType
<1>3. Reflects(versions, Without(view, Stale), feed.at)
    BY <1>1, SweepExact DEF IndInv
<1>4. ASSUME NEW ks \in SUBSET Stale, cur # NoCursor
      PROVE  Reflects(versions, Without(view, ks), cur)
    <2>1. feed.kind # "replay"
        BY <1>4 DEF IndInv, ReplayOK
    <2>2. Without(view, ks) = view
        BY <2>1, <1>4, NothingSwept DEF IndInv
    <2> QED BY <1>4, <2>2 DEF IndInv, CursorsOK
<1>5. CASE /\ Flushed(Without(view, Stale), feed.at)
           /\ resetting' = FALSE /\ feed' = Resumed(feed.at)
    <2>1. Flush(Without(view, Stale), feed.at)
        BY <1>5 DEF Flush
    <2>2. CursorsOK'
        BY <2>1, <1>1, <1>3, <1>4, FlushKeeps DEF IndInv
    <2>3. feed'.kind = "tail" /\ feed'.at = feed.at
        BY <1>2, <1>5, ResumedType
    <2>4. cur' = feed.at /\ nextCur' = NoCursor /\ view' = Without(view, Stale)
        BY <1>2, <1>5 DEF Flushed, NoCursor
    <2>5. ~resetting'
        BY <1>5, Zenon
    <2> QED BY <1>1, <1>2, <1>3, <2>2, <2>3, <2>4, <2>5 DEF SessionOK, TailOK, ReplayOK, NoCursor
<1>6. CASE /\ Fail({hub} \cup {Without(view, ks) : ks \in SUBSET Stale},
                   Without(view, Stale), feed.at)
           /\ UNCHANGED <<resetting, touched, feed, synced>>
    <2>1. hub' \in {hub} \cup {Without(view, ks) : ks \in SUBSET Stale}
          /\ stored' = stored /\ cur' = cur
        BY <1>6, LeftEffect DEF Fail
    <2>2. view' = hub' /\ nextCur' = NoCursor
        BY <1>6 DEF Fail
    <2>3. failed'
        BY <1>6, Zenon DEF Fail
    <2>4. CursorsOK'
        BY <1>1, <1>4, <2>1, <2>2 DEF IndInv, CursorsOK
    <2>5. ReplayOK'
        BY <1>1, <1>6, <2>1, <2>2, <2>3 DEF IndInv, ReplayOK
    <2> QED BY <1>6, <2>3, <2>4, <2>5 DEF IndInv, SessionOK, TailOK
<1> QED BY <1>5, <1>6 DEF DeliverSynced, Synced, replay

\* A change brings the rows to its version and leaves the cursors covered.
LEMMA TailStep ==
    ASSUME Faults = {}, IndInv, DeliverChange
    PROVE  CursorsOK' /\ SessionOK'
<1> DEFINE at == feed.at
           k == versions[at + 1].key
           v == Rows(at + 1)[k]
<1>1. versions' = versions /\ feed.kind = "tail" /\ at < newest /\ ~failed /\ ~resetting
    BY DEF DeliverChange, Delivering, IndInv, ReplayOK
<1>2. synced' = synced /\ resetting' = resetting
    BY Zenon DEF DeliverChange
<1>3. Apply(k, v, at + 1) /\ feed' = [feed EXCEPT !.at = @ + 1]
    BY DEF DeliverChange
<1>4. /\ at \in Nat \ {0} /\ at + 1 <= Len(versions) /\ at + 1 \in 2..newest
      /\ versions \in Versions /\ k \in Key /\ v \in Row
    BY <1>1, NextChange, VersionFacts DEF IndInv, newest
<1>5. /\ cur \in 0..at /\ nextCur \in 0..at
      /\ Reflects(versions, view, at)
    BY <1>1 DEF IndInv, TailOK, TypeOK, StoreType, BatchType
<1>6. \A j \in Key : j # k => versions[at + 1].rows[j] = versions[at].rows[j]
    BY <1>4 DEF IndInv, VersionsOK, Rows
<1>7. v = versions[at + 1].rows[k]
    BY DEF Rows
<1> HIDE DEF v
<1>8. PICK u \in Table, n \in Nat : /\ Batched(u, n, at + 1)
                                    /\ \A j \in Key : j # k => u[j] = view[j]
                                    /\ u[k] = v \/ v \in Opaque
    BY <1>3, <1>4, ApplyEffect DEF IndInv
<1>9. Reflects(versions, u, at + 1)
    BY <1>4, <1>5, <1>6, <1>7, <1>8, Advance
<1>10. cur # NoCursor => Reflects(versions, u, cur)
    <2>1. HAVE cur # NoCursor
    <2>2. cur \in 1..at /\ Reflects(versions, view, cur)
        BY <2>1, <1>4, <1>5 DEF NoCursor, IndInv, CursorsOK
    <2> QED BY <2>2, <1>4, <1>8, WriteLater
<1>11. CursorsOK' /\ cur' \in {cur, at + 1} /\ nextCur' \in {NoCursor, at + 1}
    BY <1>1, <1>8, <1>9, <1>10, BatchedKeeps DEF IndInv
<1>12. feed'.kind = "tail" /\ feed'.at = at + 1
    BY <1>1, <1>3 DEF IndInv, TypeOK, FeedType, Feed
<1>13. ~failed' => view' = u
    BY <1>8, BatchedOutcome
<1>14. TailOK'
    BY <1>1, <1>4, <1>5, <1>9, <1>11, <1>12, <1>13 DEF TailOK, NoCursor
<1>15. ReplayOK'
    BY <1>1, <1>2, <1>12 DEF ReplayOK
<1> QED BY <1>11, <1>12, <1>14, <1>15 DEF SessionOK

\* A timed flush commits what the stream delivered.
LEMMA TickStep ==
    ASSUME Faults = {}, IndInv, FlushTick
    PROVE  CursorsOK' /\ SessionOK'
<1>1. UNCHANGED <<versions, touched, feed>> /\ Flush(view, nextCur) /\ ~failed
    BY DEF FlushTick, replay
<1>2. synced' = synced /\ resetting' = resetting
    BY Zenon DEF FlushTick, replay
<1>3. CursorsOK' /\ cur' \in {cur, nextCur} /\ nextCur' = NoCursor
    BY <1>1, FlushKeeps DEF IndInv, CursorsOK
<1>4. ~failed' => view' = view
    BY <1>1, FlushOutcome
<1>5. feed.at \in Nat /\ cur \in Nat /\ nextCur \in Nat /\ Len(versions) \in Nat
    BY VersionFacts DEF IndInv, TypeOK, FeedType, StoreType, BatchType
<1>6. TailOK'
    BY <1>1, <1>3, <1>4, <1>5 DEF IndInv, TailOK, NoCursor
<1>7. Live(feed.at)' = Live(feed.at) /\ Rows(feed.at)' = Rows(feed.at)
    BY <1>1 DEF Live, Rows
<1>8. ReplayOK'
    BY <1>1, <1>2, <1>3, <1>4, <1>7 DEF IndInv, ReplayOK
<1> QED BY <1>1, <1>2, <1>3, <1>6, <1>8 DEF IndInv, SessionOK

\* A WatchResync of a source without overlap goes on where it was or starts anew.
LEMMA ResyncStep ==
    ASSUME Faults = {}, IndInv, DeliverResync
    PROVE  CursorsOK' /\ SessionOK'
<1>1. /\ UNCHANGED <<versions, hub, view, nextCur, cur, stored, touched>>
      /\ feed.kind = "tail" /\ ~failed /\ ~synced' /\ ~resetting
    BY DEF DeliverResync, Delivering, batch, cursors, replay, IndInv, ReplayOK
<1>2. resetting' = resetting /\ failed' = failed
    BY Zenon DEF DeliverResync, replay
<1>3. CursorsOK'
    BY <1>1 DEF IndInv, CursorsOK
<1>4. CASE feed' \in Resets
    <2>1. feed'.kind = "reset" /\ feed'.left = Live(feed'.at)
        BY <1>4, ResetsType DEF IndInv
    <2>2. Live(feed.at)' = Live(feed'.at)
        BY <1>1 DEF Live, Rows
    <2> QED BY <1>1, <1>2, <1>3, <2>1, <2>2 DEF SessionOK, TailOK, ReplayOK
<1>5. CASE feed' = Resumed(feed.at)
    <2>1. feed.at \in Nat
        BY VersionFacts DEF IndInv, TypeOK, FeedType
    <2>2. feed'.kind = "tail" /\ feed'.at = feed.at
        BY <1>5, <2>1, ResumedType
    <2> QED BY <1>1, <1>2, <1>3, <2>2 DEF IndInv, SessionOK, TailOK, ReplayOK
<1> QED BY <1>4, <1>5 DEF DeliverResync

\* The end of a session, with or without a last flush.
LEMMA CloseStep ==
    ASSUME Faults = {}, IndInv, CloseFailed \/ CloseSession
    PROVE  CursorsOK' /\ SessionOK'
<1>1. versions' = versions /\ feed' = Closed
    BY DEF CloseFailed, CloseSession, EndSession
<1>2. resetting' = FALSE /\ synced' = FALSE
    BY Zenon DEF CloseFailed, CloseSession, EndSession
<1>3. CloseFailed => CursorsOK'
    BY <1>1 DEF CloseFailed, batch, cursors, IndInv, CursorsOK
<1>4. CloseSession => CursorsOK'
    BY <1>1, FlushKeeps DEF CloseSession, IndInv, CursorsOK
<1> QED BY <1>1, <1>2, <1>3, <1>4, ClosedSession

\* A crash leaves the stored cursor, which is covered.
LEMMA CrashStep ==
    ASSUME IndInv, Crash
    PROVE  CursorsOK' /\ SessionOK'
<1>1. /\ cur' = stored /\ stored' = stored /\ hub' = hub /\ view' = hub
      /\ nextCur' = NoCursor /\ versions' = versions /\ feed' = Closed
    BY DEF Crash
<1>2. resetting' = FALSE /\ synced' = FALSE
    BY Zenon DEF Crash
<1>3. CursorsOK'
    BY <1>1 DEF IndInv, CursorsOK
<1> QED BY <1>1, <1>2, <1>3, ClosedSession

\* A stuttering step changes nothing.
LEMMA StutterStep ==
    ASSUME IndInv, UNCHANGED vars
    PROVE  CursorsOK' /\ SessionOK'
<1>1. UNCHANGED <<versions, hub, view, nextCur, cur, stored, touched, feed>>
    BY DEF vars
<1>2. failed' = failed /\ resetting' = resetting /\ synced' = synced
    BY Zenon DEF vars
<1>3. Live(feed.at)' = Live(feed.at) /\ Rows(feed.at)' = Rows(feed.at)
    BY <1>1 DEF Live, Rows
<1>4. CursorsOK'
    BY <1>1 DEF IndInv, CursorsOK
<1>5. TailOK'
    BY <1>1, <1>2 DEF IndInv, TailOK
<1>6. ReplayOK'
    BY <1>1, <1>2, <1>3 DEF IndInv, ReplayOK
<1> QED BY <1>1, <1>2, <1>4, <1>5, <1>6 DEF IndInv, SessionOK

\* The invariant is inductive.
LEMMA IndStep ==
    ASSUME Faults = {}, IndInv, [Next]_vars
    PROVE  IndInv'
<1>1. TypeOK' /\ VersionsOK'
    BY TypeStep, VersionsStep DEF IndInv
<1>2. CursorsOK' /\ SessionOK'
    BY ChangeStep, OpenStep, ResetStep, RowStep, SyncedStep, TailStep, TickStep, ResyncStep,
       CloseStep, CrashStep, StutterStep DEF Next, Runner
<1> QED BY <1>1, <1>2 DEF IndInv, SessionOK

\* It holds at first.
LEMMA IndStart ==
    ASSUME Init
    PROVE  IndInv
<1>1. TypeOK
    BY TypeInit
<1>2. VersionsOK
    BY DEF Init, VersionsOK, newest
<1>3. CursorsOK
    BY DEF Init, CursorsOK
<1>4. feed.kind = "closed" /\ ~synced /\ ~resetting
    BY ClosedType DEF Init
<1> QED BY <1>1, <1>2, <1>3, <1>4 DEF IndInv, TailOK, ReplayOK

-----------------------------------------------------------------------------
(***************************************************************************)
(* No row vanishes.                                                        *)
(***************************************************************************)
\* Rows t lack only such committed rows as some version lacked.
Lawful(t) == \A k \in Key : hub[k] # NoRow /\ t[k] = NoRow =>
                 \E i \in 1..newest : Rows(i)[k] = NoRow

\* The open transaction deletes nothing else.
VanishOK == Lawful(view)

\* A flush commits all or nothing.
LEMMA FlushRows ==
    ASSUME NEW v, NEW c, Flush(v, c)
    PROVE  hub' \in {hub, v} /\ view' = hub'
BY DEF Flush, Flushed, Fail, Left

\* Applying a row or a delete that some version has deletes lawfully.
LEMMA ApplyLawful ==
    ASSUME TypeOK, VanishOK, NEW k \in Key, NEW c, NEW n \in 1..newest,
           Apply(k, Rows(n)[k], c)
    PROVE  Lawful(hub') /\ (view' = hub' \/ (hub' = hub /\ Lawful(view')))
<1>1. Rows(n)[k] \in Row
    BY VersionFacts DEF newest, Table
<1>2. PICK u \in Table, m \in Nat : /\ Batched(u, m, c)
                                    /\ \A j \in Key : j # k => u[j] = view[j]
                                    /\ u[k] = Rows(n)[k] \/ Rows(n)[k] \in Opaque
                                    /\ u[k] # Rows(n)[k] => u[k] = view[k]
    <2>1. view \in Table /\ pending \in Nat /\ pending + 1 \in Nat
        BY DEF TypeOK, BatchType
    <2>2. CASE Skipped(k, Rows(n)[k])
        BY <2>1, <2>2 DEF Apply, Skipped
    <2>3. CASE ~Skipped(k, Rows(n)[k])
        <3> DEFINE u == [view EXCEPT ![k] = Rows(n)[k]]
        <3>1. Batched(u, pending + 1, c)
            BY <2>3 DEF Apply
        <3>2. u \in Table /\ u[k] = Rows(n)[k] /\ \A j \in Key : j # k => u[j] = view[j]
            BY <1>1, <2>1 DEF Table
        <3> HIDE DEF u
        <3> QED BY <2>1, <3>1, <3>2
    <2> QED BY <2>2, <2>3
<1>3. Lawful(u) /\ Lawful(hub)
    BY <1>2 DEF VanishOK, Lawful
<1>4. CASE m >= MaxBatch
    BY <1>2, <1>3, <1>4, FlushRows DEF Batched
<1>5. CASE ~(m >= MaxBatch)
    BY <1>2, <1>3, <1>5 DEF Batched
<1> QED BY <1>4, <1>5

\* A sweep, whole or cut short, deletes lawfully.
LEMMA SweepLawful ==
    ASSUME IndInv, VanishOK, DeliverSynced, NEW ks \in SUBSET Stale
    PROVE  Lawful(Without(view, ks))
<1>1. CASE feed.kind = "replay"
    <2>1. ~failed /\ feed.left = {} /\ feed.at \in 1..newest
        BY <1>1, VersionFacts DEF DeliverSynced, Delivering, IndInv, TypeOK, FeedType, newest
    <2>2. touched = Live(feed.at)
        BY <1>1, <2>1 DEF IndInv, ReplayOK
    <2>3. \A k \in ks : k \in Key /\ Rows(feed.at)[k] = NoRow
        BY <2>2 DEF Stale, Live
    <2>4. \A k \in Key \ ks : Without(view, ks)[k] = view[k]
        BY DEF Without
    <2> QED BY <2>1, <2>3, <2>4 DEF VanishOK, Lawful
<1>2. CASE feed.kind # "replay"
    BY <1>2, NothingSwept DEF IndInv, VanishOK
<1> QED BY <1>1, <1>2

\* A step of the sink deletes lawfully, at once or in its transaction.
LEMMA LawfulStep ==
    ASSUME IndInv, VanishOK, Next, ~SpokeChanges
    PROVE  /\ versions' = versions
           /\ Lawful(hub') /\ (view' = hub' \/ (hub' = hub /\ Lawful(view')))
<1>0. Lawful(hub) /\ Lawful(view)
    BY DEF VanishOK, Lawful
<1>1. CASE OpenSession \/ Crash
    BY <1>0, <1>1 DEF OpenSession, Crash
<1>2. CASE DeliverResync \/ CloseFailed
    BY <1>0, <1>2 DEF DeliverResync, CloseFailed, EndSession, batch
<1>3. CASE FlushTick \/ CloseSession
    BY <1>0, <1>3, FlushRows DEF FlushTick, CloseSession, EndSession
<1>4. CASE DeliverReset
    <2>1. hub' \in {hub, view} /\ versions' = versions
        BY <1>4 DEF DeliverReset, ClearCursor, ClearFails, Fail, Left
    <2>2. view' = hub'
        BY <1>4 DEF DeliverReset, ClearCursor, ClearFails, Fail
    <2> QED BY <1>0, <2>1, <2>2
<1>5. CASE DeliverRow
    <2>1. feed.at \in 1..newest /\ feed.left \subseteq Key /\ versions' = versions
        BY <1>5, VersionFacts DEF DeliverRow, Delivering, IndInv, TypeOK, FeedType, Feed, newest
    <2>2. PICK k \in feed.left : Apply(k, Rows(feed.at)[k], nextCur)
        BY <1>5 DEF DeliverRow
    <2> QED BY <2>1, <2>2, ApplyLawful DEF IndInv
<1>6. CASE DeliverChange
    <2> DEFINE k == versions[feed.at + 1].key
    <2>1. versions' = versions /\ feed.kind = "tail" /\ feed.at < newest
        BY <1>6 DEF DeliverChange, Delivering
    <2>2. k \in Key /\ feed.at + 1 \in 1..newest
        BY <2>1, NextChange, VersionFacts DEF IndInv, newest
    <2>3. Apply(k, Rows(feed.at + 1)[k], feed.at + 1)
        BY <1>6 DEF DeliverChange
    <2> HIDE DEF k
    <2> QED BY <2>1, <2>2, <2>3, ApplyLawful DEF IndInv
<1>7. CASE DeliverSynced
    <2>1. versions' = versions /\ view' = hub'
        BY <1>7 DEF DeliverSynced, Synced, Flushed, Fail
    <2>2. hub' \in {hub} \cup {Without(view, ks) : ks \in SUBSET Stale}
        BY <1>7 DEF DeliverSynced, Synced, Flushed, Fail, Left
    <2> QED BY <1>0, <1>7, <2>1, <2>2, SweepLawful
<1> QED BY <1>1, <1>2, <1>3, <1>4, <1>5, <1>6, <1>7 DEF Next, Runner

\* A change at the spoke leaves the hub's rows, and every version, alone.
LEMMA LawfulChange ==
    ASSUME TypeOK, VanishOK, SpokeChanges
    PROVE  VanishOK' /\ hub' = hub
<1>1. hub' = hub /\ view' = view
    BY DEF SpokeChanges, batch
<1>2. PICK e : versions' = Append(versions, e) /\ e \in Version
    <2>1. PICK k \in Key, v \in Row :
              versions' = Append(versions, [key |-> k, rows |-> [Rows(newest) EXCEPT ![k] = v]])
        BY DEF SpokeChanges
    <2>2. [key |-> k, rows |-> [Rows(newest) EXCEPT ![k] = v]] \in Version
        BY VersionFacts DEF Version, Table, newest
    <2> QED BY <2>1, <2>2
<1>3. /\ newest \in Nat /\ newest' = newest + 1
      /\ \A i \in 1..newest : versions'[i] = versions[i]
    BY <1>2, VersionFacts DEF newest, Versions
<1>4. \A i \in 1..newest : i \in 1..newest' /\ Rows(i)' = Rows(i)
    BY <1>3 DEF Rows
<1> QED BY <1>1, <1>4 DEF VanishOK, Lawful

-----------------------------------------------------------------------------
(***************************************************************************)
(* The theorems.                                                           *)
(***************************************************************************)
\* Whatever the source, the sink's state keeps its types: a batch never holds
\* maxBatch writes and no cursor is ahead of the source (apply, Flush).
THEOREM TypeCorrect == Spec => []TypeOK
<1>1. Init => TypeOK /\ VersionsOK
    BY IndStart DEF IndInv
<1>2. TypeOK /\ VersionsOK /\ [Next]_vars => (TypeOK /\ VersionsOK)'
    BY TypeStep, VersionsStep
<1> QED BY <1>1, <1>2, PTL DEF Spec

\* IndInv is an invariant of a source without FaultKinds.
THEOREM Inductive == ASSUME Faults = {} PROVE Spec => []IndInv
<1>1. Init => IndInv
    BY IndStart
<1>2. IndInv /\ [Next]_vars => IndInv'
    BY IndStep
<1> QED BY <1>1, <1>2, PTL DEF Spec

\* The stored cursor never covers a change the hub does not have, however
\* sessions, failures and crashes interleave (Flush, fail, clearCursor).
THEOREM CursorIsCovered == ASSUME Faults = {} PROVE Spec => []CursorCovered
<1>1. IndInv => CursorCovered
    BY DEF IndInv, CursorsOK, CursorCovered
<1> QED BY <1>1, Inductive, PTL

\* A sink that reports Synced holds exactly what the source had (sweep).
THEOREM SyncedIsExact == ASSUME Faults = {} PROVE Spec => []SyncedExact
<1>1. IndInv => SyncedExact
    BY DEF IndInv, TailOK, SyncedExact
<1> QED BY <1>1, Inductive, PTL

\* No committed row goes unless some version of the source lacked it: not in a
\* replay, cut short or not, and not because its ad was identical or could not
\* be decoded (sweep, EndSession, undecodable).
THEOREM NothingVanishes == ASSUME Faults = {} PROVE Spec => NoVanish
<1>1. Init => VanishOK
    BY DEF Init, VanishOK, Lawful
<1>2. IndInv /\ VanishOK /\ [Next]_vars => VanishOK'
    <2> SUFFICES ASSUME IndInv, VanishOK, [Next]_vars PROVE VanishOK'
        OBVIOUS
    <2>1. CASE SpokeChanges
        BY <2>1, LawfulChange DEF IndInv
    <2>2. CASE Next /\ ~SpokeChanges
        <3>1. /\ versions' = versions
              /\ Lawful(hub') /\ (view' = hub' \/ (hub' = hub /\ Lawful(view')))
            BY <2>2, LawfulStep
        <3> QED BY <3>1 DEF VanishOK, Lawful, newest, Rows
    <2>3. CASE UNCHANGED vars
        BY <2>3 DEF vars, VanishOK, Lawful, newest, Rows
    <2> QED BY <2>1, <2>2, <2>3
<1>3. IndInv /\ VanishOK /\ [Next]_vars =>
          [\A k \in Key : hub[k] # NoRow /\ hub'[k] = NoRow =>
              \E i \in 1..newest : Rows(i)[k] = NoRow]_vars
    <2> SUFFICES ASSUME IndInv, VanishOK, Next
                 PROVE  \A k \in Key : hub[k] # NoRow /\ hub'[k] = NoRow =>
                            \E i \in 1..newest : Rows(i)[k] = NoRow
        OBVIOUS
    <2>1. CASE SpokeChanges
        BY <2>1, LawfulChange DEF IndInv
    <2>2. CASE ~SpokeChanges
        BY <2>2, LawfulStep DEF Lawful
    <2> QED BY <2>1, <2>2
<1> QED BY <1>1, <1>2, <1>3, Inductive, PTL DEF Spec, NoVanish
=============================================================================
