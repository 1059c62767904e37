----------------------------- MODULE TableSink -----------------------------
(***************************************************************************)
(* federate.tableSink fed by a cedarsync.Runner: the replication of one    *)
(* spoke's mutable table into a hub.  The Runner opens a watch session at  *)
(* the sink's committed cursor, hands every event to the sink, flushes it  *)
(* on a timer and once more when the session ends; the sink batches writes *)
(* in a transaction, commits it before the cursor that covers it, and      *)
(* reconciles a Reset replay by sweeping at Synced what was not replayed.  *)
(*                                                                         *)
(* The spoke's table is a sequence of versions, one more per change, and a *)
(* cursor is a position in it.  The rows are those of one schedd: HubKey   *)
(* keeps the schedds apart.  One goroutine runs it all, so an action is an *)
(* event, a timer tick or the end of a session; a crash inside one leaves  *)
(* what a failure inside it leaves.                                        *)
(***************************************************************************)
EXTENDS Integers, Sequences, FiniteSets

CONSTANTS
    Key, NoKey,
    Val, NoRow,
    Opaque,      \* values whose ad the hub cannot decode
    MaxBatch,    \* writes one transaction carries (maxBatch)
    MaxLag,      \* changes an HA peer of the spoke may lag behind
    Faults,      \* which of FaultKinds the environment may produce
    MaxVersion, MaxClose, MaxCrash, MaxFail, MaxResync   \* bounds

(***************************************************************************)
(* Behaviour of the environment that is switched per run:                  *)
(*   overlap      after a WatchResync the source delivers again changes    *)
(*                that it delivered before;                                *)
(*   late_error   a cursor save reports an error after the new cursor has  *)
(*                replaced the old one (the directory's fsync failed).     *)
(***************************************************************************)
FaultKinds == {"overlap", "late_error"}

NoCursor == 0
Row == Val \cup {NoRow}
Table == [Key -> Row]
Version == [key : Key \cup {NoKey}, rows : Table]
Budget == [close : Nat, crash : Nat, resync : Nat]

ASSUME KeyAssumption == NoKey \notin Key /\ NoRow \notin Val /\ Opaque \subseteq Val
ASSUME BoundAssumption ==
    /\ Faults \subseteq FaultKinds
    /\ {MaxLag, MaxClose, MaxCrash, MaxFail, MaxResync} \subseteq Nat
    /\ {MaxBatch, MaxVersion} \subseteq Nat \ {0}

VARIABLES
    versions,   \* the spoke's table after each change, with the key it changed
    hub,        \* the committed rows
    view,       \* the rows as the open transaction sees them (hub if none)
    pending,    \* writes in the open transaction
    nextCur,    \* the cursor to save once it commits
    cur,        \* the committed cursor, the sink's copy
    stored,     \* the cursor store
    failed,     \* a batch was dropped in this session
    catchup,    \* before this session's Synced
    resetting,  \* a Reset replay is in progress
    touched,    \* the keys it delivered
    feed,       \* the watch stream: what it delivers next
    synced,     \* Status.Synced
    fails,      \* how many commits and saves may still fail
    budget      \* what else the environment may still do

batch == <<view, pending, nextCur>>
cursors == <<cur, stored>>
replay == <<resetting, touched>>
vars == <<versions, hub, view, pending, nextCur, cur, stored, failed, catchup,
          resetting, touched, feed, synced, fails, budget>>

\* kind: the next event is none (closed), the Reset, a row of the replay or
\* the Synced that ends it, or a change; at: the version the stream is at.
Feed == [kind : {"closed", "reset", "replay", "tail"}, at : Nat, left : SUBSET Key]
Closed == [kind |-> "closed", at |-> 0, left |-> {}]

VersionType == versions \in Seq(Version) /\ Len(versions) > 0
StoreType == hub \in Table /\ cur \in 0..Len(versions) /\ stored \in 0..Len(versions)
BatchType ==
    view \in Table /\ pending \in 0..MaxBatch - 1 /\ nextCur \in 0..Len(versions)
FlagType ==
    failed \in BOOLEAN /\ catchup \in BOOLEAN /\ resetting \in BOOLEAN /\ synced \in BOOLEAN
FeedType ==
    /\ touched \subseteq Key
    /\ feed \in Feed /\ feed.at \in 0..Len(versions)
    /\ feed.kind # "closed" => feed.at # 0
BudgetType == fails \in Nat /\ budget \in Budget

TypeOK == VersionType /\ StoreType /\ BatchType /\ FlagType /\ FeedType /\ BudgetType

newest == Len(versions)
Rows(n) == versions[n].rows
Live(n) == {k \in Key : Rows(n)[k] # NoRow}

Spends(what) == budget[what] > 0 /\ budget' = [budget EXCEPT ![what] = @ - 1]

-----------------------------------------------------------------------------
(***************************************************************************)
(* The spoke (external).                                                   *)
(***************************************************************************)
SpokeChanges ==
    /\ newest < MaxVersion
    /\ \E k \in Key, v \in Row :
        /\ v # Rows(newest)[k]
        /\ versions' = Append(versions,
                              [key |-> k, rows |-> [Rows(newest) EXCEPT ![k] = v]])
    /\ UNCHANGED <<hub, batch, cursors, failed, catchup, replay, feed, synced, fails,
                   budget>>

\* A new watch: from the cursor on, or, for whatever reason, all over again,
\* and then perhaps from an HA peer that lags.
Resumed(n) == [kind |-> "tail", at |-> n, left |-> {}]
Resets == {[kind |-> "reset", at |-> n, left |-> Live(n)] : n \in {m \in 1..newest : m + MaxLag >= newest}}

-----------------------------------------------------------------------------
(***************************************************************************)
(* Flushing.                                                               *)
(***************************************************************************)
\* flush, with rows v and cursor c pending: commit, then save.
Flushed(v, c) ==
    /\ hub' = v /\ view' = v /\ pending' = 0
    /\ nextCur' = NoCursor
    /\ IF c = NoCursor THEN UNCHANGED cursors ELSE cur' = c /\ stored' = c
    /\ UNCHANGED <<failed, fails>>

SpendsFail == fails > 0 /\ fails' = fails - 1

\* What a failure leaves: one of rows with the old cursor or, if the save had
\* done its work when it failed, v with the new one.
Left(rows, v, c) ==
    /\ \/ hub' \in rows /\ UNCHANGED stored
       \/ "late_error" \in Faults /\ c # NoCursor /\ hub' = v /\ stored' = c
    /\ UNCHANGED cur

\* (Mutant: the cursor that covers the dropped batch outlives it.)
FailKeepsCursor(rows, v, c) ==
    /\ SpendsFail /\ Left(rows, v, c)
    /\ view' = hub' /\ pending' = 0 /\ nextCur' = c
    /\ UNCHANGED failed

\* fail: the batch and its cursor are dropped, and no other cursor is saved in
\* this session.
Fail(rows, v, c) ==
    /\ SpendsFail /\ Left(rows, v, c)
    /\ view' = hub' /\ pending' = 0 /\ nextCur' = NoCursor
    /\ failed' = TRUE

Flush(v, c) == Flushed(v, c) \/ Fail({hub, v}, v, c)

\* The end of apply: flush once the batch is full.
Batched(v, n, c) ==
    IF n >= MaxBatch THEN Flush(v, c)
    ELSE /\ view' = v /\ pending' = n /\ nextCur' = c
         /\ UNCHANGED <<hub, cursors, failed, fails>>

-----------------------------------------------------------------------------
(***************************************************************************)
(* Events.                                                                 *)
(***************************************************************************)
Delivering(kind) == feed.kind = kind /\ ~failed

\* (Mutant: a row that is identical to the stored one is not recorded.)
TouchWritten(k, v) ==
    IF resetting /\ view[k] # v THEN touched \cup {k} ELSE touched

\* undecodable, upsert: a replayed key is recorded, even if its ad is not decoded.
Touch(k, v) == IF resetting THEN touched \cup {k} ELSE touched

\* upsert and delete: what is undecodable, identical during catch-up or
\* already absent is not written.
Skipped(k, v) == v \in Opaque \/ (view[k] = v /\ (catchup \/ v = NoRow))

Apply(k, v, c) ==
    IF Skipped(k, v) THEN Batched(view, pending, c)
    ELSE Batched([view EXCEPT ![k] = v], pending + 1, c)

DeliverChange ==
    /\ Delivering("tail") /\ feed.at < newest
    /\ LET k == versions[feed.at + 1].key
           v == Rows(feed.at + 1)[k]
       IN /\ Apply(k, v, feed.at + 1)
          /\ touched' = IF v = NoRow THEN touched ELSE Touch(k, v)
    /\ feed' = [feed EXCEPT !.at = @ + 1]
    /\ UNCHANGED <<versions, catchup, resetting, synced, budget>>

\* The rows of a replay carry no cursor.
DeliverRow ==
    /\ Delivering("replay")
    /\ \E k \in feed.left :
        /\ Apply(k, Rows(feed.at)[k], nextCur)
        /\ touched' = Touch(k, Rows(feed.at)[k])
        /\ feed' = [feed EXCEPT !.left = @ \ {k}]
    /\ UNCHANGED <<versions, catchup, resetting, synced, budget>>

\* (Mutant: the committed cursor survives the Reset.)
KeepCursor == Flushed(view, nextCur)

\* flush, then clearCursor.
ClearCursor ==
    /\ hub' = view /\ pending' = 0 /\ nextCur' = NoCursor
    /\ cur' = NoCursor /\ stored' = NoCursor
    /\ UNCHANGED <<view, failed, fails>>

\* The flush went well; clearing the store failed, before or after it was cleared.
ClearFails ==
    /\ SpendsFail
    /\ hub' = view /\ pending' = 0 /\ nextCur' = NoCursor
    /\ cur' = (IF nextCur = NoCursor THEN cur ELSE nextCur)
    /\ stored' \in {IF nextCur = NoCursor THEN stored ELSE nextCur, NoCursor}
    /\ failed' = TRUE
    /\ UNCHANGED view

\* Reset: flush, forget the cursor, and record what the replay delivers.
DeliverReset ==
    /\ Delivering("reset")
    /\ \/ /\ ClearCursor
          /\ resetting' = TRUE /\ touched' = {} /\ catchup' = TRUE
          /\ feed' = [feed EXCEPT !.kind = "replay"]
       \/ /\ Fail({hub, view}, view, nextCur) \/ ClearFails
          /\ UNCHANGED <<replay, catchup, feed>>
    /\ synced' = FALSE
    /\ UNCHANGED <<versions, budget>>

Without(rows, ks) == [k \in Key |-> IF k \in ks THEN NoRow ELSE rows[k]]

\* (Mutant: a Reset is not reconciled.)
NothingStale == {}

\* sweep: this schedd's rows that the replay did not deliver.
Stale == IF resetting THEN {k \in Key : view[k] # NoRow /\ k \notin touched} ELSE {}

\* Synced: commit, sweep in batches, and save the cursor last.
Synced ==
    \/ /\ Flushed(Without(view, Stale), feed.at)
       /\ resetting' = FALSE /\ touched' = {} /\ catchup' = FALSE
       /\ synced' = TRUE
       /\ feed' = Resumed(feed.at)
    \/ /\ Fail({hub} \cup {Without(view, ks) : ks \in SUBSET Stale},
               Without(view, Stale), feed.at)
       /\ UNCHANGED <<replay, catchup, synced, feed>>

DeliverSynced ==
    /\ \/ Delivering("replay") /\ feed.left = {}
       \/ Delivering("tail") /\ ~synced
    /\ Synced
    /\ UNCHANGED <<versions, budget>>

\* WatchResync: the source re-enters catch-up; the sink is not told.
DeliverResync ==
    /\ Delivering("tail")
    /\ Spends("resync")
    /\ feed' \in Resets \cup
         {Resumed(n) : n \in IF "overlap" \in Faults THEN 1..feed.at ELSE {feed.at}}
    /\ synced' = FALSE
    /\ UNCHANGED <<versions, hub, batch, cursors, failed, fails, catchup, replay>>

-----------------------------------------------------------------------------
(***************************************************************************)
(* Sessions.                                                               *)
(***************************************************************************)
OpenSession ==
    /\ feed.kind = "closed"
    /\ feed' \in Resets \cup (IF cur = NoCursor THEN {} ELSE {Resumed(cur)})
    /\ view' = hub /\ pending' = 0 /\ nextCur' = NoCursor
    /\ failed' = FALSE /\ catchup' = TRUE
    /\ synced' = FALSE
    /\ UNCHANGED <<versions, hub, cursors, replay, fails, budget>>

\* The flush timer.
FlushTick ==
    /\ feed.kind # "closed" /\ ~failed
    /\ Flush(view, nextCur)
    /\ UNCHANGED <<versions, catchup, replay, feed, synced, budget>>

EndSession ==
    /\ resetting' = FALSE /\ touched' = {}
    /\ feed' = Closed
    /\ synced' = FALSE
    /\ UNCHANGED <<versions, catchup>>

\* A failed sink is not flushed again.
CloseFailed ==
    /\ feed.kind # "closed" /\ failed
    /\ EndSession
    /\ UNCHANGED <<hub, batch, cursors, failed, fails, budget>>

\* The stream ends, or the Runner is stopped: one last flush.
CloseSession ==
    /\ feed.kind # "closed" /\ ~failed
    /\ Spends("close")
    /\ Flush(view, nextCur)
    /\ EndSession

\* The process ends, and a new one loads the stored cursor.
Crash ==
    /\ Spends("crash")
    /\ cur' = stored
    /\ view' = hub /\ pending' = 0 /\ nextCur' = NoCursor
    /\ failed' = FALSE /\ catchup' = TRUE
    /\ resetting' = FALSE /\ touched' = {}
    /\ feed' = Closed
    /\ synced' = FALSE
    /\ UNCHANGED <<versions, hub, stored, fails>>

-----------------------------------------------------------------------------
Init ==
    /\ \E r \in Table : versions = <<[key |-> NoKey, rows |-> r]>>
    /\ hub = [k \in Key |-> NoRow] /\ view = hub
    /\ pending = 0 /\ nextCur = NoCursor
    /\ cur = NoCursor /\ stored = NoCursor
    /\ failed = FALSE /\ catchup = TRUE
    /\ resetting = FALSE /\ touched = {}
    /\ feed = Closed
    /\ synced = FALSE
    /\ fails = MaxFail
    /\ budget = [close |-> MaxClose, crash |-> MaxCrash, resync |-> MaxResync]

Runner ==
    \/ OpenSession \/ DeliverReset \/ DeliverRow \/ DeliverSynced \/ DeliverChange
    \/ FlushTick \/ CloseFailed

Next == SpokeChanges \/ Runner \/ DeliverResync \/ CloseSession \/ Crash

Spec == Init /\ [][Next]_vars

\* The Runner's loop runs for as long as the process lives; changes, drops and
\* failures owe nothing.
FairSpec == Spec /\ WF_vars(Runner)

-----------------------------------------------------------------------------
(***************************************************************************)
(* Properties.                                                             *)
(***************************************************************************)
\* The rows t are those of version n in vs, but for what the hub could not
\* decode and for keys that changed after n.
Reflects(vs, t, n) ==
    \A k \in Key :
        \/ t[k] = vs[n].rows[k]
        \/ vs[n].rows[k] \in Opaque
        \/ \E i \in n + 1..Len(vs) : vs[i].key = k

\* Whatever session, failure or crash comes next, a resume from the stored
\* cursor misses nothing: a row it will not be told about again is as the source
\* had it (Flush's order, fail, clearCursor).
CursorCovered == stored # NoCursor => Reflects(versions, hub, stored)

\* While a Runner reports Synced and no batch has just failed, its sink holds what
\* the source had where the
\* stream is: no stale row, none missing, no phantom (sweep, Status.Synced).
SyncedExact == synced /\ ~failed => Reflects(versions, view, feed.at)

\* A committed row goes only if some version of the source lacked it: no row
\* vanishes because a replay is under way or was cut short, or because its ad was
\* identical or undecodable (sweep, EndSession, undecodable).
NoVanish ==
    [][\A k \in Key : hub[k] # NoRow /\ hub'[k] = NoRow =>
          \E i \in 1..newest : Rows(i)[k] = NoRow]_vars

\* Once the source is quiet and nothing fails any more, the hub has its rows.
Converges == <>[]Reflects(versions, hub, newest)

-----------------------------------------------------------------------------
(***************************************************************************)
(* The inductive invariant of a source without FaultKinds.                 *)
(***************************************************************************)
\* A version differs from the one before in the key it names.
VersionsOK ==
    \A i \in 2..newest :
        /\ versions[i].key \in Key
        /\ \A k \in Key \ {versions[i].key} : Rows(i)[k] = Rows(i - 1)[k]

\* Every cursor that is, or is about to be, committed is covered.
CursorsOK ==
    /\ stored \in {cur, NoCursor}
    /\ cur # NoCursor => Reflects(versions, hub, cur) /\ Reflects(versions, view, cur)
    /\ nextCur # NoCursor => Reflects(versions, view, nextCur)

\* The live stream is not behind a cursor, and the sink has what it delivered.
TailOK ==
    feed.kind = "tail" /\ ~failed =>
        cur <= feed.at /\ nextCur <= feed.at /\ Reflects(versions, view, feed.at)

\* A replay runs without a cursor; what it delivered is as in its version.
ReplayOK ==
    /\ resetting <=> feed.kind = "replay"
    /\ feed.kind = "replay" =>
        /\ cur = NoCursor /\ nextCur = NoCursor
        /\ ~failed => /\ touched \cup feed.left = Live(feed.at)
                      /\ \A k \in touched : \/ view[k] = Rows(feed.at)[k]
                                             \/ Rows(feed.at)[k] \in Opaque
    /\ feed.kind = "reset" => feed.left = Live(feed.at)

IndInv ==
    /\ TypeOK /\ VersionsOK /\ CursorsOK /\ TailOK /\ ReplayOK
    /\ synced => feed.kind = "tail"
=============================================================================
