---------------------------- MODULE ArchiveSink ----------------------------
(***************************************************************************)
(* federate/archivesink.go: a spoke's archive appended to the hub's.       *)
(* Appends are not transactional.  A flush first makes them durable and    *)
(* then commits the cursor, so a crash delivers records again; until the   *)
(* feed is Synced, a record is checked against what the hub held before    *)
(* the catch-up, by identity and by count.                                 *)
(*                                                                         *)
(* A change's key is its identity and its position stands for its time.    *)
(* cedarsync's Runner drives the sink; see TableSink for its session.      *)
(***************************************************************************)
EXTENDS ChangeFeed

CONSTANTS
    ABudget,       \* probeBudget
    AMaxRotate,    \* bound: records that the hub's retention drops
    ArchiveFaults  \* may include "twin_resume": records of one identity are
                   \* separated (a resume or a pruned replay delivers one of
                   \* them, retention drops one of them); and "overlap": after
                   \* a WatchResync, a live stream delivers records again

VARIABLES
    harch,   \* the hub's archive: recs held (positions, in append order), how
             \* many of them are durable, and how many retention has dropped
    adisk,   \* the cursor in the store
    asink,   \* the sink's memory
    akept    \* history: records dropped by retention after they were durable,
             \* and records that are skipped by design

archvars == <<harch, adisk, asink, akept>>

Unmet == -1
Fresh == [k \in Key |-> Unmet]

\* newArchiveSink, and startCatchup / endCatchup on the catch-up fields.
NewSink(c) ==
    [on |-> FALSE, cur |-> c, next |-> NoCursor, catchup |-> TRUE, full |-> FALSE,
     probes |-> 0, remaining |-> Fresh, loaded |-> FALSE, retain |-> 0]

\* (Mutant: a session that resumes is not a catch-up.)
StartCatchupOnReset(a, full) ==
    [a EXCEPT !.catchup = full, !.full = full, !.probes = 0, !.remaining = Fresh,
              !.loaded = FALSE, !.retain = 0]

StartCatchup(a, full) ==
    [a EXCEPT !.catchup = TRUE, !.full = full, !.probes = 0, !.remaining = Fresh,
              !.loaded = FALSE, !.retain = 0]
EndCatchup(a) ==
    [a EXCEPT !.catchup = FALSE, !.full = FALSE, !.probes = 0, !.remaining = Fresh,
              !.loaded = FALSE, !.retain = 0]

ArchiveInit ==
    /\ harch = [recs |-> <<>>, synced |-> 0, dropped |-> 0]
    /\ adisk = NoCursor /\ asink = NewSink(NoCursor) /\ akept = {}

HeldRecs(h) == {h.recs[i] : i \in DOMAIN h.recs}
Reached(h, kept) == kept \cup HeldRecs(h)

\* countHeld.
CountHeld(k) == Cardinality({i \in DOMAIN harch.recs : log[harch.recs[i]].key = k})

\* No identity has a record in S and another in T.
TwinsTogether(S, T) ==
    "twin_resume" \in ArchiveFaults \/ \A i \in S, j \in T : log[i].key # log[j].key

\* A source that cannot resume (see ArchiveFaults) starts over.
AOpen(c) ==
    LET todo == OpenStream(c).todo
    IN  IF TwinsTogether(HeldRecs(harch) \ todo, todo) THEN OpenStream(c)
        ELSE OpenStream(NoCursor)

\* BeginSession.
ArchiveStart ==
    /\ ~asink.on
    /\ stream' = AOpen(asink.cur)
    /\ asink' = [StartCatchup(asink, FALSE) EXCEPT !.on = TRUE, !.next = NoCursor]
    /\ UNCHANGED <<consumer, log, floor, epoch, settled, faults, harch, adisk, akept>>

\* EndSession, after a failure or a flush that had nothing left to do.
Ended(a) == [EndCatchup(a) EXCEPT !.on = FALSE, !.next = NoCursor]

(***************************************************************************)
(* held: the sink's memory after it looked k up, and the count that it     *)
(* found of k.                                                             *)
(***************************************************************************)
LookedUp(a, k) ==
    IF a.remaining[k] # Unmet \/ a.loaded THEN a
    ELSE IF a.full /\ a.probes >= ABudget
      THEN [a EXCEPT !.loaded = TRUE,
               !.remaining = [j \in Key |-> IF @[j] = Unmet THEN CountHeld(j) ELSE @[j]]]
      ELSE [a EXCEPT !.probes = @ + 1, !.remaining[k] = CountHeld(k)]

Consumed(a, k) == [a EXCEPT !.remaining[k] = IF @ > 0 THEN @ - 1 ELSE 0]

ACursor(a) == [a EXCEPT !.next = IF ChangeCursor = NoCursor THEN @ ELSE ChangeCursor]

ATake(a, h, kept) ==
    /\ asink' = ACursor(a) /\ stream' = AfterChange
    /\ harch' = h /\ akept' = kept /\ settled' = Reached(h, kept)
    /\ UNCHANGED <<consumer, log, floor, epoch, faults, adisk>>

BelowRetention(i) == asink.full /\ asink.retain > 0 /\ i < asink.retain

\* An undecodable record, one nested too deep, or one that the hub's retention
\* has already dropped.
ArchiveSkip ==
    /\ asink.on /\ HasChange
    /\ log[NextChange].val \in Opaque \/ BelowRetention(NextChange)
    /\ ATake(asink, harch, akept \cup {NextChange})

ArchiveUpsert ==
    /\ asink.on /\ HasChange
    /\ log[NextChange].val \notin Opaque /\ ~BelowRetention(NextChange)
    /\ LET k == log[NextChange].key
           a == IF asink.catchup THEN LookedUp(asink, k) ELSE asink
           held == asink.catchup /\ a.remaining[k] > 0
       IN  ATake(IF asink.catchup THEN Consumed(a, k) ELSE a,
                 IF held THEN harch ELSE [harch EXCEPT !.recs = Append(@, NextChange)],
                 akept)

(***************************************************************************)
(* flush: sync the appends, then commit the cursor.  A failure drops the   *)
(* cursor and ends the session; Save may fail after its rename.            *)
(***************************************************************************)
SyncedArch(h) == [h EXCEPT !.synced = Len(h.recs)]

Commits(a) == IF a.next = NoCursor THEN a.cur ELSE a.next
AFlushed(a) == [a EXCEPT !.cur = Commits(a), !.next = NoCursor]

AFail ==
    /\ faults > 0 /\ faults' = faults - 1
    /\ \/ harch' = harch /\ adisk' = adisk
       \/ harch' = SyncedArch(harch) /\ adisk' \in {adisk, Commits(asink)}
    /\ asink' = Ended(asink) /\ stream' = Off
    /\ UNCHANGED <<consumer, log, floor, epoch, settled, akept>>

\* Reset: flush, clear the cursor durably, catch up from the start, and note
\* the oldest record the hub retains once retention has dropped any.
ArchiveReset ==
    /\ asink.on /\ IsReset
    /\ \/ /\ harch' = SyncedArch(harch)
          /\ adisk' = NoCursor
          /\ asink' = [StartCatchup(asink, TRUE) EXCEPT !.cur = NoCursor, !.next = NoCursor,
                          !.retain = IF harch.dropped > 0 /\ harch.recs # <<>>
                                       THEN Min(HeldRecs(harch)) ELSE 0]
          /\ stream' = AfterReset
          /\ akept' = akept \cup 1..floor /\ settled' = Reached(harch, akept')
          /\ UNCHANGED <<consumer, log, floor, epoch, faults>>
       \/ AFail

ArchiveSynced ==
    /\ asink.on /\ IsSynced
    /\ \/ /\ harch' = SyncedArch(harch)
          /\ adisk' = CursorAt(stream.at)
          /\ asink' = AFlushed([EndCatchup(asink) EXCEPT !.next = CursorAt(stream.at)])
          /\ stream' = AfterSynced
          /\ UNCHANGED <<consumer, log, floor, epoch, settled, faults, akept>>
       \/ AFail

\* The Runner's flush timer.
ArchiveFlush ==
    /\ asink.on /\ stream.phase # "closed"
    /\ asink.next # NoCursor \/ harch.synced < Len(harch.recs)
    /\ \/ /\ harch' = SyncedArch(harch)
          /\ adisk' = IF asink.next = NoCursor THEN adisk ELSE asink.next
          /\ asink' = AFlushed(asink)
          /\ UNCHANGED <<consumer, log, floor, epoch, stream, settled, faults, akept>>
       \/ AFail

\* The stream ends: the session's deferred flush, then EndSession.
ArchiveClosed ==
    /\ asink.on /\ stream.phase = "closed"
    /\ harch' = SyncedArch(harch)
    /\ adisk' = IF asink.next = NoCursor THEN adisk ELSE asink.next
    /\ asink' = Ended(AFlushed(asink)) /\ stream' = Off
    /\ UNCHANGED <<consumer, log, floor, epoch, settled, faults, akept>>

\* WatchResync: the source re-enters catch-up on the same stream, from the start
\* or with an overlap; the sink is not told.
Resyncs ==
    (IF Overrun THEN {OpenStream(NoCursor)} ELSE {})
      \cup {[phase |-> "resume", todo |-> p + 1..Len(log), at |-> p] : p \in
               IF "overlap" \in ArchiveFaults /\ stream.phase = "live" THEN floor..stream.at ELSE {}}
ArchiveResync ==
    /\ asink.on /\ stream' \in Resyncs
    /\ UNCHANGED <<consumer, log, floor, epoch, settled, faults, archvars>>

\* The hub crashes: appends that were not synced may be lost.
ArchiveCrash ==
    /\ faults > 0 /\ faults' = faults - 1
    /\ \E n \in harch.synced..Len(harch.recs) :
          harch' = [harch EXCEPT !.recs = SubSeq(@, 1, n), !.synced = n]
    /\ settled' = Reached(harch', akept)
    /\ asink' = NewSink(adisk) /\ stream' = Off
    /\ UNCHANGED <<consumer, log, floor, epoch, adisk, akept>>

\* The hub's retention drops its oldest record (external).
ArchiveRotate ==
    /\ harch.dropped < AMaxRotate /\ harch.synced > 0
    /\ TwinsTogether({Head(harch.recs)}, HeldRecs([harch EXCEPT !.recs = Tail(@)]))
    /\ harch' = [recs |-> Tail(harch.recs), synced |-> harch.synced - 1,
                 dropped |-> harch.dropped + 1]
    /\ akept' = akept \cup {Head(harch.recs)}
    /\ UNCHANGED <<consumer, log, floor, epoch, stream, settled, faults, adisk, asink>>

\* The spoke moves on its own; see ArchiveFaults.
ArchiveFeed ==
    /\ FeedNext /\ UNCHANGED archvars
    /\ TwinsTogether(1..floor, floor + 1..Len(log))'

ArchiveStep ==
    \/ ArchiveStart \/ ArchiveSkip \/ ArchiveUpsert \/ ArchiveReset \/ ArchiveSynced
    \/ ArchiveFlush \/ ArchiveClosed \/ ArchiveResync

ArchiveNext == ArchiveStep \/ ArchiveCrash \/ ArchiveRotate \/ ArchiveFeed
=============================================================================
