----------------------------- MODULE ChangeFeed -----------------------------
(***************************************************************************)
(* A source table or archive and the watch stream that one consumer has    *)
(* open on it.  The database and its wire protocol are outside the         *)
(* repository: they are modelled from how the exporters, the archive sink  *)
(* and the replicator use them.                                            *)
(*                                                                         *)
(* A stream that resumes at a cursor sends the changes after it, each with *)
(* its cursor, and says Synced when it has caught up.  A stream that cannot*)
(* resume sends Reset, the rows of one version without cursors, and Synced *)
(* with the cursor of that version.  It may end, or ask for a resync, at   *)
(* any time.                                                               *)
(***************************************************************************)
EXTENDS Integers, Sequences, FiniteSets, FiniteSetsExt

CONSTANTS
    Key,         \* row keys of a table; identities of an archive's records
    Val,         \* contents of a row or record
    Opaque,      \* the contents a consumer cannot decode
    NoRow,       \* the content of a deleted row
    NoCursor,    \* the empty cursor
    Consumers,   \* which consumers the instance explores
    MaxChange,   \* bounds: changes of the source,
    MaxFloor,    \*   changes that it may drop,
    MaxEpoch,    \*   times it restarts,
    MaxFault     \*   failures that the consumer meets

ASSUME FeedAssumption ==
    NoCursor \notin [epoch : Nat, pos : Nat] /\ MaxFault \in Nat /\ Key # {}

VARIABLES
    consumer,  \* the consumer that watches
    log,       \* the source's changes, oldest first
    floor,     \* the changes up to here can no longer be resumed from
    epoch,     \* restarts of the source: a cursor of another epoch is refused
    stream,    \* the open watch stream
    settled,   \* history: the changes that have reached the destination
    faults     \* failures left

feedVars == <<consumer, log, floor, epoch, stream, settled, faults>>

\* Archives never overwrite a record: history, epoch_history, job_metrics.
IsArchive == consumer \in {"opensearch", "dropbox", "archivesink"}

Off == [phase |-> "off", todo |-> {}, at |-> 0]

\* The content of key k after the first n changes of a table.
RowAt(k, n) ==
    LET w == {i \in 1..n : log[i].key = k}
    IN  IF w = {} THEN NoRow ELSE log[Max(w)].val

\* The changes whose rows a snapshot after n changes contains: the last write
\* of each live row, or the records that an archive retains.
SnapshotAt(n) ==
    {i \in 1..n :
        IF IsArchive THEN i > floor
        ELSE /\ log[i].val # NoRow
             /\ \A j \in i + 1..n : log[j].key # log[i].key}

Resumable(c) == c # NoCursor /\ c.epoch = epoch /\ c.pos >= floor

OpenStream(c) ==
    IF Resumable(c)
      THEN [phase |-> "resume", todo |-> c.pos + 1..Len(log), at |-> c.pos]
      ELSE [phase |-> "reset", todo |-> SnapshotAt(Len(log)), at |-> Len(log)]

CursorAt(n) == [epoch |-> epoch, pos |-> n]

\* A stream whose next change has left the source's buffer asks for a resync.
Overrun == stream.phase \in {"resume", "live"} /\ stream.at < floor

(***************************************************************************)
(* The event a stream delivers next.  Each operator is a guard for the     *)
(* consumer's step; StreamAfter is the stream once it is taken.            *)
(***************************************************************************)
NextChange ==
    IF stream.phase = "live" THEN stream.at + 1 ELSE Min(stream.todo)

HasChange ==
    /\ ~Overrun
    /\ \/ stream.phase = "live" /\ stream.at < Len(log)
       \/ stream.phase \in {"resume", "replay"} /\ stream.todo # {}

\* Only a snapshot's rows come without a cursor.
ChangeCursor == IF stream.phase = "replay" THEN NoCursor ELSE CursorAt(NextChange)

IsReset == stream.phase = "reset"
IsSynced == ~Overrun /\ stream.phase \in {"resume", "replay"} /\ stream.todo = {}
CanClose == stream.phase # "off"

AfterChange ==
    CASE stream.phase = "live"   -> [stream EXCEPT !.at = @ + 1]
      [] stream.phase = "resume" -> [stream EXCEPT !.at = @ + 1, !.todo = @ \ {NextChange}]
      [] OTHER                   -> [stream EXCEPT !.todo = @ \ {NextChange}]
AfterReset == [stream EXCEPT !.phase = "replay"]
AfterSynced == [stream EXCEPT !.phase = "live"]

FeedInit ==
    /\ consumer \in Consumers
    /\ log = <<>> /\ floor = 0 /\ epoch = 0
    /\ stream = Off /\ settled = {} /\ faults = MaxFault

\* The exporters of archives do not look at a record's identity.
Keys == IF consumer \in {"opensearch", "dropbox"} THEN {CHOOSE k \in Key : TRUE} ELSE Key

\* The kafkasync exporter sends a row's text as it comes, so that only for the
\* other consumers it matters whether it can be decoded.
Contents ==
    Val \cup (IF IsArchive THEN {} ELSE {NoRow}) \cup (IF consumer = "kafka" THEN {} ELSE Opaque)

\* The source commits a change.  Only a live row is deleted, and an archive
\* deletes nothing.
Change(k, v) ==
    /\ Len(log) < MaxChange
    /\ v = NoRow => RowAt(k, Len(log)) # NoRow
    /\ log' = Append(log, [key |-> k, val |-> v])
    /\ UNCHANGED <<consumer, floor, epoch, stream, settled, faults>>

\* The source drops its oldest changes (the watch buffer is bounded, an
\* archive rotates).
Prune(n) ==
    /\ n \in floor + 1..Len(log) /\ n <= MaxFloor
    /\ floor' = n
    /\ UNCHANGED <<consumer, log, epoch, stream, settled, faults>>

\* The source restarts: its cursors are void and its streams end.
SourceRestart ==
    /\ epoch < MaxEpoch
    /\ epoch' = epoch + 1 /\ stream' = [stream EXCEPT !.phase = IF @ = "off" THEN @ ELSE "closed"]
    /\ UNCHANGED <<consumer, log, floor, settled, faults>>

FeedNext ==
    \/ \E k \in Keys, v \in Contents : Change(k, v)
    \/ \E n \in 1..MaxChange : Prune(n)
    \/ SourceRestart
=============================================================================
