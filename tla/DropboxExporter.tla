-------------------------- MODULE DropboxExporter --------------------------
(***************************************************************************)
(* archivedropbox: an archive's records batched into tarballs in a         *)
(* directory that a consumer empties.  A tarball is staged, synced and     *)
(* renamed, and only then is the resume cursor stored.  A cursor that the  *)
(* source refuses means that records may have been pruned before they were *)
(* exported: the exporter then drops a loss report for the gap.            *)
(*                                                                         *)
(* A report gives the times between which records were lost, and emitLoss  *)
(* takes a window that is empty in time for no loss.  The clock is past    *)
(* every record's time.  The status beat (writeStatus(nil)) stores the     *)
(* state that is already stored.                                           *)
(***************************************************************************)
EXTENDS ChangeFeed

CONSTANTS
    DRoll,     \* RollJobs
    DBoxMax,   \* MaxDropboxBytes, in tarballs
    RecordTime(_)   \* recordTime of the record at a position, 0 if it has none

VARIABLES
    ddur,    \* the stored State: cursor, TarballSeq, LastRecordUnix
    dsess,   \* the session's variables, or DIdle
    box,     \* the tarballs in the dropbox
    dtaken   \* history: records the consumer collected, or that are accounted
             \* for otherwise (undecodable, reported lost, never owed)

dropvars == <<ddur, dsess, box, dtaken>>

DIdle == [on |-> FALSE]
NoLoss == -1

DropboxInit ==
    /\ ddur = [cursor |-> NoCursor, seq |-> 0, lastRec |-> 0]
    /\ dsess = DIdle /\ box = {} /\ dtaken = {}

Delivered(b, t) == t \cup UNION {x.recs : x \in b}

DropboxStart ==
    /\ ~dsess.on
    /\ stream' = OpenStream(ddur.cursor)
    /\ dsess' = [on |-> TRUE, st |-> ddur, pending |-> {}, last |-> NoCursor,
                 hadCursor |-> ddur.cursor # NoCursor, lossStart |-> NoLoss]
    /\ UNCHANGED <<consumer, log, floor, epoch, settled, faults, ddur, box, dtaken>>

(***************************************************************************)
(* WriteTarball: the file is named after its sequence number and its first *)
(* record, so writing a batch again replaces the earlier attempt.          *)
(***************************************************************************)
WithTarball(b, seq, recs) ==
    {x \in b : ~(x.seq = seq /\ x.first = Min(recs))}
      \cup {[seq |-> seq, first |-> Min(recs), recs |-> recs]}

\* The state flush and writeStatus store after m's batch is in place.
LastTime(m) == IF m.pending = {} THEN 0 ELSE RecordTime(Max(m.pending))
DFlushed(m, cur) ==
    [m.st EXCEPT !.cursor = IF cur = NoCursor THEN @ ELSE cur,
                 !.seq = IF m.pending = {} THEN @ ELSE @ + 1,
                 !.lastRec = IF LastTime(m) > 0 THEN LastTime(m) ELSE @]

HasSpace == Cardinality(box) < DBoxMax

BoxAfter(m) ==
    IF m.pending = {} THEN box ELSE WithTarball(box, m.st.seq + 1, m.pending)

\* The session goes on with memory m; t is what is accounted for.
DGo(m, s, t) ==
    /\ dsess' = m /\ stream' = s /\ dtaken' = t
    /\ settled' = Delivered(box, t)
    /\ UNCHANGED <<consumer, log, floor, epoch, faults, ddur, box>>

\* flush(cur), then the session goes on or, if end, closes.
DFlush(m, s, cur, t, end) ==
    /\ m.pending # {} => HasSpace
    /\ box' = BoxAfter(m) /\ ddur' = DFlushed(m, cur) /\ dtaken' = t
    /\ dsess' = IF end THEN DIdle ELSE [m EXCEPT !.st = ddur', !.pending = {}]
    /\ stream' = IF end THEN Off ELSE s
    /\ settled' = Delivered(box', t)
    /\ UNCHANGED <<consumer, log, floor, epoch, faults>>

\* flush, or the loss report before it, fails and the session ends.  The
\* tarball may be in place with its state unstored (a failed directory sync or
\* a failed store), and the state may be stored although an error came back.
DFail(m, cur, t) ==
    /\ faults > 0 /\ faults' = faults - 1
    /\ \/ box' \in {box, BoxAfter(m)} /\ ddur' = ddur
       \/ box' = BoxAfter(m) /\ ddur' = DFlushed(m, cur)
    /\ dtaken' = t /\ settled' = Delivered(box', t)
    /\ dsess' = DIdle /\ stream' = Off
    /\ UNCHANGED <<consumer, log, floor, epoch>>

(***************************************************************************)
(* emitLoss: what is missing before the oldest retained record i is        *)
(* reported lost, unless that record is no later than the last export.     *)
(* Times that are equal or go back hide a loss: two records of one second, *)
(* the first exported and the second pruned.                               *)
(***************************************************************************)
Reported(start, i) ==
    IF start = NoLoss \/ (start > 0 /\ RecordTime(i) > 0 /\ RecordTime(i) <= start)
    THEN {} ELSE 1..i - 1
TimesOrdered ==
    /\ \A i \in Nat : RecordTime(i) \in Nat
    /\ \A i, j \in Nat : i < j /\ RecordTime(i) > 0 /\ RecordTime(j) > 0
                           => RecordTime(i) < RecordTime(j)

NewestSeen == IF ChangeCursor = NoCursor THEN dsess.last ELSE ChangeCursor

DropboxUndecodable ==
    /\ dsess.on /\ HasChange /\ log[NextChange].val \in Opaque
    /\ DGo([dsess EXCEPT !.last = NewestSeen], AfterChange, dtaken \cup {NextChange})

DropboxUpsert ==
    /\ dsess.on /\ HasChange /\ log[NextChange].val \notin Opaque
    /\ LET t == dtaken \cup Reported(dsess.lossStart, NextChange)
           m == [dsess EXCEPT !.last = NewestSeen, !.lossStart = NoLoss,
                              !.pending = @ \cup {NextChange}]
       IN  \/ Cardinality(m.pending) < DRoll /\ DGo(m, AfterChange, t)
           \/ /\ Cardinality(m.pending) >= DRoll
              /\ DFlush(m, AfterChange, ChangeCursor, t, FALSE) \/ DFail(m, ChangeCursor, t)
           \/ dsess.lossStart # NoLoss /\ DFail(dsess, NoCursor, dtaken)

\* Reset: rebuild from the oldest retained record.  Without a cursor nothing
\* older was ever owed.
DropboxReset ==
    /\ dsess.on /\ IsReset
    /\ DGo([dsess EXCEPT !.pending = {}, !.hadCursor = FALSE,
                !.lossStart = IF dsess.hadCursor THEN dsess.st.lastRec ELSE @],
           AfterReset,
           IF dsess.hadCursor THEN dtaken ELSE dtaken \cup 1..floor)

\* Synced: roll the tail, report a loss that no record ended (up to now: the
\* window is not empty), checkpoint.
DropboxSynced ==
    /\ dsess.on /\ IsSynced
    /\ LET c == CursorAt(stream.at)
           t == dtaken \cup (IF dsess.lossStart = NoLoss THEN {} ELSE 1..stream.at)
           m == [dsess EXCEPT !.last = c, !.lossStart = NoLoss]
       IN  \/ DFlush(m, AfterSynced, c, t, FALSE)
           \/ DFail(m, c, t)
           \/ dsess.lossStart # NoLoss /\ DFail(m, NoCursor, dtaken)

\* rollTicker.  (Mutant: only a full batch is rolled.)
DropboxRollFull ==
    /\ dsess.on /\ Cardinality(dsess.pending) >= DRoll
    /\ DFlush(dsess, stream, dsess.last, dtaken, FALSE) \/ DFail(dsess, dsess.last, dtaken)

DropboxRoll ==
    /\ dsess.on /\ dsess.pending # {}
    /\ DFlush(dsess, stream, dsess.last, dtaken, FALSE) \/ DFail(dsess, dsess.last, dtaken)

\* The session ends and what it has in memory is gone.
DEnd ==
    /\ dsess' = DIdle /\ stream' = Off
    /\ UNCHANGED <<consumer, log, floor, epoch, settled, ddur, box, dtaken>>

\* The stream ends: flush, which stores nothing when nothing is pending.
DropboxClosed ==
    /\ dsess.on /\ stream.phase = "closed"
    /\ \/ dsess.pending = {} /\ DEnd /\ UNCHANGED faults
       \/ /\ dsess.pending # {}
          /\ DFlush(dsess, stream, dsess.last, dtaken, TRUE) \/ DFail(dsess, dsess.last, dtaken)

\* WatchResync: the source gives up on the stream.
DropboxResync == dsess.on /\ Overrun /\ DEnd /\ UNCHANGED faults

\* The exporter's process crashes.
DropboxCrash ==
    /\ dsess.on /\ faults > 0 /\ faults' = faults - 1 /\ DEnd

\* The consumer of the dropbox (external) collects a tarball.
DropboxCollect ==
    /\ \E x \in box : box' = box \ {x} /\ dtaken' = dtaken \cup x.recs
    /\ UNCHANGED <<consumer, log, floor, epoch, stream, settled, faults, ddur, dsess>>

DropboxStep ==
    \/ DropboxStart \/ DropboxUndecodable \/ DropboxUpsert \/ DropboxReset
    \/ DropboxSynced \/ DropboxRoll \/ DropboxClosed \/ DropboxResync

DropboxNext ==
    DropboxStep \/ DropboxCrash \/ DropboxCollect \/ (FeedNext /\ UNCHANGED dropvars)
=============================================================================
