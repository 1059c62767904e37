---------------------------- MODULE HistorySync ----------------------------
(***************************************************************************)
(* scheddsync.HistorySync: the tailer that appends every completed job of  *)
(* a schedd's history file to an archive table, following the file across  *)
(* rotation and recovering after a restart from a saved position and from  *)
(* what the archive already holds.  The epoch tailer (NewJobEpochSync) is  *)
(* the same machine with another record key.                               *)
(*                                                                         *)
(* Record n is the n-th completed job; file f holds the records            *)
(* first..first+size-1, in order.  The archive is the sequence of the      *)
(* records it was given; what has been appended since the last Flush may   *)
(* be lost in a crash.  Every look at the path (chain, stat, open, read)   *)
(* is a step of its own, so the schedd can rotate in between.              *)
(***************************************************************************)
EXTENDS Integers, Sequences, FiniteSets, FiniteSetsExt

CONSTANTS
    Inode, NoInode,   \* file identities
    Refused,          \* records the archive refuses (db.ErrTooDeep)
    Faults,           \* which of FaultKinds the environment may produce
    MaxKept,          \* rotated files the schedd keeps (MAX_HISTORY_ROTATIONS)
    MaxRecord, MaxFile,                      \* bounds on the schedd
    MaxCrash, MaxResync, MaxEmpty, MaxFail, MaxLose   \* bounds on the environment

(***************************************************************************)
(* Behaviour of the environment that is switched per run:                  *)
(*   rotate_unseen   the schedd rotates away a file that the running       *)
(*                   tailer has not opened yet;                            *)
(*   rewind_rotated  a rewind to the head (resync, truncate) is due while  *)
(*                   the open file has been rotated away;                  *)
(*   inode_reuse     a new file gets the inode of one that was deleted;    *)
(*   no_position     a restart finds no position while records older than  *)
(*                   the archive's are on disk, or newer ones are deleted; *)
(*   append_error    a storage failure makes the archive lose records of a *)
(*                   batch that it would have taken;                       *)
(*   unrewound       a crash after the archive was emptied and before the  *)
(*                   saved position was rewound.                           *)
(***************************************************************************)
FaultKinds == {"rotate_unseen", "rewind_rotated", "inode_reuse", "no_position",
               "append_error", "unrewound"}

ASSUME InodeAssumption == NoInode \notin Inode
ASSUME BoundAssumption ==
    /\ {MaxKept, MaxRecord, MaxFile, MaxCrash, MaxResync, MaxEmpty, MaxFail,
      MaxLose} \subseteq Nat
    /\ Refused \subseteq Nat
    /\ Faults \subseteq FaultKinds

VARIABLES
    files,     \* every history file there ever was, oldest first
    oldest,    \* the oldest one still on disk
    atPath,    \* the newest one is at the path (else it was just rotated away)
    torn,      \* the newest one ends in a half-written record
    archive,   \* the archive's records, in the order they were appended
    durable,   \* how many of them are on disk
    pos,       \* the saved position
    pc,        \* where the tailer is in Run/Poll/restore
    started,   \* restore() has run in this process
    handle,    \* the file that is open (0: none)
    offset,    \* complete records consumed from it
    partial,   \* the half-written record has been read
    dedup,     \* skip what the archive already holds
    fresh,     \* the drain in progress read something
    todo,      \* restore: the rotated files still to drain, with their offsets
    startOff,  \* restore: where to open the current file
    lastCount, \* lastArchiveCount
    resyncReq, \* an operator asked for a resync
    gap,       \* history: a retention gap was reported
    wiped,     \* history: the archive was emptied and the saved position not rewound
    fails,     \* how many flushes may still fail
    budget     \* what else the environment may still do

disk == <<files, oldest, atPath, torn>>
reader == <<handle, offset, partial>>
restoring == <<todo, startOff>>
saved == <<durable, pos, wiped, fails>>
vars == <<files, oldest, atPath, torn, archive, durable, pos, pc, started, handle,
          offset, partial, dedup, fresh, todo, startOff, lastCount, resyncReq, gap,
          wiped, fails, budget>>

File == [id : Inode, first : Nat \ {0}, size : Nat]
Position == [saved : BOOLEAN, id : Inode \cup {NoInode}, off : Nat]
NoPosition == [saved |-> FALSE, id |-> NoInode, off |-> 0]

newest == Len(files)
Written == IF files = <<>> THEN 0 ELSE files[newest].first + files[newest].size - 1
OnDisk == oldest..newest

\* The n-th record of file f, and its records after the first off.
Record(f, n) == files[f].first + n - 1
RecordsAfter(f, off) == [i \in 1..files[f].size - off |-> Record(f, off + i)]
Archived == {archive[i] : i \in DOMAIN archive}

\* Without a position the archive's records recs say too little: records older
\* than all of them are on disk, or newer ones are in files that are deleted.
NeedsPosition(recs, kept) ==
    recs # <<>> /\ \E f \in 1..newest :
        /\ files[f].size > 0
        /\ IF f >= kept THEN files[f].first < recs[1]
           ELSE Record(f, files[f].size) > recs[Len(recs)]

-----------------------------------------------------------------------------
(***************************************************************************)
(* The schedd (external).                                                  *)
(***************************************************************************)
ScheddOnly ==
    UNCHANGED <<archive, saved, pc, started, reader, dedup, fresh, restoring,
                lastCount, resyncReq, gap, budget>>

\* A record is its attributes and then its banner.
ScheddBeginsRecord ==
    /\ atPath /\ ~torn /\ Written < MaxRecord
    /\ torn' = TRUE
    /\ UNCHANGED <<files, oldest, atPath>>
    /\ ScheddOnly

ScheddEndsRecord ==
    /\ torn
    /\ torn' = FALSE
    /\ files' = [files EXCEPT ![newest].size = @ + 1]
    /\ UNCHANGED <<oldest, atPath>>
    /\ ScheddOnly

\* Identities are only compared: any one that was never used stands for all.
Used(fs) == {files[f].id : f \in fs}
NewInodes ==
    IF "inode_reuse" \in Faults THEN Inode \ Used(OnDisk \cup ({handle} \ {0}))
    ELSE IF Inode \subseteq Used(1..newest) THEN {}
    ELSE {CHOOSE i \in Inode : i \notin Used(1..newest)}

\* The file is created by the first write after a rotation.
ScheddCreates ==
    /\ ~atPath /\ newest < MaxFile
    /\ \E i \in NewInodes :
        files' = Append(files, [id |-> i, first |-> Written + 1, size |-> 0])
    /\ atPath' = TRUE
    /\ UNCHANGED <<oldest, torn>>
    /\ ScheddOnly

\* A poll will rewind to the head of the file that is then current.
RewindDue == resyncReq \/ (archive = <<>> /\ lastCount > 0)

\* The file is renamed aside and what exceeds the retention is deleted.
ScheddRotates ==
    /\ atPath /\ ~torn /\ files[newest].size > 0
    /\ pc # "down" /\ handle # newest => "rotate_unseen" \in Faults
    /\ RewindDue => "rewind_rotated" \in Faults
    /\ atPath' = FALSE
    /\ oldest' = Max({oldest, newest + 1 - MaxKept})
    /\ ~started /\ ~pos.saved /\ NeedsPosition(archive, oldest') => "no_position" \in Faults
    /\ UNCHANGED <<files, torn>>
    /\ ScheddOnly

-----------------------------------------------------------------------------
(***************************************************************************)
(* Reading records and appending them to the archive.                      *)
(***************************************************************************)
\* What the archive takes of a batch: all of it, but for records it refuses.
Accepted(recs) ==
    IF \A i \in DOMAIN recs : recs[i] \notin Refused THEN recs
    ELSE SelectSeq(recs, LAMBDA r : r \notin Refused)

\* What it then holds of it: all that it accepts, or any part when appends fail.
Taken(recs) ==
    IF "append_error" \in Faults
    THEN {SelectSeq(Accepted(recs), LAMBDA r : r \in part) :
            part \in SUBSET {recs[i] : i \in DOMAIN recs}}
    ELSE {Accepted(recs)}

\* (Mutant: nothing is skipped.)
IngestAll(recs) == archive' = archive \o Accepted(recs) /\ UNCHANGED dedup

\* processRecords, appendRecord: while deduping, skip what the archive holds;
\* the first record it lacks ends the dedup, and all that follow are appended.
\* A record that cannot be appended is logged and skipped.
Ingest(recs) ==
    LET lacking == {i \in DOMAIN recs : dedup => recs[i] \notin Archived} IN
    IF lacking = {} THEN UNCHANGED <<archive, dedup>>
    ELSE /\ \E took \in Taken(SubSeq(recs, Min(lacking), Len(recs))) : archive' = archive \o took
         /\ dedup' = FALSE

HalfRecord == handle = newest /\ torn

\* drainToEOF up to its checkpoint; fresh: some bytes were new.
ReadToEOF ==
    /\ Ingest(RecordsAfter(handle, offset))
    /\ offset' = files[handle].size
    /\ partial' = HalfRecord
    /\ fresh' = (offset < files[handle].size \/ (HalfRecord /\ ~partial))

\* (Mutant: the bytes of a half-read record count as consumed.)
CountPartial == IF partial THEN offset + 1 ELSE offset
Consumed == offset

HandlePosition(off) == [saved |-> TRUE, id |-> files[handle].id, off |-> off]

\* A flush or a save fails: what was flushed before is known, the position is kept.
SaveFails ==
    /\ fails > 0 /\ fails' = fails - 1
    /\ durable' \in {Min({durable, Len(archive')}), Len(archive')}
    /\ wiped' = (wiped \/ (pos.saved /\ archive # <<>> /\ archive' = <<>>))
    /\ UNCHANGED pos

\* flushArchive alone.
FlushArchive == SaveFails \/ (durable' = Len(archive') /\ UNCHANGED <<pos, wiped, fails>>)

\* checkpoint: flush, then save; nothing is saved when the flush fails.
Checkpoint(p) ==
    SaveFails \/ (durable' = Len(archive') /\ pos' = p /\ wiped' = FALSE /\ UNCHANGED fails)

Close == handle' = 0 /\ offset' = 0 /\ partial' = FALSE

-----------------------------------------------------------------------------
(***************************************************************************)
(* restore.                                                                *)
(***************************************************************************)
Rotated == oldest..(IF atPath THEN newest - 1 ELSE newest)

\* drainChain's list: the rotated files from file f on; f is resumed at off.
Chain(f, off) ==
    [i \in 1..Cardinality({g \in Rotated : g >= f}) |->
        [file |-> f + i - 1, off |-> IF i = 1 THEN off ELSE 0]]

Recovers(list, off) ==
    /\ dedup' = TRUE
    /\ todo' = list /\ startOff' = off
    /\ pc' = "restore"
    /\ UNCHANGED <<disk, archive, saved, started, reader, fresh, lastCount,
                   resyncReq, budget>>

\* The saved file is still in the chain, the current file included.
RestoreFound ==
    /\ pc = "idle" /\ ~started
    /\ \E f \in OnDisk :
        /\ pos.saved /\ files[f].id = pos.id
        /\ Recovers(Chain(f, pos.off), IF atPath /\ f = newest THEN pos.off ELSE 0)
    /\ UNCHANGED gap

\* It rotated out of retention: report the gap, recover what is left.
RestoreGap ==
    /\ pc = "idle" /\ ~started
    /\ pos.saved /\ OnDisk # {} /\ \A f \in OnDisk : files[f].id # pos.id
    /\ Recovers(Chain(oldest, 0), 0)
    /\ gap' = TRUE

\* No position, but an archive: find the frontier by walking the chain.
RestoreArchive ==
    /\ pc = "idle" /\ ~started
    /\ ~pos.saved /\ archive # <<>>
    /\ Recovers(Chain(oldest, 0), 0)
    /\ UNCHANGED gap

\* A first run, or nothing on disk: Poll opens the current file.
RestoreFirst ==
    /\ pc = "idle" /\ ~started
    /\ IF pos.saved THEN OnDisk = {} ELSE archive = <<>>
    /\ dedup' = TRUE
    /\ started' = TRUE
    /\ pc' = "stat"
    /\ UNCHANGED <<disk, archive, saved, reader, fresh, restoring, lastCount,
                   resyncReq, gap, budget>>

\* (Mutant: a whole file counts as archived when its first record is.)
FirstArchived(f) == files[f].size > 0 /\ Record(f, 1) \in Archived

\* The last record stands for the whole file.
FileFullyArchived(f) == files[f].size > 0 /\ Record(f, files[f].size) \in Archived

\* drainChain, one file: skipped when it is archived, passed over when gone.
RestoreDrain ==
    /\ pc = "restore" /\ todo # <<>>
    /\ LET f == Head(todo).file
           off == Head(todo).off
       IN IF f < oldest \/ (dedup /\ off = 0 /\ FileFullyArchived(f))
          THEN UNCHANGED <<archive, dedup>>
          ELSE Ingest(RecordsAfter(f, off))
    /\ todo' = Tail(todo)
    /\ UNCHANGED <<disk, saved, pc, started, reader, fresh, startOff, lastCount,
                   resyncReq, gap, budget>>

\* openCurrent at the end of restore.
RestoreOpen ==
    /\ pc = "restore" /\ todo = <<>>
    /\ started' = TRUE
    /\ handle' = (IF atPath THEN newest ELSE 0)
    /\ offset' = (IF atPath THEN startOff ELSE 0)
    /\ partial' = FALSE
    /\ startOff' = 0
    /\ pc' = "stat"
    /\ UNCHANGED <<disk, archive, saved, dedup, fresh, todo, lastCount, resyncReq,
                   gap, budget>>

-----------------------------------------------------------------------------
(***************************************************************************)
(* Poll, once started.                                                     *)
(***************************************************************************)
\* rewindToHead: save the head of the open file, or forget the position, and
\* close; keep says whether the archive's records are worth deduping against.
RewindToHead(keep) ==
    /\ dedup' = keep
    /\ lastCount' = Len(archive')
    /\ IF handle # 0 THEN Checkpoint(HandlePosition(0))
       ELSE \/ SaveFails
            \/ /\ durable' = Min({durable, Len(archive')})
               /\ pos' = NoPosition /\ wiped' = FALSE /\ UNCHANGED fails
    /\ Close

PollTails ==
    /\ pc = "idle" /\ started /\ ~RewindDue
    /\ pc' = "stat"
    /\ UNCHANGED <<disk, archive, saved, started, reader, dedup, fresh, restoring,
                   lastCount, resyncReq, gap, budget>>

PollResyncs ==
    /\ pc = "idle" /\ started /\ resyncReq
    /\ resyncReq' = FALSE
    /\ UNCHANGED archive
    /\ RewindToHead(TRUE)
    /\ pc' = "stat"
    /\ UNCHANGED <<disk, started, fresh, restoring, gap, budget>>

\* resyncFromTruncate: the archive was emptied from outside.
PollEmptied ==
    /\ pc = "idle" /\ started /\ ~resyncReq /\ RewindDue
    /\ UNCHANGED archive
    /\ RewindToHead(FALSE)
    /\ pc' = "stat"
    /\ UNCHANGED <<disk, started, fresh, restoring, resyncReq, gap, budget>>

\* (Mutant: the tailer stays with the file it has open.)
RotationMissed == FALSE

\* The path names another file than the handle.
RotationSeen == handle # 0 /\ atPath /\ handle # newest

\* After a rotation the old file is read to its end, then left.
PollStat ==
    /\ pc = "stat"
    /\ IF RotationSeen THEN ReadToEOF /\ pc' = "saveold"
       ELSE /\ pc' = (IF handle = 0 THEN "open" ELSE "drain")
            /\ UNCHANGED <<archive, dedup, offset, partial, fresh>>
    /\ UNCHANGED <<disk, saved, started, handle, restoring, lastCount, resyncReq,
                   gap, budget>>

PollSaveOld ==
    /\ pc = "saveold"
    /\ UNCHANGED archive
    /\ IF fresh THEN Checkpoint(HandlePosition(Consumed)) ELSE UNCHANGED saved
    /\ fresh' = FALSE
    /\ Close
    /\ pc' = "open"
    /\ UNCHANGED <<disk, started, dedup, restoring, lastCount, resyncReq, gap, budget>>

\* openCurrent at the head; a poll ends early when the file is not there.
PollOpen ==
    /\ pc = "open"
    /\ IF atPath THEN handle' = newest /\ pc' = "drain" ELSE handle' = 0 /\ pc' = "idle"
    /\ offset' = 0 /\ partial' = FALSE
    /\ UNCHANGED <<disk, archive, saved, started, dedup, fresh, restoring, lastCount,
                   resyncReq, gap, budget>>

PollDrain ==
    /\ pc = "drain"
    /\ ReadToEOF
    /\ pc' = "save"
    /\ UNCHANGED <<disk, saved, started, handle, restoring, lastCount, resyncReq,
                   gap, budget>>

\* The checkpoint when something was read, and the flush at the end of a poll.
PollSave ==
    /\ pc = "save"
    /\ UNCHANGED archive
    /\ IF fresh THEN Checkpoint(HandlePosition(Consumed)) ELSE FlushArchive
    /\ fresh' = FALSE
    /\ lastCount' = Len(archive)
    /\ pc' = "idle"
    /\ UNCHANGED <<disk, started, reader, dedup, restoring, resyncReq, gap, budget>>

-----------------------------------------------------------------------------
(***************************************************************************)
(* The process, the operator and the host.                                 *)
(***************************************************************************)
Start ==
    /\ pc = "down"
    /\ pc' = "idle"
    /\ UNCHANGED <<disk, archive, saved, started, reader, dedup, fresh, restoring,
                   lastCount, resyncReq, gap, budget>>

Spends(what) == budget[what] > 0 /\ budget' = [budget EXCEPT ![what] = @ - 1]

\* The process ends: some of what was not flushed may have reached the disk.
Crash ==
    /\ pc # "down"
    /\ Spends("crash")
    /\ \E n \in durable..Len(archive) : archive' = SubSeq(archive, 1, n) /\ durable' = n
    /\ ~pos.saved /\ NeedsPosition(archive', oldest) => "no_position" \in Faults
    /\ Close
    /\ pc' = "down" /\ started' = FALSE
    /\ dedup' = FALSE /\ fresh' = FALSE
    /\ todo' = <<>> /\ startOff' = 0
    /\ lastCount' = 0 /\ resyncReq' = FALSE
    /\ wiped => "unrewound" \in Faults
    /\ UNCHANGED <<disk, pos, wiped, fails, gap>>

\* The position store is lost while the process is down.
LosePosition ==
    /\ pc = "down" /\ pos.saved
    /\ Spends("lose")
    /\ NeedsPosition(archive, oldest) => "no_position" \in Faults
    /\ pos' = NoPosition
    /\ wiped' = FALSE
    /\ UNCHANGED <<disk, archive, durable, fails, pc, started, reader, dedup, fresh,
                   restoring, lastCount, resyncReq, gap>>

\* The open file is the one at the path, so that a rewind comes back to it.
AtHead == handle # 0 /\ handle = newest /\ atPath

\* HistorySync.Resync, called from another goroutine.
Resync ==
    /\ pc # "down" /\ ~resyncReq
    /\ Spends("resync")
    /\ AtHead \/ "rewind_rotated" \in Faults
    /\ resyncReq' = TRUE
    /\ UNCHANGED <<disk, archive, saved, pc, started, reader, dedup, fresh, restoring,
                   lastCount, gap>>

\* Run takes a Truncate request between two polls and polls at once.
TruncateAndRewind ==
    /\ pc = "idle" /\ started
    /\ Spends("empty")
    /\ AtHead \/ handle = 0 \/ "rewind_rotated" \in Faults
    /\ archive' = <<>>
    /\ RewindToHead(FALSE)
    /\ gap' = FALSE
    /\ UNCHANGED <<disk, pc, started, fresh, restoring, resyncReq>>

\* The archive is emptied behind the tailer's back; between two polls the next
\* one notices.
Wipe ==
    /\ pc # "down" /\ archive # <<>>
    /\ (pc = "idle" /\ started /\ lastCount > 0) \/ "unrewound" \in Faults
    /\ Spends("empty")
    /\ AtHead \/ "rewind_rotated" \in Faults
    /\ archive' = <<>> /\ durable' = 0
    /\ gap' = FALSE /\ wiped' = pos.saved
    /\ UNCHANGED <<disk, pos, fails, pc, started, reader, dedup, fresh, restoring,
                   lastCount, resyncReq>>

-----------------------------------------------------------------------------
Init ==
    /\ files = <<>> /\ oldest = 1 /\ atPath = FALSE /\ torn = FALSE
    /\ archive = <<>> /\ durable = 0
    /\ pos = NoPosition
    /\ pc = "down" /\ started = FALSE
    /\ handle = 0 /\ offset = 0 /\ partial = FALSE
    /\ dedup = FALSE /\ fresh = FALSE
    /\ todo = <<>> /\ startOff = 0
    /\ lastCount = 0 /\ resyncReq = FALSE
    /\ gap = FALSE /\ wiped = FALSE
    /\ fails = MaxFail
    /\ budget = [crash |-> MaxCrash, resync |-> MaxResync, empty |-> MaxEmpty,
                 lose |-> MaxLose]

Schedd == ScheddBeginsRecord \/ ScheddEndsRecord \/ ScheddCreates \/ ScheddRotates

Restore ==
    \/ RestoreFound \/ RestoreGap \/ RestoreArchive \/ RestoreFirst
    \/ RestoreDrain \/ RestoreOpen

Poll ==
    \/ PollTails \/ PollResyncs \/ PollEmptied \/ PollStat \/ PollSaveOld
    \/ PollOpen \/ PollDrain \/ PollSave

Environment == Crash \/ LosePosition \/ Resync \/ TruncateAndRewind \/ Wipe

Next == Schedd \/ Start \/ Restore \/ Poll \/ Environment

Spec == Init /\ [][Next]_vars

\* Run polls for as long as the process lives, and the daemon restarts it; the
\* schedd, the operator and the failures owe nothing.
FairSpec == Spec /\ WF_vars(Start \/ Restore \/ Poll)

-----------------------------------------------------------------------------
(***************************************************************************)
(* Properties.                                                             *)
(***************************************************************************)
\* No record is archived twice or out of order, whatever was re-read after a
\* crash, a resync, a lost position or a gap (appendRecord's dedup,
\* fileFullyArchived, historyChain).
NoDuplicate == \A i \in 1..Len(archive) - 1 : archive[i] < archive[i + 1]

\* Between two archived records none is missing, unless the archive refused it
\* or restore() reported a retention gap (drainChain, openCurrent, rotation).
NoHole ==
    ~gap => \A i \in 1..Len(archive) - 1 :
              archive[i] + 1 .. archive[i + 1] - 1 \subseteq Refused

\* The saved position is never ahead of what is durably archived: the record
\* just before it is on disk (flushArchive before checkpoint's Save, and the
\* half-read record not counted).
PositionCovered ==
    pos.saved /\ pos.off > 0 /\ ~wiped =>
        \A f \in OnDisk : files[f].id = pos.id =>
            /\ pos.off <= files[f].size
            /\ Record(f, pos.off) \in {archive[i] : i \in 1..durable} \cup Refused

\* Once the schedd falls silent, the newest record of the current history file
\* gets archived, durably.
EventuallyArchived ==
    <>[](atPath /\ Written >= files[newest].first =>
            Written \in {archive[i] : i \in 1..durable} \cup Refused)
=============================================================================
