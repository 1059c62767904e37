---------------------------- MODULE HistoryImport ----------------------------
(***************************************************************************)
(* A history-import job (historyimport): RunLoop's cycles pull the history *)
(* or the epoch records of the schedds of a pool, newest first, append them*)
(* to an archive table and keep a cursor per schedd in a file.  A schedd,  *)
(* its stream, the database or the process may fail at any record.         *)
(*                                                                         *)
(* A record is its place in the schedd's history (id), the second it was   *)
(* written (date) and its kind: "ok", "deep" (the archive refuses it for   *)
(* good) or "other" (no job id or write date).  The cap MAX_RECORDS_PER_   *)
(* CYCLE and the constraints of a job are not modelled.                    *)
(***************************************************************************)
EXTENDS Integers, Sequences, FiniteSets, SequencesExt

CONSTANTS
    Schedds,          \* the schedds of the pool
    RecordKinds,      \* the kinds of records they write
    ImportFaults,     \* {"bootstrap_cut"}: the first scan of a schedd may be cut short
    MaxHistory,        \* bounds: records of a schedd,
    MaxCycle,         \*   cycles,
    MaxImportFault    \*   failures and crashes

ASSUME ScheddsAssumption == IsFiniteSet(Schedds)
ASSUME ImportBoundAssumption == MaxHistory \in Nat /\ MaxCycle \in Nat /\ MaxImportFault \in Nat

VARIABLES
    isource,   \* Job.Source, and the writer: "rpc" (DBWriter) or "catalog" (ArchiveWriter)
    ihist,     \* the history each schedd retains, oldest first
    iloop,     \* RunLoop: pc, the schedds of the cycle still to do, and the scan
    icursor,   \* FileCursors.m
    ifile,     \*   and what its file holds
    iarch,     \* how often the table holds each record
    ipending,  \* appended records that a crash may still lose, in order
    ileft

importvars == <<isource, ihist, iloop, icursor, ifile, iarch, ipending, ileft>>

\* A position: the newest job imported, or for epochs the newest write date and
\* the records imported at that second (epochCursor).
NoImportCursor == [at |-> 0, keys |-> {}]
NoScan == [todo |-> <<>>, dedup |-> FALSE, at |-> 0, keys |-> {}, saw |-> FALSE]
IdleLoop == [pc |-> "wait", queue |-> <<>>, scan |-> NoScan]

ImportStart(source) ==
    /\ isource = source
    /\ ihist = [s \in Schedds |-> <<>>]
    /\ iloop = IdleLoop
    /\ icursor = [s \in Schedds |-> NoImportCursor] /\ ifile = icursor
    /\ iarch = [s \in Schedds |-> [i \in 1..MaxHistory |-> 0]]
    /\ ipending = <<>>
    /\ ileft = [cycle |-> MaxCycle, fault |-> MaxImportFault, written |-> [s \in Schedds |-> 0]]
ImportSources == [kind : {"history", "epoch"}, writer : {"rpc", "catalog"}]
ImportInit == \E source \in ImportSources : ImportStart(source)

-----------------------------------------------------------------------------
\* A schedd completes a job or writes an epoch, in this second or a later one,
\* and its oldest record may be rotated away.
ScheddRecords(s) ==
    /\ ileft.written[s] < MaxHistory
    /\ ileft' = [ileft EXCEPT !.written[s] = @ + 1]
    /\ \E kind \in RecordKinds, later \in {0, 1} :
        LET last == IF ihist[s] = <<>> THEN 1 ELSE ihist[s][Len(ihist[s])].date
        IN  ihist' = [ihist EXCEPT ![s] =
                         Append(@, [id |-> ileft'.written[s], date |-> last + later, kind |-> kind])]
    /\ UNCHANGED <<isource, iloop, icursor, ifile, iarch, ipending>>

ScheddForgets(s) ==
    /\ Len(ihist[s]) > 1 /\ ihist' = [ihist EXCEPT ![s] = Tail(@)]
    /\ UNCHANGED <<isource, iloop, icursor, ifile, iarch, ipending, ileft>>

-----------------------------------------------------------------------------
\* RunJob: the schedds that the collector lists now, one after the other.
RunJob ==
    /\ iloop.pc = "wait" /\ ileft.cycle > 0
    /\ ileft' = [ileft EXCEPT !.cycle = @ - 1]
    /\ \E found \in SUBSET Schedds :
         iloop' = [iloop EXCEPT !.pc = "next", !.queue = SetToSeq(found)]
    /\ UNCHANGED <<isource, ihist, icursor, ifile, iarch, ipending>>

\* the schedd being imported
Current == Head(iloop.queue)

\* historyOptions: the schedd scans backwards from its newest record as far as
\* the cursor: the job itself, which may have been rotated away, or the first
\* record older than the cursor's second.
Since(cursor, r) == IF isource.kind = "history" THEN r.id > cursor.at ELSE r.date >= cursor.at

Newest(hist, cursor) ==
    LET stop == Max({0} \cup {i \in DOMAIN hist : ~Since(cursor, hist[i])})
    IN  [i \in 1..Len(hist) - stop |-> hist[Len(hist) + 1 - i]]

\* importSchedd and importEpochSchedd up to the query.
BeginSchedd ==
    /\ iloop.pc = "next" /\ iloop.queue # <<>>
    /\ LET cursor == icursor[Current]
       IN  iloop' = [iloop EXCEPT !.pc = "scan",
                !.scan = [todo |-> Newest(ihist[Current], cursor),
                          dedup |-> isource.kind = "history" /\ cursor.at = 0,
                          at |-> IF isource.kind = "history" THEN 0 ELSE cursor.at,
                          keys |-> {}, saw |-> FALSE]]
    /\ UNCHANGED <<isource, ihist, icursor, ifile, iarch, ipending, ileft>>

CycleEnds ==
    /\ iloop.pc = "next" /\ iloop.queue = <<>> /\ iloop' = IdleLoop
    /\ UNCHANGED <<isource, ihist, icursor, ifile, iarch, ipending, ileft>>

\* Writer.Append, which skipTooDeep passes over.
Appends(r) ==
    IF r.kind = "deep" THEN UNCHANGED <<iarch, ipending>>
    ELSE /\ iarch' = [iarch EXCEPT ![Current][r.id] = @ + 1]
         /\ ipending' = IF isource.writer = "catalog" THEN Append(ipending, <<Current, r.id>>)
                                                      ELSE ipending
ArchiveHas(r) == iarch[Current][r.id] > 0

\* importSchedd's callback: the first job is the new cursor; without a cursor
\* the scan stops at the first record the table has.
YieldJob ==
    LET scan == iloop.scan
        r == Head(scan.todo)
        held == r.kind # "other" /\ scan.dedup /\ ArchiveHas(r)
    IN  /\ iloop.pc = "scan" /\ scan.todo # <<>> /\ isource.kind = "history"
        /\ iloop' = [iloop EXCEPT !.scan.todo = IF held THEN <<>> ELSE Tail(@),
                         !.scan.at = IF r.kind # "other" /\ @ = 0 THEN r.id ELSE @,
                         !.scan.saw = @ \/ r.kind # "other"]
        /\ IF held \/ r.kind = "other" THEN UNCHANGED <<iarch, ipending>> ELSE Appends(r)
        /\ UNCHANGED <<isource, ihist, icursor, ifile, ileft>>

\* importEpochSchedd's callback: the keys at the newest second, and the record
\* unless it was imported at the second of the cursor.
\* (Mutant: the keys of the cursor are not consulted.)
ImportedNever(cursor, r) == FALSE
Imported(cursor, r) == r.date = cursor.at /\ r.id \in cursor.keys

YieldEpoch ==
    LET scan == iloop.scan
        r == Head(scan.todo)
    IN  /\ iloop.pc = "scan" /\ scan.todo # <<>> /\ isource.kind = "epoch"
        /\ iloop' = [iloop EXCEPT !.scan =
                IF r.kind = "other" THEN [scan EXCEPT !.todo = Tail(@)]
                ELSE [scan EXCEPT !.todo = Tail(@), !.saw = TRUE,
                         !.at = IF r.date > @ THEN r.date ELSE @,
                         !.keys = IF r.date > scan.at THEN {r.id}
                                  ELSE IF r.date = scan.at THEN @ \cup {r.id} ELSE @]]
        /\ IF r.kind = "other" \/ Imported(icursor[Current], r)
             THEN UNCHANGED <<iarch, ipending>> ELSE Appends(r)
        /\ UNCHANGED <<isource, ihist, icursor, ifile, ileft>>

\* The stream has ended: Writer.Flush, if there is a cursor to store.
\* (Mutant: no flush.)
FlushLeavesAll == ipending
FlushLeaves == <<>>
FlushSchedd ==
    /\ iloop.pc = "scan" /\ iloop.scan.todo = <<>>
    /\ IF iloop.scan.saw
         THEN ipending' = FlushLeaves /\ iloop' = [iloop EXCEPT !.pc = "set"]
         ELSE /\ iloop' = [iloop EXCEPT !.pc = "next", !.queue = Tail(@), !.scan = NoScan]
              /\ UNCHANGED ipending
    /\ UNCHANGED <<isource, ihist, icursor, ifile, iarch, ileft>>

\* Cursors.Set: the map, then the file.
SetCursor ==
    LET new == [at |-> iloop.scan.at, keys |-> iloop.scan.keys] IN
    /\ iloop.pc = "set"
    /\ icursor' = [icursor EXCEPT ![Current] = new]
    /\ iloop' = [iloop EXCEPT !.pc = "next", !.queue = Tail(@), !.scan = NoScan]
    /\ \/ ifile' = icursor' /\ UNCHANGED ileft
       \/ /\ ileft.fault > 0 /\ ileft' = [ileft EXCEPT !.fault = @ - 1]
          /\ UNCHANGED ifile
    /\ UNCHANGED <<isource, ihist, iarch, ipending>>

-----------------------------------------------------------------------------
\* A first scan that has appended some of a schedd's records and not all.
Bootstrapping ==
    /\ isource.kind = "history"
    /\ \E s \in Schedds :
         /\ ifile[s].at = 0 /\ \E i \in 1..MaxHistory : iarch[s][i] > 0
         /\ \/ iloop.pc = "scan" /\ Current = s
            \/ \E p \in DOMAIN ipending : ipending[p][1] = s

Fails ==
    /\ ileft.fault > 0 /\ ileft' = [ileft EXCEPT !.fault = @ - 1]
    /\ Bootstrapping => "bootstrap_cut" \in ImportFaults

\* The schedd, the stream, a lookup, an append or a flush fails: the next schedd.
ScheddFails ==
    /\ iloop.pc = "scan" /\ Fails
    /\ iloop' = [iloop EXCEPT !.pc = "next", !.queue = Tail(@), !.scan = NoScan]
    /\ UNCHANGED <<isource, ihist, icursor, ifile, iarch, ipending>>

\* ErrTableReadOnly at an append: RunJob and RunLoop return, the process exits.
TableReadOnly ==
    /\ iloop.pc = "scan" /\ iloop.scan.todo # <<>> /\ Fails
    /\ iloop' = [IdleLoop EXCEPT !.pc = "down"]
    /\ UNCHANGED <<isource, ihist, icursor, ifile, iarch, ipending>>

\* A crash: the table loses what was not flushed, the newest append last.
ImportCrash ==
    /\ iloop.pc # "down" /\ Fails
    /\ iloop' = [IdleLoop EXCEPT !.pc = "down"]
    /\ \E kept \in 0..Len(ipending) :
         iarch' = [s \in Schedds |-> [i \in 1..MaxHistory |->
             iarch[s][i] - Cardinality({p \in kept + 1..Len(ipending) : ipending[p] = <<s, i>>})]]
    /\ ipending' = <<>>
    /\ UNCHANGED <<isource, ihist, icursor, ifile>>

\* NewFileCursors.
ImportRestart ==
    /\ iloop.pc = "down" /\ iloop' = IdleLoop
    /\ icursor' = ifile
    /\ UNCHANGED <<isource, ihist, ifile, iarch, ipending, ileft>>

ImportNext ==
    \/ \E s \in Schedds : ScheddRecords(s) \/ ScheddForgets(s)
    \/ RunJob \/ BeginSchedd \/ CycleEnds \/ YieldJob \/ YieldEpoch \/ FlushSchedd \/ SetCursor
    \/ ScheddFails \/ TableReadOnly \/ ImportCrash \/ ImportRestart

ImportSpec == ImportInit /\ [][ImportNext]_importvars

-----------------------------------------------------------------------------
(***************************************************************************)
(* The stored cursor of a schedd never gets ahead of the archive: every    *)
(* record the schedd still has that the cursor makes later scans pass over *)
(* is in the table, durably (the comments of Flush and importSchedd).      *)
(***************************************************************************)
Passed(cursor, r) ==
    IF isource.kind = "history" THEN r.id <= cursor.at
    ELSE r.date < cursor.at \/ r.id \in cursor.keys
CursorBehindArchive ==
    \A s \in Schedds : \A i \in DOMAIN ihist[s] :
        LET r == ihist[s][i] IN
        Passed(ifile[s], r) /\ r.kind = "ok" =>
            iarch[s][r.id] > 0 /\ ~Contains(ipending, <<s, r.id>>)

(***************************************************************************)
(* A record is imported again only because a cycle was cut short: the      *)
(* cursor's job or second, the keys at that second, a rotation and schedds *)
(* that come and go never make a cycle that succeeds append one twice.     *)
(***************************************************************************)
ImportedOnce ==
    \A s \in Schedds, i \in 1..MaxHistory :
        iarch[s][i] <= 1 + (MaxImportFault - ileft.fault)
=============================================================================
