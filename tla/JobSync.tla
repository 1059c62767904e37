------------------------------ MODULE JobSync ------------------------------
(***************************************************************************)
(* scheddsync.JobSync: the tailer that mirrors a schedd's job_queue.log    *)
(* into htcondordb tables.  This module is about POSITION and DURABILITY:  *)
(* which entries of which file have reached the tables, what the saved     *)
(* resume position promises, and how the incremental path, the reconciling *)
(* reload, commit conflicts, compactions, crashes and shutdowns interact.  *)
(*                                                                         *)
(* The data is abstracted to one value per ad key: an entry writes a key   *)
(* (NewClassAd and its SetAttributes) or destroys it.  How the attributes  *)
(* of one row are composed (chaining, fan-out, merging) is module JobAds.  *)
(*                                                                         *)
(* The schedd appends to the current file and compacts it by renaming a    *)
(* snapshot over it, bumping the op-107 sequence number that heads the     *)
(* file.  Generation g of the log is files[g], its sequence number is g.   *)
(* Every read the tailer makes of the path (sequence, stat, probe, open)   *)
(* is a step of its own, so the schedd can act in between.                 *)
(***************************************************************************)
EXTENDS Integers, Sequences, FiniteSets

CONSTANTS
    Key,                \* ad keys of the log
    NoKey,              \* the key of a Begin/EndTransaction entry
    Value,              \* what an ad can hold
    NoRow,              \* the key has no ad
    Unset,              \* the open transactions do not touch the key
    Table,              \* the mirror's tables
    TableOf,            \* routeTable: the table a key flattens into
    Inode, NoInode,     \* file identities
    MaxConflictRetries, \* maxConflictRetries (3 in the code)
    Faults,             \* which of FaultKinds the environment may produce
    MaxGen, MaxLen,     \* bounds on the log: generations, entries of one file
    MaxCrash, MaxStop, MaxConflict, MaxResync \* bounds on the environment

(***************************************************************************)
(* The kinds of environment behaviour that are switched per run:           *)
(*   cancel_in_pass, cancel_in_reload                                      *)
(*                   the context is cancelled while that read loop runs;   *)
(*   crash_in_reload a crash during a reload of the generation the saved   *)
(*                   position still names (resync, conflict escalation);   *)
(*   reload_error    the reload's last commit or its sweep conflicts;      *)
(*   no_sequence     the log has no op-107 header: inode and size decide;  *)
(*   save_error      the save at the end of a reload fails;                *)
(*   torn_reload     a reload reaches EOF inside a schedd transaction;     *)
(*   unapplied       the store refuses to compose a row (UnappliedError).  *)
(***************************************************************************)
FaultKinds == {"cancel_in_pass", "cancel_in_reload", "crash_in_reload", "no_sequence",
               "reload_error", "save_error", "torn_reload", "unapplied"}

ASSUME KeyAssumption == IsFiniteSet(Key) /\ NoKey \notin Key /\ TableOf \in [Key -> Table]
ASSUME RowAssumption == NoRow \notin Value /\ Unset \notin Value \cup {NoRow}
ASSUME InodeAssumption == NoInode \notin Inode
ASSUME BoundAssumption ==
    /\ MaxConflictRetries \in Nat \ {0}
    /\ {MaxGen, MaxLen, MaxCrash, MaxStop, MaxConflict, MaxResync} \subseteq Nat
    /\ Faults \subseteq FaultKinds

Row == Value \cup {NoRow}
Queue == [Key -> Row]
EmptyQueue == [k \in Key |-> NoRow]

(***************************************************************************)
(* One entry of the log.  q and intx are history: the schedd's queue after *)
(* the entry, and whether a transaction is then open.                      *)
(***************************************************************************)
Entry == {e \in [op : {"begin", "end", "write"}, key : Key \cup {NoKey}, val : Row,
                q : Queue, intx : BOOLEAN] : e.op = "write" <=> e.key # NoKey}

VARIABLES
    files,      \* the log's generations; the last one is at the path
    inode,      \* the inode of each generation
    table,      \* the mirror's committed rows
    pos,        \* jobs.pos: the saved resume position
    pc,         \* where the tailer is in Run/Poll/reconcileReload
    restored,   \* restore() has run in this process
    offset,     \* the parser's next offset, in entries
    fd,         \* the generation the parser has open (0: none)
    headSeq,    \* the sequence number read before the body (0: none)
    curSeq,     \* sequence number of the file last read (0: !haveSeq)
    curIno,     \* identity of the file last read (NoInode: !haveID)
    explicit,   \* a schedd transaction is open
    buf,        \* the buffered writes of the open DB transactions
    persisted,  \* persistedOffset, the offset a conflict rewinds to
    conflictOffset, conflictRuns, \* the commit-conflict streak
    before,     \* a reload's snapshot of the tables' keys
    seen,       \* the keys the reload has found a live ad for
    resyncReq,  \* an operator asked for a resync
    lost,       \* history: keys whose last write the store refused
    budget      \* what the environment may still do

logVars == <<files, inode>>
durable == <<table, pos>>
parser == <<offset, fd>>
ident == <<curSeq, curIno>>
txn == <<explicit, buf>>
conflict == <<conflictOffset, conflictRuns>>
reload == <<before, seen>>
vars == <<files, inode, table, pos, pc, restored, offset, fd, headSeq, curSeq,
          curIno, explicit, buf, persisted, conflictOffset, conflictRuns,
          before, seen, resyncReq, lost, budget>>

Polling == {"idle", "stat", "probe", "open", "read"}
Reloading == {"rlopen", "rlread", "rlfinish", "rlsweep", "rlsave"}

Position == [saved : BOOLEAN, ino : Inode \cup {NoInode}, off : Nat, seq : Nat]
NoPosition == [saved |-> FALSE, ino |-> NoInode, off |-> 0, seq |-> 0]

LogType ==
    /\ files \in Seq(Seq(Entry)) /\ files # <<>>
    /\ inode \in Seq(Inode) /\ Len(inode) = Len(files)
StoreType == table \in Queue /\ pos \in Position /\ lost \subseteq Key
ControlType ==
    /\ pc \in {"down"} \cup Polling \cup Reloading
    /\ restored \in BOOLEAN /\ resyncReq \in BOOLEAN
ParserType ==
    /\ offset \in Nat /\ persisted \in Nat
    /\ fd \in 0..Len(files) /\ headSeq \in 0..Len(files) /\ curSeq \in 0..Len(files)
    /\ curIno \in Inode \cup {NoInode}
    /\ pc \in {"read", "rlread"} => fd # 0
TxnType == explicit \in BOOLEAN /\ buf \in [Key -> Row \cup {Unset}]
ConflictType == conflictOffset \in Nat /\ conflictRuns \in 0..MaxConflictRetries - 1
ReloadType == before \subseteq Key /\ seen \subseteq Key
BudgetType == budget \in [crash : Nat, stop : Nat, conflict : Nat, resync : Nat]

\* Every variable has its type; in particular the conflict streak stays below
\* its bound, and the parser reads only a file it has open.
TypeOK ==
    /\ LogType /\ StoreType /\ ControlType /\ ParserType
    /\ TxnType /\ ConflictType /\ ReloadType /\ BudgetType

(***************************************************************************)
(* The log.                                                                *)
(***************************************************************************)
gen == Len(files)
Current == files[gen]

\* The schedd's queue, and whether a transaction is open, after n entries of
\* file f; whether an entry of f in (m, n] is about key k.
QueueAfter(f, n) == IF n \in 1..Len(f) THEN f[n].q ELSE EmptyQueue
OpenAfter(f, n) == n \in 1..Len(f) /\ f[n].intx
Touches(f, k, m, n) == \E i \in m + 1..n : f[i].key = k

QueueAt(g, n) == QueueAfter(files[g], n)
InTxn(g, n) == OpenAfter(files[g], n)

\* What a restarted schedd recovers: the queue at the last transaction boundary.
Committed(g) ==
    QueueAt(g, CHOOSE n \in 0..Len(files[g]) :
                   /\ ~InTxn(g, n)
                   /\ \A m \in n + 1..Len(files[g]) : InTxn(g, m))

\* The compacted file: one write per live ad, in some order.
Snapshots(queue) ==
    LET live == {k \in Key : queue[k] # NoRow} IN
    {[i \in 1..Cardinality(live) |->
        [op |-> "write", key |-> order[i], val |-> queue[order[i]],
         q |-> [k \in Key |-> IF \E j \in 1..i : order[j] = k THEN queue[k] ELSE NoRow],
         intx |-> FALSE]] :
     order \in {f \in [1..Cardinality(live) -> live] :
                  \A k \in live : \E i \in 1..Cardinality(live) : f[i] = k}}

Appended(op, k, v, in) ==
    [op |-> op, key |-> k, val |-> v,
     q |-> [x \in Key |-> IF x = k THEN v ELSE QueueAt(gen, Len(Current))[x]],
     intx |-> in]

\* Every transaction the schedd begins has room to end.
ScheddAppends(e) ==
    /\ Len(Current) + (IF e.intx THEN 2 ELSE 1) <= MaxLen
    /\ files' = [files EXCEPT ![gen] = Append(@, e)]
    /\ UNCHANGED <<inode, durable, pc, restored, parser, headSeq, ident, txn,
                   persisted, conflict, reload, resyncReq, lost, budget>>

\* external: HTCondor's ClassAdLog, as the tailer's comments describe it.
ScheddWrites ==
    \E k \in Key, v \in Row :
        /\ v # QueueAt(gen, Len(Current))[k]
        /\ ScheddAppends(Appended("write", k, v, InTxn(gen, Len(Current))))
ScheddBegins == ~InTxn(gen, Len(Current)) /\ ScheddAppends(Appended("begin", NoKey, NoRow, TRUE))
ScheddEnds == InTxn(gen, Len(Current)) /\ ScheddAppends(Appended("end", NoKey, NoRow, FALSE))

\* The schedd writes job_queue.log.tmp and renames it over the log.  A file the
\* tailer holds open keeps its inode; an older one's inode may come back.
ScheddCompacts ==
    /\ gen < MaxGen
    /\ \E i \in Inode, s \in Snapshots(Committed(gen)) :
        /\ i # inode[gen]
        /\ fd # 0 => i # inode[fd]
        /\ files' = Append(files, s)
        /\ inode' = Append(inode, i)
    /\ UNCHANGED <<durable, pc, restored, parser, headSeq, ident, txn,
                   persisted, conflict, reload, resyncReq, lost, budget>>
-----------------------------------------------------------------------------
(***************************************************************************)
(* The tailer's transactions and saved position.                           *)
(***************************************************************************)
NoWrites == [k \in Key |-> Unset]
Pending == {k \in Key : buf[k] # Unset}

\* The rows once the writes w of the keys in ks have been committed.
Landed(w, ks) == [k \in Key |-> IF k \in ks /\ w[k] # Unset THEN w[k] ELSE table[k]]

\* commitAll with no error.
CommitAll ==
    /\ table' = Landed(buf, Key)
    /\ lost' = lost \ Pending
    /\ buf' = NoWrites

\* The commit of an implicit batch, at a BeginTransaction and at EOF.
\* (Mutant: it commits an open transaction too.)
CommitAnyBatch == CommitAll
CommitImplicit == IF explicit THEN UNCHANGED <<table, lost, buf>> ELSE CommitAll

\* The keys of c were superseded by another writer; the others landed.
CommitConflicts(c) ==
    /\ budget.conflict > 0
    /\ budget' = [budget EXCEPT !.conflict = @ - 1]
    /\ c # {} /\ c \subseteq Pending
    /\ \E other \in [c -> Row] :
         table' = [k \in Key |-> IF k \in c THEN other[k] ELSE Landed(buf, Key)[k]]
    /\ buf' = NoWrites

\* (Mutant: the position is saved inside a transaction too.)
CheckpointMidTxn(ino) ==
    /\ pos' = [saved |-> TRUE, ino |-> ino, off |-> offset, seq |-> curSeq]
    /\ persisted' = offset

\* checkpoint(): nothing is saved while a schedd transaction is open.
Checkpoint(ino) ==
    IF explicit THEN UNCHANGED <<pos, persisted>>
    ELSE /\ pos' = [saved |-> TRUE, ino |-> ino, off |-> offset, seq |-> curSeq]
         /\ persisted' = offset

\* maybeCheckpoint(): the save interval may not have elapsed, or the save fails:
\* either way the position and persistedOffset stay as they are.
MaybeCheckpoint(ino) == Checkpoint(ino) \/ UNCHANGED <<pos, persisted>>

\* The start of reconcileReload: abort, read the sequence number, rewind the
\* parser, snapshot the keys of the tables (rows).
StartReload(rows) ==
    /\ explicit' = FALSE /\ buf' = NoWrites
    /\ headSeq' = gen
    /\ offset' = 0 /\ fd' = 0
    /\ before' = {k \in Key : rows[k] # NoRow} /\ seen' = {}
    /\ pc' = "rlopen"

-----------------------------------------------------------------------------
(***************************************************************************)
(* Poll.                                                                   *)
(***************************************************************************)
\* The head of the file names its generation (readLogSequence's ok).
SeqKnown == "no_sequence" \notin Faults

\* restore() accepts the saved position only for the file it was taken from.
WouldResume ==
    /\ pos.saved
    /\ pos.ino = inode[gen]
    /\ Len(Current) >= pos.off
    /\ SeqKnown => pos.seq = gen

Resume ==
    /\ pc = "idle" /\ ~restored
    /\ WouldResume
    /\ restored' = TRUE
    /\ offset' = pos.off /\ persisted' = pos.off
    /\ curIno' = inode[gen] /\ curSeq' = gen
    /\ UNCHANGED <<logVars, durable, pc, fd, headSeq, txn, conflict, reload,
                   resyncReq, lost, budget>>

RestoreReloads ==
    /\ pc = "idle" /\ ~restored
    /\ ~WouldResume
    /\ StartReload(table)
    /\ UNCHANGED <<logVars, durable, restored, ident, persisted, conflict,
                   resyncReq, lost, budget>>

\* An operator's resync is consumed before anything else is looked at.
PollResyncs ==
    /\ pc = "idle" /\ restored /\ resyncReq
    /\ resyncReq' = FALSE
    /\ StartReload(table)
    /\ UNCHANGED <<logVars, durable, restored, ident, persisted, conflict,
                   lost, budget>>

SequenceChanged == SeqKnown /\ curSeq # 0 /\ curSeq # gen

\* The op-107 header is read before the body; a change means a compaction.
PollSequence ==
    /\ pc = "idle" /\ restored /\ ~resyncReq
    /\ IF SequenceChanged
       THEN StartReload(table)
       ELSE /\ headSeq' = gen
            /\ pc' = "stat"
            /\ UNCHANGED <<parser, txn, reload>>
    /\ UNCHANGED <<logVars, durable, restored, ident, persisted, conflict,
                   resyncReq, lost, budget>>

PollIdentity ==
    /\ pc = "stat"
    /\ IF curIno # NoInode /\ curIno # inode[gen]
       THEN StartReload(table)
       ELSE /\ pc' = "probe"
            /\ UNCHANGED <<parser, headSeq, txn, reload>>
    /\ UNCHANGED <<logVars, durable, restored, ident, persisted, conflict,
                   resyncReq, lost, budget>>

\* The prober (external) compares the size at the path with the offset.
PollProbe ==
    /\ pc = "probe"
    /\ \/ /\ Len(Current) = offset
          /\ pc' = "idle" /\ headSeq' = 0
          /\ UNCHANGED <<parser, txn, reload>>
       \/ /\ Len(Current) < offset
          /\ StartReload(table)
       \/ /\ Len(Current) > offset
          /\ pc' = "open"
          /\ UNCHANGED <<parser, headSeq, txn, reload>>
    /\ UNCHANGED <<logVars, durable, restored, ident, persisted, conflict,
                   resyncReq, lost, budget>>

PollOpen ==
    /\ pc = "open"
    /\ fd' = gen
    /\ pc' = "read"
    /\ UNCHANGED <<logVars, durable, restored, offset, headSeq, ident, txn,
                   persisted, conflict, reload, resyncReq, lost, budget>>

-----------------------------------------------------------------------------
(***************************************************************************)
(* readAndApply: one step per entry, a commit at each transaction boundary *)
(* and at the end of the pass.                                             *)
(***************************************************************************)
AtEOF == offset >= Len(files[fd])
NextOp == files[fd][offset + 1]

ReadWrite ==
    /\ pc = "read" /\ ~AtEOF /\ NextOp.op = "write"
    /\ buf' = [buf EXCEPT ![NextOp.key] = NextOp.val]
    /\ offset' = offset + 1
    /\ UNCHANGED <<logVars, durable, pc, restored, fd, headSeq, ident, explicit,
                   persisted, conflict, reload, resyncReq, lost, budget>>

\* An implicit batch is committed before an explicit transaction begins.
ReadBegin ==
    /\ pc = "read" /\ ~AtEOF /\ NextOp.op = "begin"
    /\ CommitImplicit
    /\ explicit' = TRUE
    /\ offset' = offset + 1
    /\ UNCHANGED <<logVars, pos, pc, restored, fd, headSeq, ident, persisted,
                   conflict, reload, resyncReq, budget>>

ReadEnd ==
    /\ pc = "read" /\ ~AtEOF /\ NextOp.op = "end"
    /\ IF explicit THEN CommitAll ELSE UNCHANGED <<table, lost, buf>>
    /\ explicit' = FALSE
    /\ offset' = offset + 1
    /\ UNCHANGED <<logVars, pos, pc, restored, fd, headSeq, ident, persisted,
                   conflict, reload, resyncReq, budget>>

\* EOF: commit an implicit batch, record the identity of the file that was
\* read, save the position, clear the conflict streak, adopt headSeq.
PassEnds ==
    /\ pc = "read" /\ AtEOF
    /\ CommitImplicit
    /\ curIno' = inode[fd]
    /\ MaybeCheckpoint(inode[fd])
    /\ conflictOffset' = 0 /\ conflictRuns' = 0
    /\ curSeq' = headSeq
    /\ fd' = 0 /\ headSeq' = 0
    /\ pc' = "idle"
    /\ UNCHANGED <<logVars, restored, offset, explicit, reload, resyncReq, budget>>

\* commitAll is about to run with something to commit.
AtCommit ==
    /\ pc = "read"
    /\ Pending # {}
    /\ \/ AtEOF /\ ~explicit
       \/ ~AtEOF /\ NextOp.op = "begin" /\ ~explicit
       \/ ~AtEOF /\ NextOp.op = "end" /\ explicit

\* (Mutant: the retry carries on where the conflict was met.)
StayPut == offset

\* Where a conflicting pass starts again, and when it stops trying.
RewindTo == persisted
Escalates(runs) == runs >= MaxConflictRetries

\* handleCommitConflict: rewind to the durable position and try again, or give
\* up after MaxConflictRetries at the same offset and rebuild.
PassConflicts ==
    /\ AtCommit
    /\ \E c \in SUBSET Pending : CommitConflicts(c)
    /\ curIno' = inode[fd]
    /\ LET runs == IF persisted = conflictOffset THEN conflictRuns + 1 ELSE 1 IN
       IF Escalates(runs)
       THEN /\ conflictOffset' = 0 /\ conflictRuns' = 0
            /\ StartReload(table')
       ELSE /\ conflictOffset' = persisted /\ conflictRuns' = runs
            /\ offset' = RewindTo /\ fd' = 0 /\ headSeq' = 0
            /\ explicit' = FALSE
            /\ pc' = "idle"
            /\ UNCHANGED reload
    /\ UNCHANGED <<logVars, pos, restored, curSeq, persisted, resyncReq, lost>>

\* UnappliedError: the keys of u keep their rows, the pass stops after the
\* entry that committed, without a save and without a rewind.
PassUnapplied ==
    /\ "unapplied" \in Faults
    /\ AtCommit
    /\ budget.conflict > 0
    /\ budget' = [budget EXCEPT !.conflict = @ - 1]
    /\ \E u \in SUBSET Pending \ {{}} :
        /\ table' = Landed(buf, Key \ u)
        /\ lost' = (lost \ Pending) \cup u
    /\ buf' = NoWrites /\ explicit' = FALSE
    /\ offset' = IF AtEOF THEN offset ELSE offset + 1
    /\ curIno' = inode[fd]
    /\ conflictOffset' = 0 /\ conflictRuns' = 0
    /\ curSeq' = headSeq
    /\ fd' = 0 /\ headSeq' = 0
    /\ pc' = "idle"
    /\ UNCHANGED <<logVars, pos, restored, persisted, reload, resyncReq>>

-----------------------------------------------------------------------------
(***************************************************************************)
(* reconcileReload, after StartReload.                                     *)
(***************************************************************************)
ReloadOpen ==
    /\ pc = "rlopen"
    /\ fd' = gen
    /\ pc' = "rlread"
    /\ UNCHANGED <<logVars, durable, restored, offset, headSeq, ident, txn,
                   persisted, conflict, reload, resyncReq, lost, budget>>

\* The reconciler: transaction grouping is ignored, a live ad is buffered and
\* its key seen, a destroyed one is dropped from both.
ReloadEntry ==
    /\ pc = "rlread" /\ ~AtEOF
    /\ IF NextOp.op = "write"
       THEN /\ buf' = [buf EXCEPT ![NextOp.key] = NextOp.val]
            /\ seen' = IF NextOp.val = NoRow THEN seen \ {NextOp.key}
                                             ELSE seen \cup {NextOp.key}
       ELSE UNCHANGED <<buf, seen>>
    /\ offset' = offset + 1
    /\ UNCHANGED <<logVars, durable, pc, restored, fd, headSeq, ident, explicit,
                   persisted, conflict, before, resyncReq, lost, budget>>

\* A batch is full.  A conflict is stepped past: the other writer's row stays.
ReloadBatch ==
    /\ pc = "rlread" /\ Pending # {}
    /\ \/ CommitAll /\ UNCHANGED budget
       \/ \E c \in SUBSET Pending : CommitConflicts(c) /\ lost' = (lost \ Pending) \cup c
    /\ UNCHANGED <<logVars, pos, pc, restored, parser, headSeq, ident, explicit,
                   persisted, conflict, reload, resyncReq>>

\* closeParser: identity and sequence number of what was reloaded.
ReloadEOF ==
    /\ pc = "rlread" /\ AtEOF
    /\ fd = gen /\ InTxn(fd, offset) => "torn_reload" \in Faults
    /\ curIno' = inode[fd] /\ curSeq' = headSeq
    /\ fd' = 0
    /\ pc' = "rlfinish"
    /\ UNCHANGED <<logVars, durable, restored, offset, headSeq, txn, persisted,
                   conflict, reload, resyncReq, lost, budget>>

ReloadFinish ==
    /\ pc = "rlfinish"
    /\ CommitAll
    /\ pc' = "rlsweep"
    /\ UNCHANGED <<logVars, pos, restored, parser, headSeq, ident, explicit,
                   persisted, conflict, reload, resyncReq, budget>>

\* (Mutants: nothing is swept; everything the tables held is.)
SweptNothing == NoWrites
SweptEverything == [k \in Key |-> IF k \in before THEN NoRow ELSE Unset]

\* The keys the tables held before and the log no longer mentions.
Swept == [k \in Key |-> IF k \in before \ seen THEN NoRow ELSE Unset]

ReloadSweep ==
    /\ pc = "rlsweep"
    /\ table' = Landed(Swept, Key)
    /\ lost' = lost \ (before \ seen)
    /\ pc' = "rlsave"
    /\ UNCHANGED <<logVars, pos, restored, parser, headSeq, ident, txn,
                   persisted, conflict, reload, resyncReq, budget>>

ReloadEnds ==
    /\ before' = {} /\ seen' = {} /\ headSeq' = 0
    /\ pc' = "idle"

ReloadSave ==
    /\ pc = "rlsave"
    /\ Checkpoint(curIno)
    /\ restored' = TRUE
    /\ ReloadEnds
    /\ UNCHANGED <<logVars, table, parser, ident, txn, conflict, resyncReq,
                   lost, budget>>

\* checkpoint()'s Save fails after the sweep: the reload is over all the same,
\* and persistedOffset is still the one of the file read before.
ReloadSaveFails ==
    /\ "save_error" \in Faults
    /\ pc = "rlsave"
    /\ restored' = TRUE
    /\ ReloadEnds
    /\ UNCHANGED <<logVars, durable, parser, ident, txn, persisted, conflict,
                   resyncReq, lost, budget>>

\* The last batch or the sweep conflicts: reconcileReload returns the error.
ReloadFails ==
    /\ "reload_error" \in Faults
    /\ \/ /\ pc = "rlfinish"
          /\ \E c \in SUBSET Pending : CommitConflicts(c) /\ lost' = (lost \ Pending) \cup c
       \/ /\ pc = "rlsweep"
          /\ budget.conflict > 0 /\ before \ seen # {}
          /\ budget' = [budget EXCEPT !.conflict = @ - 1]
          /\ \E c \in SUBSET (before \ seen) \ {{}} :
               /\ table' = Landed(Swept, Key \ c)
               /\ lost' = (lost \ (before \ seen)) \cup c
          /\ UNCHANGED buf
    /\ ReloadEnds
    /\ UNCHANGED <<logVars, pos, restored, parser, ident, explicit, persisted,
                   conflict, resyncReq>>

-----------------------------------------------------------------------------
(***************************************************************************)
(* The process.                                                            *)
(***************************************************************************)
\* What a process that ends takes with it.
Down ==
    /\ pc' = "down" /\ restored' = FALSE
    /\ offset' = 0 /\ fd' = 0 /\ headSeq' = 0
    /\ curSeq' = 0 /\ curIno' = NoInode
    /\ explicit' = FALSE /\ buf' = NoWrites
    /\ conflictOffset' = 0 /\ conflictRuns' = 0
    /\ before' = {} /\ seen' = {}
    /\ resyncReq' = FALSE

Start ==
    /\ pc = "down"
    /\ pc' = "idle"
    /\ UNCHANGED <<logVars, durable, restored, parser, headSeq, ident, txn,
                   persisted, conflict, reload, resyncReq, lost, budget>>

\* Run's ctx.Done between two polls: checkpoint, then abort.  (If the save
\* fails, what is left is what Crash leaves.)
Stop ==
    /\ pc = "idle" /\ curIno # NoInode
    /\ budget.stop > 0
    /\ budget' = [budget EXCEPT !.stop = @ - 1]
    /\ pos' = IF explicit THEN pos
              ELSE [saved |-> TRUE, ino |-> curIno, off |-> offset, seq |-> curSeq]
    /\ persisted' = 0
    /\ Down
    /\ UNCHANGED <<logVars, table, lost>>

\* ctx.Done inside a read loop: the deferred Close folds in what was read, Poll
\* returns, and Run checkpoints and aborts.
StopInRead ==
    /\ \/ pc = "read" /\ "cancel_in_pass" \in Faults
       \/ pc = "rlread" /\ "cancel_in_reload" \in Faults
    /\ budget.stop > 0
    /\ budget' = [budget EXCEPT !.stop = @ - 1]
    /\ pos' = IF explicit THEN pos
              ELSE [saved |-> TRUE, ino |-> inode[fd], off |-> offset,
                    seq |-> IF pc = "rlread" THEN headSeq ELSE curSeq]
    /\ persisted' = 0
    /\ Down
    /\ UNCHANGED <<logVars, table, lost>>

\* What is being committed, table by table, at this point.
Committing ==
    IF AtCommit \/ pc \in {"rlread", "rlfinish"} THEN buf
    ELSE IF pc = "rlsweep" THEN Swept ELSE NoWrites

\* A crash, possibly after some of the tables' commits.
Crash ==
    /\ pc # "down"
    /\ (pc \in Reloading /\ pos.saved /\ pos.seq = gen) => "crash_in_reload" \in Faults
    /\ budget.crash > 0
    /\ budget' = [budget EXCEPT !.crash = @ - 1]
    /\ \E done \in SUBSET Table :
        LET ks == {k \in Key : TableOf[k] \in done /\ Committing[k] # Unset} IN
        /\ table' = Landed(Committing, ks)
        /\ lost' = lost \ ks
    /\ persisted' = 0
    /\ Down
    /\ UNCHANGED <<logVars, pos>>

\* JobSync.Resync, called from another goroutine.
Resync ==
    /\ pc # "down" /\ ~resyncReq
    /\ budget.resync > 0
    /\ budget' = [budget EXCEPT !.resync = @ - 1]
    /\ resyncReq' = TRUE
    /\ UNCHANGED <<logVars, durable, pc, restored, parser, headSeq, ident, txn,
                   persisted, conflict, reload, lost>>

-----------------------------------------------------------------------------
Init ==
    /\ files = <<<<>>>>
    /\ \E i \in Inode : inode = <<i>>
    /\ table = EmptyQueue
    /\ pos = NoPosition
    /\ pc = "down" /\ restored = FALSE
    /\ offset = 0 /\ fd = 0 /\ headSeq = 0
    /\ curSeq = 0 /\ curIno = NoInode
    /\ explicit = FALSE /\ buf = NoWrites
    /\ persisted = 0 /\ conflictOffset = 0 /\ conflictRuns = 0
    /\ before = {} /\ seen = {}
    /\ resyncReq = FALSE
    /\ lost = {}
    /\ budget = [crash |-> MaxCrash, stop |-> MaxStop,
                 conflict |-> MaxConflict, resync |-> MaxResync]

Schedd == ScheddWrites \/ ScheddBegins \/ ScheddEnds \/ ScheddCompacts

Poll ==
    \/ Resume \/ RestoreReloads \/ PollResyncs
    \/ PollSequence \/ PollIdentity \/ PollProbe \/ PollOpen
    \/ ReadWrite \/ ReadBegin \/ ReadEnd \/ PassEnds

Reload ==
    \/ ReloadOpen \/ ReloadEntry \/ ReloadEOF \/ ReloadFinish \/ ReloadSweep
    \/ ReloadSave

Environment ==
    \/ PassConflicts \/ PassUnapplied \/ ReloadBatch \/ ReloadSaveFails \/ ReloadFails
    \/ Stop \/ StopInRead \/ Crash \/ Resync

Next == Schedd \/ Start \/ Poll \/ Reload \/ Environment

Spec == Init /\ [][Next]_vars

\* Run polls for as long as the process lives, and the daemon restarts it; the
\* schedd, the operator and the failures owe nothing.
FairSpec == Spec /\ WF_vars(Start \/ Poll \/ Reload)

-----------------------------------------------------------------------------
(***************************************************************************)
(* Properties.                                                             *)
(***************************************************************************)
\* Key k's row is right for position n of the current file: it holds what the
\* schedd's queue held there, or an entry still to be read overwrites it, or
\* the store refused it.
RowCovered(k, n) ==
    \/ table[k] = QueueAt(gen, n)[k]
    \/ Touches(Current, k, n, Len(Current))
    \/ k \in lost

\* Whenever the process is down, resuming from the saved position -- if
\* restore() would accept it -- misses nothing: replaying the log from there
\* yields the schedd's queue.  restore, checkpoint, maybeCheckpoint,
\* reconcileReload's "position recorded only after the reconciled table
\* matches the log".
ResumeSafe ==
    pc = "down" /\ WouldResume => \A k \in Key : RowCovered(k, pos.off)

\* A tailer that is idle at the end of the current file, outside a transaction,
\* mirrors the schedd's queue exactly, whatever conflicts, crashes, rotations
\* and retries came before.
CaughtUpExact ==
    (pc = "idle" /\ restored /\ curSeq = gen /\ offset = Len(Current) /\ ~explicit)
        => \A k \in Key \ lost : table[k] = QueueAt(gen, offset)[k]

\* While the tailer is idle at the end of a log whose last transaction is
\* unfinished, the mirror shows none of that transaction: the incremental path holds it in its own open
\* transactions until EndTransaction (applyEntry, readAndApply, commitAll).
NoPartialTxn ==
    (pc = "idle" /\ restored /\ curSeq = gen /\ offset = Len(Current)
        /\ InTxn(gen, offset))
        => \A k \in Key \ lost : table[k] = Committed(gen)[k]

\* The position on disk is a transaction boundary, so that re-reading from it
\* re-applies an in-flight transaction in full (checkpoint, persistedOffset).
PersistedAtBoundary ==
    pos.saved /\ pos.seq = gen => ~InTxn(gen, pos.off)

\* The last commit and the sweep of a reload delete a row only when the schedd's
\* queue has no such ad at the position that was read: a reload never blinks
\* out a live job (reconcileReload reconciles, where Truncate and replay would).
NoLiveRowDeleted ==
    [][\A k \in Key :
         (/\ table[k] # NoRow /\ table'[k] = NoRow
          /\ pc \in {"rlfinish", "rlsweep"} /\ curSeq = gen /\ k \notin lost')
         => QueueAt(gen, offset)[k] = NoRow]_vars

\* A reload that completes leaves the tables equal to the log it read, whatever
\* state an earlier failure left them in: a resync heals the mirror
\* (reconcileReload, reconciler, sweepKeys).
ReloadExact ==
    pc = "rlsave" /\ curSeq = gen
        => \A k \in Key \ lost : table[k] = QueueAt(gen, offset)[k]

\* Once the schedd falls silent outside a transaction, the mirror converges to
\* its queue and stays there.
Converges ==
    <>[](~InTxn(gen, Len(Current)) =>
            \A k \in Key \ lost : table[k] = QueueAt(gen, Len(Current))[k])

-----------------------------------------------------------------------------
(***************************************************************************)
(* The inductive invariant behind ResumeSafe, CaughtUpExact and            *)
(* PersistedAtBoundary when none of the Faults occur.                      *)
(***************************************************************************)
\* Each entry of the current file does to the queue what it says, and opens or
\* closes a transaction as it says.
FileOK(f) ==
    \A i \in 1..Len(f) :
        /\ \A k \in Key : f[i].q[k] = IF f[i].key = k THEN f[i].val ELSE QueueAfter(f, i - 1)[k]
        /\ f[i].op = "begin" => f[i].intx
        /\ f[i].op = "end" => ~f[i].intx
        /\ f[i].op = "write" => (f[i].intx <=> OpenAfter(f, i - 1))

\* No process, or one that has not restored: nothing in memory, and a position
\* that is safe to resume from.
PositionOK == pos.saved /\ pos.seq = gen => \A k \in Key : RowCovered(k, pos.off)

ProcessStart ==
    (pc = "down" \/ (pc \in Polling /\ ~restored)) =>
        /\ PositionOK
        /\ pc \in {"down", "idle"} /\ ~restored
        /\ offset = 0 /\ curSeq = 0 /\ curIno = NoInode
        /\ ~explicit /\ buf = NoWrites

\* A restored process between two reloads: persisted is what is on disk, and
\* the rows, overlaid with the open transactions, are right for offset.
PassRow(k) ==
    IF Touches(Current, k, persisted, offset)
    THEN QueueAt(gen, offset)[k] = IF buf[k] # Unset THEN buf[k] ELSE table[k]
    ELSE /\ buf[k] = Unset
         /\ QueueAt(gen, offset)[k] = QueueAt(gen, persisted)[k]
         /\ RowCovered(k, offset)

PassOK ==
    pc \in Polling /\ restored =>
        /\ pos.saved /\ pos.seq = curSeq /\ pos.off = persisted
        /\ curSeq # 0 /\ curIno # NoInode
        /\ pc # "idle" => headSeq = curSeq
        /\ pc = "read" => fd >= curSeq
        /\ pc # "read" /\ ~explicit => buf = NoWrites
        /\ curSeq = gen =>
             /\ persisted <= offset /\ offset <= Len(Current)
             /\ explicit <=> InTxn(gen, offset)
             /\ \A k \in Key : PassRow(k)

\* A reload: a key the log has mentioned so far has its value in the overlay
\* and is seen iff it is live; any other key is unseen, and swept if it has a row.
ReloadRow(k) ==
    IF Touches(Current, k, 0, offset)
    THEN /\ k \in seen <=> QueueAt(gen, offset)[k] # NoRow
         /\ IF buf[k] # Unset THEN buf[k] = QueueAt(gen, offset)[k]
                              ELSE table[k] = QueueAt(gen, offset)[k] \/ k \in lost
    ELSE /\ buf[k] = Unset /\ k \notin seen
         /\ QueueAt(gen, offset)[k] = NoRow
         /\ table[k] # NoRow => k \in before

SavedRow(k) == table[k] = QueueAt(gen, offset)[k] \/ k \in lost

ReloadOK ==
    pc \in Reloading =>
        /\ ~explicit /\ headSeq # 0
        /\ pc = "rlread" => fd >= headSeq
        /\ pc \in {"rlopen", "rlsweep", "rlsave"} => buf = NoWrites
        /\ pc \in {"rlfinish", "rlsweep", "rlsave"} => curSeq = headSeq /\ curIno # NoInode
        /\ headSeq = gen =>
             /\ offset <= Len(Current)
             /\ pc \in {"rlfinish", "rlsweep", "rlsave"} => ~InTxn(gen, offset)
             /\ \A k \in Key : IF pc = "rlsave" THEN SavedRow(k) ELSE ReloadRow(k)

IndInv ==
    /\ TypeOK
    /\ FileOK(Current)
    /\ pos.seq <= gen
    /\ pos.saved /\ pos.seq = gen => pos.off <= Len(Current)
    /\ PersistedAtBoundary
    /\ ProcessStart /\ PassOK /\ ReloadOK
=============================================================================
