------------------------------ MODULE Session -------------------------------
(***************************************************************************)
(* repl/exec.go and write.go: one session of the SQL-like language, its    *)
(* explicit transactions and the path each statement takes to the store.   *)
(* A transaction binds to the first table it writes; it is a transaction   *)
(* of the server ("local"), or a buffer proposed to raft as one batch at   *)
(* COMMIT ("consistent").  Reads go through the open transaction only on   *)
(* some of the paths a SELECT may take.  A statement may fail after the    *)
(* server has done part of it or all of it: an error says neither that     *)
(* nothing was staged nor that nothing was committed.                      *)
(*                                                                         *)
(* A row is the number of the statement that wrote it, 0 where there is    *)
(* none.  A predicate selects a set of keys.                               *)
(***************************************************************************)
EXTENDS Integers, Sequences, FiniteSets

CONSTANTS
    DefaultTable,
    LocalTables,        \* the tables written by a local session,
    ConsistentTables,   \*   and by one started with -consistent
    SessionKeys,
    ReadShapes,         \* the shapes of SELECT issued
    MaxStatements       \* bound: statements that write, of anyone

VARIABLES
    smode,     \* "local" or "consistent": e.applyBatch is nil or not
    stables,   \* the committed tables
    stx,       \* txActive, txTable, tx (its snapshot and writes), txBuf
    sread,     \* the answer of the statement before this state, if it was a SELECT:
               \* its rows, and what the session had staged
    smine,     \* history: table -> key -> the rows that the statements of the open
               \* transaction may have left there, for keys one of them wrote
    sack,      \* history: table -> key -> the rows that the answers to all
               \* sessions allow there: one, but for writes that failed
    scount

sessionvars == <<smode, stables, stx, sread, smine, sack, scount>>

SessionTables == LocalTables \cup ConsistentTables \cup {DefaultTable}
NoTable == "none"   \* txTable is empty until the first write
ASSUME NoTableAssumption == NoTable \notin SessionTables

NoWrites == [k \in {} |-> 0]
Empty == [k \in SessionKeys |-> 0]
NoTx == [active |-> FALSE, table |-> NoTable, open |-> FALSE, snap |-> Empty,
         writes |-> NoWrites, buf |-> NoWrites]
NoneMine == [t \in SessionTables |-> NoWrites]
NothingTold == [t \in SessionTables |-> [k \in SessionKeys |-> {0}]]
NoRead == [rows |-> Empty, mine |-> NoWrites]

SessionStart(consistency) ==
    /\ smode = consistency
    /\ stables = [t \in SessionTables |-> Empty]
    /\ stx = NoTx /\ sread = NoRead /\ smine = NoneMine
    /\ sack = NothingTold /\ scount = 0
SessionInit == \E consistency \in {"local", "consistent"} : SessionStart(consistency)

Written(t) == t \in IF smode = "local" THEN LocalTables ELSE ConsistentTables
Over(table, writes) == [k \in SessionKeys |-> IF k \in DOMAIN writes THEN writes[k] ELSE table[k]]
And(old, new) == [k \in DOMAIN old \cup DOMAIN new |-> IF k \in DOMAIN new THEN new[k] ELSE old[k]]

(* txReads: only a transaction of the server, and only of its own table.   *)
TxReads(t) == stx.open /\ stx.table = t
View(t) == IF TxReads(t) THEN Over(stx.snap, stx.writes) ELSE stables[t]

-----------------------------------------------------------------------------
(* BEGIN: nothing is opened on the server yet. *)
ExecBegin ==
    /\ ~stx.active
    /\ stx' = [NoTx EXCEPT !.active = TRUE]
    /\ smine' = NoneMine
    /\ sread' = NoRead /\ UNCHANGED <<smode, stables, sack, scount>>

(* stage, and the same steps of WriteAds: a second table is refused.       *)
Stages(t) == stx.table \in {NoTable, t}
Staged(t, writes) ==
    IF smode = "consistent"
    THEN [stx EXCEPT !.table = t, !.buf = And(stx.buf, writes)]
    ELSE [stx EXCEPT !.table = t, !.open = TRUE,
                     !.snap = IF stx.open THEN stx.snap ELSE stables[t],
                     !.writes = And(stx.writes, writes)]

(* consistentWriter: the operations it proposes carry no table, so the FSM *)
(* applies them to its default one.                                        *)
ApplyBatchTo(t) == DefaultTable

(* What a session knows after a write: of an acknowledged one, the row; of *)
(* one that failed, that it may be there.                                  *)
Sure(rows, writes) ==
    [k \in DOMAIN rows \cup DOMAIN writes |-> IF k \in DOMAIN writes THEN {writes[k]} ELSE rows[k]]
Unsure(rows, writes) ==
    [k \in DOMAIN rows |-> IF k \in DOMAIN writes THEN rows[k] \cup {writes[k]} ELSE rows[k]]
Only(writes, keys) == [k \in DOMAIN writes \cap keys |-> writes[k]]

(* stage fails: BeginTable's error leaves the transaction bound to the     *)
(* table and not open; an operation's error leaves those before it staged. *)
StageFails(t, writes) ==
    /\ smode = "local"
    /\ \/ /\ ~stx.open
          /\ stx' = [stx EXCEPT !.table = t]
          /\ UNCHANGED smine
       \/ \E done \in SUBSET DOMAIN writes :
             /\ stx' = Staged(t, Only(writes, done))
             /\ smine' = [smine EXCEPT ![t] = Unsure(smine[t], Only(writes, done))]

(* A write that commits by itself, and is acknowledged or fails.  A failed *)
(* one was aborted, has lost some keys to a conflict, or its answer was    *)
(* lost; a batch of raft is applied whole or not at all.                   *)
Lands(t, writes) ==
    LET to == IF smode = "consistent" THEN ApplyBatchTo(t) ELSE t
        landing(keys) == [stables EXCEPT ![to] = Over(stables[to], Only(writes, keys))]
        told(rows) == sack' = IF stx.active THEN sack ELSE [sack EXCEPT ![t] = rows]
    IN  /\ \/ stables' = landing(DOMAIN writes) /\ told(Sure(sack[t], writes))
           \/ \E done \in SUBSET DOMAIN writes :
                 /\ smode = "consistent" => done \in {{}, DOMAIN writes}
                 /\ stables' = landing(done) /\ told(Unsure(sack[t], writes))
        /\ UNCHANGED <<stx, smine>>

(* commit: staged, proposed, or a transaction of its own. *)
Commits(t, writes) ==
    \/ ~stx.active /\ Lands(t, writes)
    \/ /\ stx.active
       /\ UNCHANGED <<stables, sack>>
       /\ \/ ~Stages(t) /\ UNCHANGED <<stx, smine>>
          \/ /\ Stages(t)
             /\ stx' = Staged(t, writes)
             /\ smine' = [smine EXCEPT ![t] = Sure(smine[t], writes)]
          \/ Stages(t) /\ StageFails(t, writes)

NextStatement == scount < MaxStatements /\ scount' = scount + 1

ExecInsert(t, k) ==
    /\ Written(t) /\ NextStatement
    /\ Commits(t, [q \in {k} |-> scount'])
    /\ sread' = NoRead /\ UNCHANGED smode

(* matchedKeys: through the transaction when it reads the table. *)
MatchedKeys(t, where) == {k \in where : View(t)[k] # 0}

ExecUpdate(t, where) ==
    LET keys == MatchedKeys(t, where) IN
    /\ Written(t) /\ keys # {} /\ NextStatement
    /\ Commits(t, [k \in keys |-> scount'])
    /\ sread' = NoRead /\ UNCHANGED smode

(* The server's bulk delete commits by itself, so a transaction does not   *)
(* take it.                                                                *)
BulkDeleteAlways == smode = "local"
BulkDelete == smode = "local" /\ ~stx.active

ExecDelete(t, where) ==
    LET keys == MatchedKeys(t, where) IN
    /\ Written(t) /\ keys # {} /\ NextStatement
    /\ IF BulkDelete THEN Lands(t, [k \in where |-> 0]) ELSE Commits(t, [k \in keys |-> 0])
    /\ sread' = NoRead /\ UNCHANGED smode

(* WriteAds, of a C client, which is always local: some of the ads are     *)
(* rejected, the rest staged or committed.                                 *)
WriteAds(t, keys) ==
    /\ smode = "local" /\ Written(t) /\ keys # {} /\ NextStatement
    /\ \E rejected \in SUBSET keys :
         /\ rejected # keys
         /\ Commits(t, [k \in keys \ rejected |-> scount'])
    /\ sread' = NoRead /\ UNCHANGED smode

(***************************************************************************)
(* COMMIT.  The server commits what nobody else has written since the      *)
(* transaction's snapshot and reports the other keys (external); the       *)
(* session is back in autocommit mode whatever the outcome, and after an   *)
(* error without knowing it.                                               *)
(***************************************************************************)
ServerCommits(t, writes) ==
    [k \in {q \in DOMAIN writes : stables[t][q] = stx.snap[q]} |-> writes[k]]

\* What an acknowledged COMMIT says of the keys that it landed: what the
\* statements left, and nothing of what only a failed one wrote.
Told(rows, mine, landed) ==
    [k \in SessionKeys |->
        IF k \in DOMAIN landed \cap DOMAIN mine THEN mine[k]
        ELSE IF k \in DOMAIN landed THEN rows[k] \cup {landed[k]} ELSE rows[k]]

ExecCommit ==
    /\ stx.active
    /\ stx' = NoTx /\ smine' = NoneMine
    /\ IF stx.open \/ DOMAIN stx.buf # {}
       THEN LET t      == stx.table
                to     == IF stx.open THEN t ELSE ApplyBatchTo(t)
                landed == IF stx.open THEN ServerCommits(t, stx.writes) ELSE stx.buf
                after  == [stables EXCEPT ![to] = Over(stables[to], landed)]
            IN  \/ /\ stables' = after
                   /\ sack' = [sack EXCEPT ![t] = Told(sack[t], smine[t], landed)]
                \/ /\ stables' \in {stables, after}
                   /\ sack' = [sack EXCEPT ![t] = Unsure(sack[t], landed)]
       ELSE UNCHANGED <<stables, sack>>
    /\ sread' = NoRead /\ UNCHANGED <<smode, scount>>

ExecRollback ==
    /\ stx.active
    /\ stx' = NoTx /\ smine' = NoneMine
    /\ sread' = NoRead /\ UNCHANGED <<smode, stables, sack, scount>>

(***************************************************************************)
(* SELECT, by the path it takes.  Rows, streams, plain aggregates and the  *)
(* sides of a join ask txReads; top-K is not tried in a transaction        *)
(* (projectionAttrs); a time_bucket aggregate is reduced by the server and *)
(* a window or a computed group key is scanned for with a projection: they *)
(* read what is committed.  (Mutant: every aggregate does.)                *)
(***************************************************************************)
AggregatesCommitted == {"rows", "stream", "topk", "join"}
ThroughTx == {"rows", "stream", "aggregate", "topk", "join"}

ExecSelect(t, shape) ==
    /\ sread' = [rows  |-> IF shape \in ThroughTx THEN View(t) ELSE stables[t],
                 mine  |-> IF smode = "local" THEN smine[t] ELSE NoWrites]
    /\ UNCHANGED <<smode, stables, stx, smine, sack, scount>>

(* Another session commits a row (external). *)
OtherCommits(t, k) ==
    /\ NextStatement
    /\ stables' = [stables EXCEPT ![t][k] = scount']
    /\ sack' = [sack EXCEPT ![t][k] = {scount'}]
    /\ sread' = NoRead /\ UNCHANGED <<smode, stx, smine>>

SessionNext ==
    \/ ExecBegin \/ ExecCommit \/ ExecRollback
    \/ \E t \in SessionTables :
         \/ \E k \in SessionKeys : ExecInsert(t, k) \/ OtherCommits(t, k)
         \/ \E where \in SUBSET SessionKeys :
              ExecUpdate(t, where) \/ ExecDelete(t, where) \/ WriteAds(t, where)
         \/ \E shape \in ReadShapes : ExecSelect(t, shape)

SessionSpec == SessionInit /\ [][SessionNext]_sessionvars

-----------------------------------------------------------------------------
(***************************************************************************)
(* queryAdsAsOf, execAggregate: a SELECT of a local transaction shows what *)
(* the transaction itself has written and not committed, on every path     *)
(* that asks txReads, and of a key that a failed statement wrote too, the  *)
(* row of one of them.  (The shell's help, repl.go 401-404, and the        *)
(* Python driver's documentation still say that reads do not join it.)     *)
(***************************************************************************)
ReadsOwnWrites == \A k \in DOMAIN sread.mine : sread.rows[k] \in sread.mine[k]

(***************************************************************************)
(* commit, stage, execDelete, execCommit, consistentWriter: the committed  *)
(* tables agree with what the sessions were told.  A row is the last       *)
(* acknowledged one, or one of a later write that failed: no acknowledged  *)
(* write is missing from the table it named, and nothing of an open or a   *)
(* rolled back transaction shows or removes a row.                         *)
(***************************************************************************)
TablesShowAcknowledged ==
    \A t \in SessionTables, k \in SessionKeys : stables[t][k] \in sack[t][k]
=============================================================================
