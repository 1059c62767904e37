---------------------------- MODULE QueueClient ----------------------------
(***************************************************************************)
(* The queue client of the C library (capi): a supervisor keeps sessions to*)
(* the database and a verdict on its mirror, queries stream on pooled      *)
(* sessions, and a daemon that must never block collects their rows in     *)
(* chunks or has them written to its client's socket.                      *)
(*                                                                         *)
(* Every query matches the rows 1..qleft.rows.  The framing of rows, counts,*)
(* the fallbacks to older servers and the pacing of dials are left out; a  *)
(* step of the supervisor, of a dial, of a stream or of the daemon may come*)
(* at any time.                                                            *)
(***************************************************************************)
EXTENDS Integers, Sequences, FiniteSets, SequencesExt

CONSTANTS
    QueueLoads,       \* what an instance does: queries at a time, ways of collecting, rows, begins and failures
    ChunkTarget,      \* rows of a full chunk
    ChunksInFlight,   \* chunks queued for the daemon
    PoolSize,         \* HTCONDORDB_QUEUE_POOL_SIZE
    QueueFaults,      \* see below
    MaxSession        \* bound: sessions dialled

(***************************************************************************)
(* Outcomes that are switched per run:                                     *)
(*   last_flush   the flush that ends a stream fails;                      *)
(*   late_check   the stream ends between the receive and the check of     *)
(*                hcdb_queue_next.                                         *)
(***************************************************************************)

VARIABLES
    qsup,       \* the supervisor: waiting, dialling, probing or gone; the client's closing
    qverdict,   \* state
    qconn,      \* every session: not dialled, up, or why its context was cancelled
    qpool,      \* pool: of each session in it inUse and whether it was idle for long
    qgrow,      \* poolGen, the growth dial in flight (its generation), growAfter
    qreq,       \* the queries
    qleft       \* the load: what the daemon and the environment may still do

queuevars == <<qsup, qverdict, qconn, qpool, qgrow, qreq, qleft>>

Sessions == 1..MaxSession
Queries == UNION {load.queries : load \in QueueLoads}
ASSUME QueueLoadAssumption ==
    /\ QueueLoads \subseteq [queries : SUBSET Queries, vias : SUBSET {"chunks", "fd"},
                               rows : Nat, begins : Nat, faults : Nat]
    /\ IsFiniteSet(Queries)
ASSUME MaxSessionAssumption == MaxSession \in Nat
NoDial == 0
\* Sessions are numbered as they come up, so the pool is in their order.
EmptyPool == [c \in {} |-> [inUse |-> 0, idle |-> FALSE]]
NotBegun ==
    [pc |-> "none", via |-> "chunks", conn |-> 0, row |-> 0, buf |-> <<>>, chunks |-> <<>>,
     closing |-> FALSE, closed |-> FALSE, err |-> FALSE, token |-> 0,
     refused |-> FALSE, daemon |-> "idle", got |-> <<>>, socket |-> "clean", answer |-> "none"]

QueueStart(load) ==
    /\ qsup = [pc |-> "wait", closing |-> FALSE]
    /\ qverdict = "down"
    /\ qconn = [c \in Sessions |-> "none"]
    /\ qpool = EmptyPool
    /\ qgrow = [gen |-> 1, dial |-> NoDial, wait |-> FALSE]
    /\ qreq = [q \in Queries |-> NotBegun]
    /\ qleft = load
QueueInit == \E load \in QueueLoads : QueueStart(load)

Fresh == {c \in Sessions : qconn[c] = "none"}
Dialled == CHOOSE c \in Fresh : \A d \in Fresh : c <= d
PoolWith(c) ==
    [d \in DOMAIN qpool \cup {c} |-> IF d = c THEN [inUse |-> 0, idle |-> FALSE] ELSE qpool[d]]
Ended(c) == qconn[c] # "up"
QueueFails == qleft.faults > 0 /\ qleft' = [qleft EXCEPT !.faults = @ - 1]

-----------------------------------------------------------------------------
\* The transport fails: watchedConn sets dead and cancels the session's context.
SessionDies(c) ==
    /\ qconn[c] = "up" /\ QueueFails
    /\ qconn' = [qconn EXCEPT ![c] = "died"]
    /\ UNCHANGED <<qsup, qverdict, qpool, qgrow, qreq>>

\* evictDeadLocked
Alive == [c \in {d \in DOMAIN qpool : ~Ended(d)} |-> qpool[c]]

\* ensureSession up to its dial.
EnsureSession ==
    /\ qsup.pc = "wait" /\ ~qsup.closing
    /\ qpool' = Alive
    /\ IF Alive = EmptyPool
         THEN qsup' = [qsup EXCEPT !.pc = "dial"] /\ qverdict' = "connecting"
         ELSE qsup' = [qsup EXCEPT !.pc = "probe"] /\ UNCHANGED qverdict
    /\ UNCHANGED <<qconn, qgrow, qreq, qleft>>

DialFloor ==
    /\ qsup.pc = "dial"
    /\ \/ /\ Fresh # {}
          /\ qconn' = [qconn EXCEPT ![Dialled] = "up"]
          /\ qpool' = PoolWith(Dialled)
          /\ qsup' = [qsup EXCEPT !.pc = "probe"]
          /\ UNCHANGED <<qverdict, qleft>>
       \/ /\ QueueFails
          /\ qsup' = [qsup EXCEPT !.pc = "wait"] /\ qverdict' = "down"
          /\ UNCHANGED <<qconn, qpool>>
    /\ UNCHANGED <<qgrow, qreq>>

\* drop
Drop ==
    /\ qpool' = EmptyPool
    /\ qgrow' = [qgrow EXCEPT !.gen = @ + 1]
    /\ qconn' = [c \in Sessions |-> IF c \in DOMAIN qpool /\ ~Ended(c) THEN "dropped" ELSE qconn[c]]

ProbeFails ==
    /\ qsup.pc = "probe" /\ QueueFails
    /\ Drop
    /\ qverdict' = "down" /\ qsup' = [qsup EXCEPT !.pc = "wait"]
    /\ UNCHANGED qreq

\* reapIdle: all but the head, if unused for poolIdleTimeout.
\* (Mutant: a session in use is idle too.)
ReapableAnyUse(c) == \E d \in DOMAIN qpool : d < c
Reapable(c) == (\E d \in DOMAIN qpool : d < c) /\ qpool[c].inUse = 0 /\ qpool[c].idle

\* The rest of cycle: judge finds the mirror current or not.
Judge ==
    LET reaped == {c \in DOMAIN qpool : Reapable(c)} IN
    /\ qsup.pc = "probe"
    /\ qsup' = [qsup EXCEPT !.pc = "wait"]
    /\ qverdict' \in {"ready", "stale"}
    /\ qpool' = [c \in DOMAIN qpool \ reaped |-> qpool[c]]
    /\ qconn' = [c \in Sessions |-> IF c \in reaped /\ ~Ended(c) THEN "reaped" ELSE qconn[c]]
    /\ UNCHANGED <<qgrow, qreq, qleft>>

\* poolIdleTimeout passes for a session that no query uses.
IdleTimeout(c) ==
    /\ c \in DOMAIN qpool /\ qpool[c].inUse = 0 /\ ~qpool[c].idle
    /\ qpool' = [qpool EXCEPT ![c].idle = TRUE]
    /\ UNCHANGED <<qsup, qverdict, qconn, qgrow, qreq, qleft>>

\* hcdb_queue_close, and the end of run.
QueueClose ==
    /\ ~qsup.closing /\ qsup' = [qsup EXCEPT !.closing = TRUE]
    /\ UNCHANGED <<qverdict, qconn, qpool, qgrow, qreq, qleft>>
SupervisorEnds ==
    /\ qsup.closing /\ qsup.pc = "wait" /\ qsup' = [qsup EXCEPT !.pc = "gone"]
    /\ Drop
    /\ UNCHANGED <<qverdict, qreq, qleft>>

-----------------------------------------------------------------------------
\* growLocked, in acquire
Grows(pool) ==
    /\ qverdict = "ready" /\ qgrow.dial = NoDial /\ ~qgrow.wait
    /\ Cardinality(DOMAIN pool) < PoolSize

GrowDone ==
    /\ qgrow.dial # NoDial
    /\ \/ /\ QueueFails /\ qgrow' = [qgrow EXCEPT !.dial = NoDial, !.wait = TRUE]
          /\ UNCHANGED <<qconn, qpool>>
       \/ /\ Fresh # {}
          /\ qgrow' = [qgrow EXCEPT !.dial = NoDial]
          /\ IF qgrow.dial # qgrow.gen \/ Cardinality(DOMAIN qpool) >= PoolSize
               THEN qconn' = [qconn EXCEPT ![Dialled] = "surplus"] /\ UNCHANGED qpool
               ELSE /\ qconn' = [qconn EXCEPT ![Dialled] = "up"]
                    /\ qpool' = PoolWith(Dialled)
          /\ UNCHANGED qleft
    /\ UNCHANGED <<qsup, qverdict, qreq>>

GrowBackoffEnds ==
    /\ qgrow.wait /\ qgrow' = [qgrow EXCEPT !.wait = FALSE]
    /\ UNCHANGED <<qsup, qverdict, qconn, qpool, qreq, qleft>>

\* acquire: the first of the least used sessions.
Best(pool) ==
    CHOOSE c \in DOMAIN pool : \A d \in DOMAIN pool :
        pool[c].inUse < pool[d].inUse \/ (pool[c].inUse = pool[d].inUse /\ c <= d)

\* hcdb_queue_beginImpl, with and without a session.
BeginImpl(q, via) ==
    /\ qreq[q].pc = "none" /\ ~qsup.closing /\ via \in qleft.vias
    /\ q \in qleft.queries /\ qleft.begins > 0 /\ qleft' = [qleft EXCEPT !.begins = @ - 1]
    /\ IF Alive = EmptyPool
         THEN qpool' = EmptyPool /\ UNCHANGED <<qreq, qgrow>>
         ELSE LET best == Best(Alive) IN
              /\ qpool' = [Alive EXCEPT ![best] = [inUse |-> @.inUse + 1, idle |-> FALSE]]
              /\ qreq' = [qreq EXCEPT ![q] = [NotBegun EXCEPT !.pc = "read", !.via = via,
                                                              !.conn = best]]
              /\ qgrow' = IF Alive[best].inUse > 0 /\ Grows(Alive)
                            THEN [qgrow EXCEPT !.dial = qgrow.gen] ELSE qgrow
    /\ UNCHANGED <<qsup, qverdict, qconn>>
QueueBegin(q) == BeginImpl(q, "chunks")
QueueBeginFd(q) == BeginImpl(q, "fd")

-----------------------------------------------------------------------------
\* stream.  The query's context is the session's, or was cancelled by the daemon.
Cancelled(q) == Ended(qreq[q].conn) \/ qreq[q].daemon = "freed"
StreamOnly == UNCHANGED <<qsup, qverdict, qconn, qpool, qgrow>>

StreamRow(q) ==
    LET r == qreq[q]
        buf == Append(r.buf, r.row + 1)
    IN  /\ r.pc = "read" /\ r.row < qleft.rows /\ ~Ended(r.conn)
        /\ qreq' = [qreq EXCEPT ![q].row = @ + 1, ![q].buf = buf,
                        ![q].pc = IF Len(buf) >= ChunkTarget THEN "flush" ELSE "read"]
        /\ StreamOnly /\ UNCHANGED qleft

\* A stream that lost its session ends like one that is complete: connDead
\* tells them apart.
\* (Mutant: it does not.)
EndedWellAnyway(q) == TRUE
EndedWell(q) == ~Ended(qreq[q].conn)

\* fail
RequestFails(r) == [r EXCEPT !.err = TRUE]

StreamEnd(q) ==
    LET r == qreq[q] IN
    /\ r.pc = "read" /\ (r.row = qleft.rows \/ Cancelled(q))
    /\ qreq' = [qreq EXCEPT ![q] =
            IF EndedWell(q) /\ r.daemon # "freed" THEN [r EXCEPT !.pc = "last"]
            ELSE [RequestFails(r) EXCEPT !.pc = "finish"]]
    /\ StreamOnly /\ UNCHANGED qleft

\* The query fails with its session up: a row that cannot be read (wireRow), a
\* restart that comes after the first rows were sent (reset), or an error that
\* the server ends the stream with.
StreamRefused(q) ==
    LET r == qreq[q] IN
    /\ r.pc = "read" /\ ~Ended(r.conn) /\ QueueFails
    /\ qreq' = [qreq EXCEPT ![q] = [RequestFails(r) EXCEPT !.pc = "finish", !.refused = TRUE]]
    /\ StreamOnly

\* writeChunk, when the client takes it all
WriteChunk(r) == [r EXCEPT !.got = @ \o r.buf, !.buf = <<>>]

\* flush hands the chunk over, to the daemon's queue or to the client's socket.
FlushChunk(q) ==
    LET r == qreq[q]
        next == IF r.pc = "last" THEN "finish" ELSE "read"
    IN  /\ r.pc \in {"flush", "last"}
        /\ \/ r.buf = <<>> /\ qreq' = [qreq EXCEPT ![q].pc = next]
           \/ /\ r.buf # <<>> /\ r.via = "fd"
              /\ qreq' = [qreq EXCEPT ![q] = [WriteChunk(r) EXCEPT !.pc = next]]
           \/ /\ r.buf # <<>> /\ r.via = "chunks"
              /\ Len(r.chunks) < ChunksInFlight \/ r.daemon = "freed"
              /\ qreq' = [qreq EXCEPT ![q].chunks = IF r.daemon = "freed" THEN @ ELSE Append(@, r.buf), ![q].buf = <<>>,
                              ![q].pc = IF r.pc = "last" THEN "notify_last" ELSE "notify"]
        /\ StreamOnly /\ UNCHANGED qleft

\* flush fails: the context is cancelled while the queue is full, or the write
\* stops, perhaps inside a frame.  The error of the last one is not recorded.
FlushFails(q) ==
    LET r == qreq[q] IN
    /\ r.pc \in {"flush", "last"} /\ r.buf # <<>>
    /\ r.pc = "last" /\ r.daemon # "freed" => "last_flush" \in QueueFaults
    /\ IF r.via = "chunks" THEN Cancelled(q) /\ UNCHANGED qleft
       ELSE IF r.daemon = "freed" THEN UNCHANGED qleft ELSE QueueFails
    /\ \E left \in (IF r.via = "fd" THEN {"failed", "dirty"} ELSE {"clean"}) :
         qreq' = [qreq EXCEPT ![q].pc = "finish", ![q].buf = <<>>, ![q].socket = left,
                              ![q].err = @ \/ r.pc = "flush"]
    /\ StreamOnly

\* notify, after the chunk is in the queue
Notify(q) ==
    /\ qreq[q].pc \in {"notify", "notify_last"}
    /\ qreq' = [qreq EXCEPT ![q].token = @ + 1,
                            ![q].pc = IF @ = "notify" THEN "read" ELSE "finish"]
    /\ StreamOnly /\ UNCHANGED qleft

\* The goroutine that waits for stream: release, and the queue's end.
Released(c) ==
    [d \in DOMAIN qpool |-> IF d = c THEN [qpool[d] EXCEPT !.inUse = @ - 1] ELSE qpool[d]]
QueryRelease(q) ==
    /\ qreq[q].pc = "finish"
    /\ qpool' = Released(qreq[q].conn)
    /\ qreq' = [qreq EXCEPT ![q].pc = "store", ![q].closing = TRUE]
    /\ UNCHANGED <<qsup, qverdict, qconn, qgrow, qleft>>
\*   and closed, with its announcement.
QueryClosed(q) ==
    LET r == qreq[q] IN
    /\ r.pc = "store"
    /\ r.daemon = "checks" => "late_check" \in QueueFaults
    /\ qreq' = [qreq EXCEPT ![q] =
            IF r.daemon = "freed" THEN NotBegun
            ELSE [r EXCEPT !.pc = "done", !.closed = TRUE, !.token = @ + 1]]
    /\ StreamOnly /\ UNCHANGED qleft

-----------------------------------------------------------------------------
Answer(r) == IF r.err THEN "error" ELSE "done"

\* hcdb_queue_next: a chunk, the end of a closed queue, or pending.
NextChunk(q) ==
    LET r == qreq[q] IN
    /\ r.via = "chunks" /\ r.daemon = "idle" /\ r.pc # "none"
    /\ qreq' = [qreq EXCEPT ![q] =
            IF r.chunks # <<>> THEN [r EXCEPT !.got = @ \o Head(r.chunks), !.chunks = Tail(@)]
            ELSE IF r.closing THEN [r EXCEPT !.answer = Answer(r), !.daemon = "answered"]
            ELSE [r EXCEPT !.daemon = "checks"]]
    /\ StreamOnly /\ UNCHANGED qleft

\* Its default branch: the queue was empty, has the stream ended?
CheckClosed(q) ==
    LET r == qreq[q] IN
    /\ r.daemon = "checks"
    /\ qreq' = [qreq EXCEPT ![q] =
            IF r.closed THEN [r EXCEPT !.answer = Answer(r), !.daemon = "answered"]
                        ELSE [r EXCEPT !.daemon = "waits"]]
    /\ StreamOnly /\ UNCHANGED qleft

\* The event loop reads a token, and asks again.
Notified(q) ==
    /\ qreq[q].daemon = "waits" /\ qreq[q].token > 0
    /\ qreq' = [qreq EXCEPT ![q].token = @ - 1, ![q].daemon = "idle"]
    /\ StreamOnly /\ UNCHANGED qleft

\* hcdb_queue_result
QueueResult(q) ==
    LET r == qreq[q] IN
    /\ r.via = "fd" /\ r.daemon = "idle" /\ r.closed
    /\ qreq' = [qreq EXCEPT ![q].answer = Answer(r), ![q].daemon = "answered"]
    /\ StreamOnly /\ UNCHANGED qleft

\* hcdb_queue_free cancels the query and drains its queue; detachSink leaves a
\* writer to itself.
QueueFree(q) ==
    /\ qreq[q].pc # "none" /\ qreq[q].daemon # "freed"
    /\ qreq' = [qreq EXCEPT ![q] = IF @.closed THEN NotBegun
                    ELSE [@ EXCEPT !.daemon = "freed", !.chunks = <<>>, !.answer = "none"]]
    /\ StreamOnly /\ UNCHANGED qleft

QueueNext ==
    \/ \E c \in Sessions : SessionDies(c)
    \/ EnsureSession \/ DialFloor \/ ProbeFails \/ Judge \/ QueueClose \/ SupervisorEnds
    \/ \E c \in Sessions : IdleTimeout(c)
    \/ GrowDone \/ GrowBackoffEnds
    \/ \E q \in Queries :
        \/ QueueBegin(q) \/ QueueBeginFd(q) \/ StreamRow(q) \/ StreamEnd(q) \/ StreamRefused(q)
        \/ FlushChunk(q) \/ FlushFails(q)
        \/ Notify(q) \/ QueryRelease(q) \/ QueryClosed(q)
        \/ NextChunk(q) \/ CheckClosed(q) \/ Notified(q) \/ QueueResult(q) \/ QueueFree(q)

QueueSpec == QueueInit /\ [][QueueNext]_queuevars

-----------------------------------------------------------------------------
(***************************************************************************)
(* A daemon that is told its query is done has every row once, in order: a *)
(* session that dies or is dropped, a full queue and a slow client never   *)
(* make a short result look complete.  It is told of an error only if its  *)
(* session was really lost, its client's socket failed, or the query itself*)
(* did, on a row or at the server: neither growing nor reaping the pool    *)
(* touches a query that streams.                                           *)
(***************************************************************************)
AnswerHonest ==
    \A q \in Queries : LET r == qreq[q] IN
        /\ r.answer = "done" => r.got = [i \in 1..qleft.rows |-> i]
        /\ r.answer = "error" =>
             qconn[r.conn] \in {"died", "dropped"} \/ r.socket # "clean" \/ r.refused
=============================================================================
