------------------------- MODULE OpenSearchExporter -------------------------
(***************************************************************************)
(* opensearchsync: an archive's records indexed as documents.  Batches are *)
(* uploaded concurrently within a bounded window and complete in any       *)
(* order; the resume cursor follows the oldest prefix of batches that are  *)
(* all acknowledged.                                                       *)
(*                                                                         *)
(* A document is immutable and its id is unique, so indexing it again is a *)
(* version conflict that changes nothing: the index is the set of settled  *)
(* records and external versions are left out.  A record that cannot be    *)
(* decoded, that the transform drops, or that OpenSearch refuses for good  *)
(* is skipped by design and settles.                                       *)
(***************************************************************************)
EXTENDS ChangeFeed

CONSTANTS
    OBatch,     \* BatchSize
    OMaxDocs,   \* MaxInFlightDocs
    OMaxConc    \* MaxConcurrentBulk

VARIABLES
    odur,    \* the stored resume cursor (State.WireCursor)
    osess,   \* the session: pending records, last cursor, steps of the running handler
    upl      \* the Uploader

ovars == <<odur, osess, upl>>

OIdle == [on |-> FALSE]
NewUploader ==
    [flying |-> {}, done |-> {}, submitSeq |-> 0, ackSeq |-> 0, committed |-> NoCursor,
     fatal |-> FALSE]

OpenSearchInit == odur = NoCursor /\ osess = OIdle /\ upl = NewUploader

\* Uploader.Stats, InFlight: the documents under way.
InFlight == MapThenSumSet(LAMBDA b : Cardinality(b.docs), upl.flying)

OpenSearchStart ==
    /\ ~osess.on
    /\ stream' = OpenStream(odur)
    /\ osess' = [on |-> TRUE, pending |-> {}, last |-> NoCursor, steps |-> <<>>]
    /\ upl' = NewUploader
    /\ UNCHANGED <<consumer, log, floor, epoch, settled, faults, odur>>

\* The session ends.  Its uploads are not cancelled: each of them may still
\* land.
OEnd ==
    /\ osess' = OIdle /\ upl' = NewUploader /\ stream' = Off
    /\ \E S \in SUBSET upl.flying : settled' = settled \cup UNION {b.docs : b \in S}

Idle == osess.on /\ osess.steps = <<>>

Handle(pending, last, steps, s) ==
    /\ osess' = [osess EXCEPT !.pending = pending, !.last = last, !.steps = steps]
    /\ stream' = s
    /\ UNCHANGED <<consumer, log, floor, epoch, faults, odur, upl>>

NewestCursor == IF ChangeCursor = NoCursor THEN osess.last ELSE ChangeCursor

\* WatchUpsert and appendDoc.
OpenSearchUpsert ==
    /\ Idle /\ HasChange
    /\ LET i == NextChange
           skip == log[i].val \in Opaque
           p == IF skip THEN osess.pending ELSE osess.pending \cup {i}
       IN  /\ Handle(p, NewestCursor,
                     IF Cardinality(p) >= OBatch
                       THEN <<[op |-> "submit", cur |-> ChangeCursor]>> ELSE <<>>,
                     AfterChange)
           /\ settled' = IF skip THEN settled \cup {i} ELSE settled

\* What the archive no longer retains cannot be asked of an exporter.
OpenSearchReset ==
    /\ Idle /\ IsReset
    /\ Handle({}, osess.last, <<>>, AfterReset)
    /\ settled' = settled \cup 1..floor

\* Synced: submit the tail, wait for every upload, store the synced cursor.
SyncedSteps(c) ==
    <<[op |-> "submit", cur |-> c], [op |-> "drain", cur |-> c], [op |-> "write", cur |-> c]>>

OpenSearchSynced ==
    /\ Idle /\ IsSynced
    /\ Handle(osess.pending, CursorAt(stream.at), SyncedSteps(CursorAt(stream.at)), AfterSynced)
    /\ UNCHANGED settled

\* The ticker: submit what is pending, store what is committed.
OpenSearchTick ==
    /\ Idle
    /\ osess.pending # {} \/ upl.committed \notin {NoCursor, odur}
    /\ Handle(osess.pending, osess.last,
              <<[op |-> "submit", cur |-> osess.last], [op |-> "committed", cur |-> NoCursor]>>,
              stream)
    /\ UNCHANGED settled

\* The stream ends: submit, drain whatever happens, store, reconnect.
OpenSearchClosed ==
    /\ Idle /\ CanClose
    /\ \/ stream.phase = "closed" /\ faults' = faults
       \/ stream.phase # "closed" /\ ~Overrun /\ faults > 0 /\ faults' = faults - 1
    /\ osess' = [osess EXCEPT !.steps = <<[op |-> "submit", cur |-> osess.last],
                    [op |-> "drainAny", cur |-> NoCursor], [op |-> "last", cur |-> NoCursor]>>]
    /\ UNCHANGED <<consumer, log, floor, epoch, stream, settled, odur, upl>>

\* WatchResync ends the session at once.
OpenSearchResync ==
    /\ Idle /\ Overrun /\ OEnd
    /\ UNCHANGED <<consumer, log, floor, epoch, faults, odur>>

\* The next step of the running handler.
Op == IF osess.on /\ osess.steps # <<>> THEN Head(osess.steps).op ELSE "none"

\* The loop, Submit and Drain return the uploader's fatal error.
OpenSearchFatal ==
    /\ osess.on /\ upl.fatal
    /\ Op \in {"none", "submit", "drain"}
    /\ OEnd
    /\ UNCHANGED <<consumer, log, floor, epoch, faults, odur>>

StepDone == osess' = [osess EXCEPT !.steps = Tail(@)]

\* Uploader.Submit: an empty batch is a no-op; a batch waits while others are
\* in flight and it would exceed the document or the request limit.
OpenSearchSubmit ==
    /\ Op = "submit"
    /\ \/ osess.pending = {} /\ StepDone /\ UNCHANGED upl
       \/ /\ osess.pending # {} /\ ~upl.fatal
          /\ \/ upl.flying = {}
             \/ /\ InFlight + Cardinality(osess.pending) <= OMaxDocs
                /\ Cardinality(upl.flying) < OMaxConc
          /\ upl' = [upl EXCEPT !.submitSeq = @ + 1,
                        !.flying = @ \cup {[seq |-> upl.submitSeq, docs |-> osess.pending,
                                            cur |-> Head(osess.steps).cur]}]
          /\ osess' = [osess EXCEPT !.steps = Tail(@), !.pending = {}]
    /\ UNCHANGED <<consumer, log, floor, epoch, stream, settled, faults, odur>>

\* Uploader.Drain.
OpenSearchDrain ==
    /\ Op \in {"drain", "drainAny"}
    /\ upl.flying = {} \/ (upl.fatal /\ Op = "drainAny")
    /\ upl.fatal => Op = "drainAny"
    /\ StepDone
    /\ UNCHANGED <<consumer, log, floor, epoch, stream, settled, faults, odur, upl>>

\* writeState: an empty cursor leaves the stored one.  An error ends the
\* session, and the store may have taken the state all the same.
Written(c) == IF c = NoCursor THEN odur ELSE c

OpenSearchWrite ==
    /\ Op \in {"write", "committed", "last"}
    /\ LET w == Written(IF Op = "write" THEN Head(osess.steps).cur ELSE upl.committed)
       IN  \/ /\ Op # "last" /\ odur' = w /\ StepDone
              /\ UNCHANGED <<stream, settled, faults, upl>>
           \/ Op = "last" /\ odur' = w /\ OEnd /\ UNCHANGED faults
           \/ /\ faults > 0 /\ faults' = faults - 1
              /\ odur' \in {odur, w} /\ OEnd
    /\ UNCHANGED <<consumer, log, floor, epoch>>

(***************************************************************************)
(* Uploader.run: one upload completes.  The committed cursor is that of    *)
(* the newest batch such that it and all before it are done.               *)
(***************************************************************************)
\* (Mutant: the cursor of whatever batch completes is committed.)
AckedAny(u, b) ==
    [u EXCEPT !.flying = @ \ {b}, !.committed = IF b.cur = NoCursor THEN @ ELSE b.cur]

Acked(u, b) ==
    LET done == u.done \cup {b}
        ack == Min({n \in u.ackSeq..u.submitSeq : \A d \in done : d.seq # n})
        passed == {d \in done : d.seq < ack /\ d.cur # NoCursor}
    IN  [u EXCEPT !.flying = @ \ {b}, !.ackSeq = ack,
                  !.done = {d \in done : d.seq >= ack},
                  !.committed = IF passed = {} THEN @
                                ELSE (CHOOSE d \in passed : \A e \in passed : e.seq <= d.seq).cur]

OpenSearchUploaded ==
    /\ osess.on
    /\ \E b \in upl.flying :
        \/ /\ upl' = Acked(upl, b) /\ settled' = settled \cup b.docs
           /\ UNCHANGED faults
        \/ \* the retries are used up (bulkMaxRetries): nothing is committed past it
           /\ faults > 0 /\ faults' = faults - 1
           /\ upl' = [upl EXCEPT !.flying = @ \ {b}, !.fatal = TRUE]
           /\ UNCHANGED settled
    /\ UNCHANGED <<consumer, log, floor, epoch, stream, odur, osess>>

OpenSearchStep ==
    \/ OpenSearchStart \/ OpenSearchUpsert \/ OpenSearchReset \/ OpenSearchSynced
    \/ OpenSearchTick \/ OpenSearchClosed \/ OpenSearchResync \/ OpenSearchFatal
    \/ OpenSearchSubmit \/ OpenSearchDrain \/ OpenSearchWrite \/ OpenSearchUploaded

OpenSearchNext == OpenSearchStep \/ (FeedNext /\ UNCHANGED ovars)
=============================================================================
