----------------------------- MODULE Consumers -----------------------------
(***************************************************************************)
(* The five consumers of change feeds side by side: the instance chooses   *)
(* one of them and a source to watch.  They share no state; what they      *)
(* share is the promise of module Delivery, which each of them implements. *)
(***************************************************************************)
EXTENDS KafkaExporter, OpenSearchExporter, DropboxExporter, ArchiveSink, Replicator

vars == <<feedVars, kvars, ovars, dropvars, archvars, replvars>>

Init ==
    FeedInit /\ KafkaInit /\ OpenSearchInit /\ DropboxInit /\ ArchiveInit /\ ReplicatorInit

Kafka == consumer = "kafka" /\ UNCHANGED <<ovars, dropvars, archvars, replvars>>
OpenSearch == consumer = "opensearch" /\ UNCHANGED <<kvars, dropvars, archvars, replvars>>
Dropbox == consumer = "dropbox" /\ UNCHANGED <<kvars, ovars, archvars, replvars>>
Archive == consumer = "archivesink" /\ UNCHANGED <<kvars, ovars, dropvars, replvars>>
Follower == consumer = "replicator" /\ UNCHANGED <<kvars, ovars, dropvars, archvars>>

Next ==
    \/ Kafka /\ KafkaNext
    \/ OpenSearch /\ OpenSearchNext
    \/ Dropbox /\ DropboxNext
    \/ Archive /\ ArchiveNext
    \/ Follower /\ ReplicatorNext

Spec == Init /\ [][Next]_vars

(***************************************************************************)
(* Every consumer retries for ever with a bounded backoff, its tickers keep*)
(* firing, and the daemon restarts a follower and an exporter that died;   *)
(* the consumer of the dropbox is assumed to drain it.  The source is under*)
(* no obligation.                                                          *)
(***************************************************************************)
Working ==
    \/ Kafka /\ KafkaStep
    \/ OpenSearch /\ OpenSearchStep
    \/ Dropbox /\ DropboxStep
    \/ Archive /\ ArchiveStep
    \/ Follower /\ ReplicatorStep

FairSpec == Spec /\ WF_vars(Working) /\ WF_vars(Dropbox /\ DropboxCollect)

-----------------------------------------------------------------------------
\* A follower's file may hold a cursor of before a Reset: one that the leader
\* refuses is no position.
Position(c) == IF c = NoCursor THEN 0 ELSE c.pos
Durable ==
    CASE consumer = "kafka"       -> Position(kdur.cursor)
      [] consumer = "opensearch"  -> Position(odur)
      [] consumer = "dropbox"     -> Position(ddur.cursor)
      [] consumer = "archivesink" -> Position(adisk)
      [] OTHER                    -> IF Resumable(rdisk) THEN rdisk.pos ELSE 0

D == INSTANCE Delivery WITH changes <- Len(log), settled <- settled, durable <- Durable

(***************************************************************************)
(* At-least-once: each exporter (kafkasync, opensearchsync, archivedropbox),*)
(* the hub's archive sink and the HA follower stores a position only once  *)
(* all changes up to it have taken effect at its destination or were       *)
(* reported, whatever fails, crashes, restarts or is pruned in between, and*)
(* what lies before a stored position is never undone.  For archivedropbox *)
(* this needs record times that increase (emitLoss, TimesOrdered).         *)
(***************************************************************************)
AtLeastOnce == D!DSpec

(***************************************************************************)
(* Once the source is quiet, every change settles: no failure leaves a     *)
(* session that never delivers the rest (batches, in-flight windows, a full*)
(* dropbox, a replay that is cut off).  A follower whose leader has written*)
(* a row that it cannot decode is excepted: applyEvent ends every session  *)
(* at that event.                                                          *)
(***************************************************************************)
Unapplicable == consumer = "replicator" /\ \E i \in DOMAIN log : log[i].val \in Opaque
AllSettle == <>[](settled = 1..Len(log) \/ Unapplicable)

(***************************************************************************)
(* A kafkasync exporter that has caught up and has nothing queued has left *)
(* a topic whose reader, keeping the highest version of each key, sees     *)
(* exactly the table: no stale row, and no row of a key that vanished while*)
(* the exporter was away (state.go: ExportSeq and KeyVersions).            *)
(***************************************************************************)
TopicExact ==
    (/\ consumer = "kafka" /\ ksess.on /\ ksess.batch = <<>>
     /\ stream.phase = "live" /\ stream.at = Len(log))
        => \A k \in Key : topic[k].kept.val = RowAt(k, Len(log))

(***************************************************************************)
(* The hub's archive never holds a record twice, although sessions, crashes*)
(* and Resets deliver records again and identities repeat                  *)
(* (archiveSink.held counts).                                              *)
(***************************************************************************)
ArchivedOnce ==
    \A i, j \in DOMAIN harch.recs : i # j => harch.recs[i] # harch.recs[j]

(***************************************************************************)
(* A follower that has caught up shows the leader's table, also when the   *)
(* replay that rebuilds it was cut off or the process died with a cursor   *)
(* file older or newer than the rows (replicator.applyEvent, flushCursors).*)
(***************************************************************************)
FollowerReflects ==
    (consumer = "replicator" /\ rup = "session" /\ stream.phase = "live" /\ stream.at = Len(log))
        => \A k \in Key : local[k].val = RowAt(k, Len(log))
=============================================================================
