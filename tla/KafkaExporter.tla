--------------------------- MODULE KafkaExporter ---------------------------
(***************************************************************************)
(* kafkasync: one table's changes published to a compacted topic.  A       *)
(* session reads the watch stream, queues records, and checkpoints: first  *)
(* the broker acknowledges the queued records, then the resume state       *)
(* (cursor, ExportSeq, KeyVersions) is stored.  An error ends the session, *)
(* and the next one starts from the stored state, so a failure and a crash *)
(* are one thing here: what was acknowledged stays, what was in memory is  *)
(* gone.                                                                   *)
(*                                                                         *)
(* KeyVersions is used only for its keys, so it is a set of keys.          *)
(***************************************************************************)
EXTENDS ChangeFeed, SequencesExt

CONSTANTS
    KBatch,      \* BatchSize
    KafkaFaults  \* may include "reset_unsaved": the cursor becomes unusable
                 \* after records were acknowledged whose checkpoint failed

VARIABLES
    kdur,     \* the stored State
    ksess,    \* the session's variables, or KIdle
    topic,    \* per key: the record a reader of the topic keeps, and the last one
    lost      \* history: the last change acknowledged in a session that ended
              \* before it stored that; 0 when it has been delivered again

kvars == <<kdur, ksess, topic, lost>>

KIdle == [on |-> FALSE]
NewState == [cursor |-> NoCursor, seq |-> 0, keys |-> {}]
NoRecord == [ver |-> -1, val |-> NoRow, pos |-> 0]

KafkaInit ==
    /\ kdur = NewState /\ ksess = KIdle /\ lost = 0
    /\ topic = [k \in Key |-> [kept |-> NoRecord, last |-> NoRecord]]

\* The records rs[i], i in S, are acknowledged.  A reader keeps the highest
\* version of each key; compaction keeps the last.
Publish(t, rs, S) ==
    [k \in Key |->
        LET mine == {i \in S : rs[i].key = k}
            Rec(i) == [ver |-> rs[i].ver, val |-> rs[i].val, pos |-> rs[i].pos]
            best == CHOOSE i \in mine : \A j \in mine : rs[j].ver <= rs[i].ver
        IN  IF mine = {} THEN t[k]
            ELSE [kept |-> IF rs[best].ver >= t[k].kept.ver THEN Rec(best) ELSE t[k].kept,
                  last |-> Rec(Max(mine))]]

\* The keys with a published row after a batch: the last queued operation of a
\* key decides (pendingVersions and pendingDeletes exclude each other).
KeysAfter(keys, rs) ==
    {k \in Key :
        LET mine == {i \in DOMAIN rs : rs[i].key = k}
        IN  IF mine = {} THEN k \in keys ELSE rs[Max(mine)].val # NoRow}

\* What settles when the records rs[i], i in S, are acknowledged.  A tombstone
\* of the sweep stands for every change up to the snapshot.
SettledBy(rs, S) ==
    UNION {{j \in 1..rs[i].pos : log[j].key = rs[i].key} : i \in S}

\* At Synced (n is the snapshot's position, 0 elsewhere), a row that is gone
\* from the source and not shown downstream needs nothing more.
GoneBoth(n, t) ==
    {j \in 1..n : RowAt(log[j].key, n) = NoRow /\ t[log[j].key].last.val = NoRow}

\* History: the latest change among them and p; what is still lost once a state
\* with cursor c is stored; and the environment assumption of KafkaFaults.
LastPos(rs, S, p) == Max({p} \cup {rs[i].pos : i \in S})
LostAfter(c) == IF c # NoCursor /\ c.pos >= lost THEN 0 ELSE lost
NoLostReset(l, c) == l > 0 /\ "reset_unsaved" \notin KafkaFaults => Resumable(c)

(***************************************************************************)
(* Run and loadState: a session starts from the stored state.              *)
(***************************************************************************)
KafkaStart ==
    /\ ~ksess.on
    /\ stream' = OpenStream(kdur.cursor)
    /\ ksess' = [on |-> TRUE, st |-> kdur, batch |-> <<>>, inReset |-> FALSE,
                 seen |-> {}, last |-> NoCursor, acked |-> 0]
    /\ UNCHANGED <<consumer, log, floor, epoch, settled, faults, kdur, topic, lost>>

\* produceBatch and the fold of its effects into the state.
Produced(m) == [m EXCEPT !.st.keys = KeysAfter(@, m.batch), !.batch = <<>>]

(***************************************************************************)
(* The state checkpoint(cursor) stores once the batch m is acknowledged.   *)
(* The ticker's produceBatch and writeStatus in a replay is                *)
(* checkpoint(NoCursor).                                                   *)
(***************************************************************************)
\* (Mutant: the sequence number is not stored.)
CheckpointedNoSeq(m, cur) ==
    [Produced(m).st EXCEPT !.cursor = IF cur = NoCursor THEN @ ELSE cur, !.seq = kdur.seq]

Checkpointed(m, cur) ==
    [Produced(m).st EXCEPT !.cursor = IF cur = NoCursor THEN @ ELSE cur]

\* The session goes on with memory m and stream s after the step's I/O:
\* nothing, produceBatch alone, or a checkpoint at cursor cur.
KContinue(m, s) ==
    /\ ksess' = m /\ stream' = s
    /\ UNCHANGED <<consumer, log, floor, epoch, settled, faults, kdur, topic, lost>>

KProduce(m, s) ==
    /\ ksess' = [Produced(m) EXCEPT !.acked = LastPos(m.batch, DOMAIN m.batch, @)]
    /\ stream' = s
    /\ topic' = Publish(topic, m.batch, DOMAIN m.batch)
    /\ settled' = settled \cup SettledBy(m.batch, DOMAIN m.batch)
    /\ UNCHANGED <<consumer, log, floor, epoch, faults, kdur, lost>>

KCheckpoint(m, s, cur, n) ==
    /\ topic' = Publish(topic, m.batch, DOMAIN m.batch)
    /\ settled' = settled \cup SettledBy(m.batch, DOMAIN m.batch) \cup GoneBoth(n, topic')
    /\ kdur' = Checkpointed(m, cur)
    /\ ksess' = [Produced(m) EXCEPT !.st = kdur', !.acked = 0] /\ stream' = s
    /\ lost' = LostAfter(kdur'.cursor)
    /\ UNCHANGED <<consumer, log, floor, epoch, faults>>

\* The step fails: some records may have been acknowledged (in order per
\* key), and the store may have taken the state although it reported an error.
KFail(m, cur, stores, n) ==
    /\ faults > 0 /\ faults' = faults - 1
    /\ \E S \in SUBSET DOMAIN m.batch :
        /\ \A i, j \in DOMAIN m.batch :
              (i < j /\ m.batch[i].key = m.batch[j].key /\ j \in S) => i \in S
        /\ topic' = Publish(topic, m.batch, S)
        /\ settled' = settled \cup SettledBy(m.batch, S) \cup GoneBoth(n, topic')
        /\ \/ kdur' = kdur /\ lost' = LastPos(m.batch, S, Max({lost, m.acked}))
           \/ /\ stores /\ S = DOMAIN m.batch
              /\ kdur' = Checkpointed(m, cur) /\ lost' = LostAfter(kdur'.cursor)
        /\ NoLostReset(lost', kdur'.cursor)
    /\ ksess' = KIdle /\ stream' = Off
    /\ UNCHANGED <<consumer, log, floor, epoch>>

\* maybeFlush after an upsert or a delete: a full batch is produced in a
\* replay and checkpointed otherwise.
MaybeFlush(m, s, cur) ==
    \/ Len(m.batch) < KBatch /\ KContinue(m, s)
    \/ /\ Len(m.batch) >= KBatch
       /\ \/ m.inReset /\ KProduce(m, s)
          \/ ~m.inReset /\ KCheckpoint(m, s, cur, 0)
          \/ KFail(m, cur, ~m.inReset, 0)

Queue(m, k, v, p) ==
    [m EXCEPT !.batch = Append(@, [key |-> k, val |-> v, ver |-> m.st.seq, pos |-> p]),
              !.st.seq = @ + 1]

KafkaUpsert ==
    /\ ksess.on /\ HasChange /\ log[NextChange].val # NoRow
    /\ LET e == log[NextChange]
           m == Queue(ksess, e.key, e.val, NextChange)
       IN  MaybeFlush([m EXCEPT !.seen = IF m.inReset THEN @ \cup {e.key} ELSE @,
                                !.last = IF ChangeCursor = NoCursor THEN @ ELSE ChangeCursor],
                      AfterChange, ChangeCursor)

KafkaDelete ==
    /\ ksess.on /\ HasChange /\ log[NextChange].val = NoRow
    /\ MaybeFlush([Queue(ksess, log[NextChange].key, NoRow, NextChange) EXCEPT
                      !.last = IF ChangeCursor = NoCursor THEN @ ELSE ChangeCursor],
                  AfterChange, ChangeCursor)

\* Reset: the queued records are superseded by the snapshot that follows.
KafkaReset ==
    /\ ksess.on /\ IsReset
    /\ KContinue([ksess EXCEPT !.inReset = TRUE, !.seen = {}, !.batch = <<>>], AfterReset)

(***************************************************************************)
(* Synced: after a replay, a tombstone for every published key that the    *)
(* snapshot did not show, then a checkpoint at the synced cursor.          *)
(***************************************************************************)
Swept(m) == {k \in m.st.keys \ m.seen : m.inReset}

\* The session with the sweep's tombstones queued; the stream is at p.
Sweep(m, p) ==
    LET ks == SetToSeq(Swept(m))
    IN  [m EXCEPT !.batch = @ \o [i \in DOMAIN ks |->
                      [key |-> ks[i], val |-> NoRow, ver |-> m.st.seq + i - 1, pos |-> p]],
                  !.st.seq = @ + Len(ks)]

KafkaSynced ==
    /\ ksess.on /\ IsSynced
    /\ LET m == Sweep(ksess, stream.at)
           c == CursorAt(stream.at)
       IN  \/ KCheckpoint([m EXCEPT !.last = c, !.inReset = FALSE, !.seen = {}],
                          AfterSynced, c, stream.at)
           \/ KFail(m, c, TRUE, stream.at)

\* The ticker: in a replay the cursor stays, otherwise it moves to the last
\* change seen.
KafkaTick ==
    /\ ksess.on /\ stream.phase # "reset"
    /\ LET c == IF ksess.inReset THEN NoCursor ELSE ksess.last
       IN  \/ Checkpointed(ksess, c) # kdur /\ KCheckpoint(ksess, stream, c, 0)
           \/ KFail(ksess, c, TRUE, 0)

\* WatchResync or the end of the stream: reconnect from the last checkpoint.
KafkaResync ==
    /\ ksess.on /\ CanClose
    /\ Overrun \/ stream.phase = "closed" \/ faults > 0
    /\ faults' = IF Overrun \/ stream.phase = "closed" THEN faults ELSE faults - 1
    /\ ksess' = KIdle /\ stream' = Off
    /\ lost' = Max({lost, ksess.acked})
    /\ NoLostReset(lost', kdur.cursor)
    /\ UNCHANGED <<consumer, log, floor, epoch, settled, kdur, topic>>

\* The source moves on its own; see KafkaFaults.
KafkaFeed ==
    /\ FeedNext /\ UNCHANGED kvars
    /\ NoLostReset(IF ksess.on THEN Max({lost, ksess.acked}) ELSE lost, kdur.cursor)'

KafkaStep ==
    KafkaStart \/ KafkaUpsert \/ KafkaDelete \/ KafkaReset \/ KafkaSynced \/ KafkaTick
      \/ KafkaResync

KafkaNext == KafkaStep \/ KafkaFeed
=============================================================================
