--------------------------- MODULE DeliveryProofs ---------------------------
(***************************************************************************)
(* The Kafka exporter's invariant, and the theorems about the consumers of *)
(* change feeds: they implement module Delivery, a follower that has caught*)
(* up shows the leader's table, and a topic shows exactly its table.       *)
(***************************************************************************)
EXTENDS FeedProofs

-----------------------------------------------------------------------------
(***************************************************************************)
(* The Kafka exporter.  The versions of a key's records serve the reader   *)
(* of the topic only if a session that repeats what an earlier one had     *)
(* published, but not stored, gives each change the version it had then.   *)
(* It does: a session that resumes numbers the changes after the stored    *)
(* cursor from the stored sequence number on, without a gap.               *)
(***************************************************************************)
TopicRecord == [ver : Int, val : Content, pos : Nat]
TopicState == [Key -> [kept : TopicRecord, last : TopicRecord]]
Queued == [key : Key, val : Content, ver : Nat, pos : Nat]
KafkaState(n, e) == [cursor : CursorsTo(n, e), seq : Nat, keys : SUBSET Key]
KafkaSession(n, e) ==
    [on : {TRUE}, st : KafkaState(n, e), batch : Seq(Queued), inReset : BOOLEAN,
     seen : SUBSET Key, last : CursorsTo(n, e), acked : Nat]
CanResume(c, e, fl) == c # NoCursor /\ c.epoch = e /\ c.pos >= fl
RecordOf(r) == [ver |-> r.ver, val |-> r.val, pos |-> r.pos]

\* A record r of key k shows the log at its position; Good: what it shows is
\* still the row after n changes.
Shows(l, k, r) ==
    /\ r.pos <= Len(l) /\ RowShows(l, k, [val |-> r.val, pos |-> r.pos])
    /\ r.val # NoRow => r.pos > 0
Good(l, k, r, n) ==
    \E m \in 0..Len(l) : m >= r.pos /\ CurrentTo(l, k, [val |-> r.val, pos |-> m], n)
GoodAll(l, T, n) == \A k \in Key : Good(l, k, T[k].kept, n)

TopicOK(l, T) == T \in TopicState /\ \A k \in Key : Shows(l, k, T[k].kept)

\* What a state at position p with sequence number v and keys K knows of key k's record: it
\* is older, the last one, and counted among the keys.  Or a session that ended
\* before it stored its state has published change t.kept.pos, with the version
\* that it will have again.
InStep(k, t, v, K) ==
    t.kept.ver < v /\ t.last = t.kept /\ (t.kept.val # NoRow <=> k \in K)
Ahead(l, k, t, p, v, lst) ==
    /\ p < t.kept.pos /\ t.kept.pos <= lst
    /\ t.kept.ver = v + t.kept.pos - p - 1 /\ l[t.kept.pos].key = k
KnownAll(l, T, p, v, K, lst) ==
    \A k \in Key : InStep(k, T[k], v, K) \/ Ahead(l, k, T[k], p, v, lst)
InStepAll(T, v, K) == \A k \in Key : InStep(k, T[k], v, K)

StoredOK(l, S, d, lst, e, fl) ==
    /\ d \in KafkaState(Len(l), e) /\ lst \in Nat /\ Covers(d.cursor, S)
    /\ lst > 0 => CanResume(d.cursor, e, fl) /\ Position(d.cursor) < lst

\* The queue: changes of the log, numbered from v on.
QueueOK(l, rs, v) ==
    \A i \in DOMAIN rs : /\ rs[i].pos \in 1..Len(l) /\ rs[i].key = l[rs[i].pos].key
                         /\ rs[i].val = l[rs[i].pos].val /\ rs[i].ver = v + i - 1
Settles(l, rs) == {j \in 1..Len(l) : \E i \in DOMAIN rs : rs[i].key = l[j].key /\ j <= rs[i].pos}

Resuming(m, d, s, e) ==
    /\ ~m.inReset /\ d.cursor # NoCursor
    /\ d.cursor.pos <= s.at /\ Len(m.batch) = s.at - d.cursor.pos
    /\ \A i \in DOMAIN m.batch : m.batch[i].pos = d.cursor.pos + i
    /\ m.last # NoCursor => m.last = [epoch |-> e, pos |-> s.at]
    /\ m.last = NoCursor => d.cursor.pos = s.at

Replaying(l, T, S, m, s) ==
    /\ m.inReset /\ m.last = NoCursor
    /\ s.todo \subseteq LiveAt(l, s.at)
    /\ \A i \in DOMAIN m.batch : m.batch[i].pos \in LiveAt(l, s.at) \ s.todo
    /\ m.seen = {l[i].key : i \in LiveAt(l, s.at) \ s.todo}
    /\ InStepAll(T, m.st.seq - Len(m.batch), m.st.keys)
    /\ \A k \in Key : T[k].kept.pos <= s.at
    /\ \A i \in LiveAt(l, s.at) \ s.todo :
          /\ {j \in 1..i : l[j].key = l[i].key} \subseteq S \cup Settles(l, m.batch)
          /\ T[l[i].key].kept.pos = i \/ \E j \in DOMAIN m.batch : m.batch[j].pos = i

KafkaSessionInv(l, T, S, m, d, s, e) ==
    /\ Len(m.batch) <= m.st.seq /\ QueueOK(l, m.batch, m.st.seq - Len(m.batch))
    /\ Covers(m.last, S \cup Settles(l, m.batch))
    /\ m.st.cursor = d.cursor
    /\ m.acked = 0 => m.st.keys = d.keys /\ m.st.seq = d.seq + Len(m.batch)
    /\ s.phase # "replay" => m.acked = 0
    /\ s.phase \in {"resume", "live"} => Resuming(m, d, s, e)
    /\ s.phase = "reset" => /\ ~m.inReset /\ m.last = NoCursor /\ m.batch = <<>>
                            /\ s.todo = LiveAt(l, s.at) /\ \A k \in Key : T[k].kept.pos <= s.at
    /\ s.phase = "replay" => Replaying(l, T, S, m, s)

\* A stream that replays, or has ended, does so because the stored cursor is
\* refused; nothing is out of step then.
RefusedOK(m, d, lst, s, e, fl) ==
    /\ s.phase # "off"
    /\ s.phase \in {"reset", "replay", "closed"} => ~CanResume(d.cursor, e, fl) /\ lst = 0
    /\ s.phase = "closed" => ~CanResume(m.last, e, fl)

KafkaInv ==
    /\ FeedOK /\ StreamOK /\ consumer = "kafka" /\ settled \subseteq 1..Len(log)
    /\ TopicOK(log, topic) /\ StoredOK(log, settled, kdur, lost, epoch, floor)
    /\ (CanResume(kdur.cursor, epoch, floor) \/ stream.phase \in {"resume", "live"})
          => GoodAll(log, topic, Position(kdur.cursor))
    /\ \/ /\ ksess = KIdle /\ stream.phase = "off"
          /\ KnownAll(log, topic, Position(kdur.cursor), kdur.seq, kdur.keys, lost)
       \/ /\ ksess \in KafkaSession(Len(log), epoch)
          /\ KafkaSessionInv(log, topic, settled, ksess, kdur, stream, epoch)
          /\ RefusedOK(ksess, kdur, lost, stream, epoch, floor)
          /\ ksess.acked = 0 => KnownAll(log, topic, Position(kdur.cursor), kdur.seq, kdur.keys, lost)

\* Publish: the newest record of a key among those acknowledged is its last,
\* and the kept one unless a higher version is.
KeyPublished(rs, S, k, t, u) ==
    \/ (\A i \in S : rs[i].key # k) /\ u = t
    \/ \E x \in S :
          /\ rs[x].key = k /\ \A y \in S : rs[y].key = k => y <= x
          /\ u.last = RecordOf(rs[x])
          /\ u.kept = IF rs[x].ver >= t.kept.ver THEN RecordOf(rs[x]) ELSE t.kept

LEMMA PublishedIs ==
    ASSUME NEW T \in TopicState, NEW rs \in Seq(Queued), NEW S \in SUBSET (DOMAIN rs), NEW v \in Nat,
           \A i \in DOMAIN rs : rs[i].ver = v + i - 1,
           NEW U, U = Publish(T, rs, S), NEW k \in Key
    PROVE  KeyPublished(rs, S, k, T[k], U[k])
<1> DEFINE mine == {i \in S : rs[i].key = k}
           best == CHOOSE i \in mine : \A j \in mine : rs[j].ver <= rs[i].ver
<1>1. U[k] = IF mine = {} THEN T[k]
             ELSE [kept |-> IF rs[best].ver >= T[k].kept.ver THEN RecordOf(rs[best]) ELSE T[k].kept,
                   last |-> RecordOf(rs[Max(mine)])]
    BY DEF Publish, RecordOf
<1>2. CASE mine = {}
    BY <1>1, <1>2 DEF KeyPublished
<1>3. CASE mine # {}
    <2>1. mine \in SUBSET Nat /\ Len(rs) \in Nat /\ (\A x \in mine : x <= Len(rs)) /\ mine \subseteq DOMAIN rs
        OBVIOUS
    <2> HIDE DEF mine
    <2>2. Max(mine) \in mine /\ \A y \in mine : y <= Max(mine)
        BY <1>3, <2>1, MaxIs
    <2>3. \A j \in mine : rs[j].ver <= rs[Max(mine)].ver
        <3> SUFFICES ASSUME NEW j \in mine PROVE rs[j].ver <= rs[Max(mine)].ver
            OBVIOUS
        <3>1. rs[j].ver = v + j - 1 /\ rs[Max(mine)].ver = v + Max(mine) - 1
            BY <2>1, <2>2
        <3>2. j \in Nat /\ Max(mine) \in Nat /\ j <= Max(mine)
            BY <2>1, <2>2
        <3> QED BY <3>1, <3>2
    <2>4. best \in mine /\ \A j \in mine : rs[j].ver <= rs[best].ver
        BY <2>2, <2>3
    <2> HIDE DEF best
    <2>5. best = Max(mine)
        <3>1. rs[best].ver = v + best - 1 /\ rs[Max(mine)].ver = v + Max(mine) - 1
            BY <2>1, <2>2, <2>4
        <3>2. best \in Nat /\ Max(mine) \in Nat /\ best <= Max(mine)
            BY <2>1, <2>2, <2>4
        <3>3. rs[Max(mine)].ver <= rs[best].ver
            BY <2>2, <2>4
        <3> QED BY <3>1, <3>2, <3>3
    <2>6. Max(mine) \in S /\ rs[Max(mine)].key = k /\ \A y \in S : rs[y].key = k => y <= Max(mine)
        BY <2>2 DEF mine
    <2> QED BY <1>1, <1>3, <2>5, <2>6 DEF KeyPublished
<1> QED BY <1>2, <1>3

LEMMA PublishedOK ==
    ASSUME NEW T \in TopicState, NEW rs \in Seq(Queued), NEW S \in SUBSET (DOMAIN rs), NEW v \in Nat,
           \A i \in DOMAIN rs : rs[i].ver = v + i - 1, NEW U, U = Publish(T, rs, S)
    PROVE  U \in TopicState
<1>1. DOMAIN U = Key /\ U = [k \in Key |-> U[k]]
    BY DEF Publish
<1>2. ASSUME NEW k \in Key PROVE U[k] \in [kept : TopicRecord, last : TopicRecord]
    <2>1. T[k] \in [kept : TopicRecord, last : TopicRecord]
        BY DEF TopicState
    <2>2. CASE U[k] = T[k]
        BY <2>1, <2>2
    <2>3. ASSUME NEW x \in S, U[k].last = RecordOf(rs[x]),
                 U[k].kept = IF rs[x].ver >= T[k].kept.ver THEN RecordOf(rs[x]) ELSE T[k].kept,
                 DOMAIN U[k] = {"kept", "last"}
          PROVE  U[k] \in [kept : TopicRecord, last : TopicRecord]
        <3>1. rs[x] \in Queued
            OBVIOUS
        <3>2. RecordOf(rs[x]) \in TopicRecord
            BY <3>1 DEF RecordOf, TopicRecord, Queued
        <3>3. U[k].last \in TopicRecord /\ U[k].kept \in TopicRecord
            BY <2>1, <2>3, <3>2
        <3>4. U[k] = [kept |-> U[k].kept, last |-> U[k].last]
            <4> DEFINE mine == {i \in S : rs[i].key = k}
                       best == CHOOSE i \in mine : \A j \in mine : rs[j].ver <= rs[i].ver
            <4>1. U[k] = IF mine = {} THEN T[k]
                     ELSE [kept |-> IF rs[best].ver >= T[k].kept.ver THEN RecordOf(rs[best]) ELSE T[k].kept,
                           last |-> RecordOf(rs[Max(mine)])]
                BY DEF Publish, RecordOf
            <4> HIDE DEF mine, best
            <4> QED BY <2>1, <4>1
        <3> QED BY <3>3, <3>4
    <2>4. DOMAIN U[k] = {"kept", "last"}
        <3> DEFINE mine == {i \in S : rs[i].key = k}
                   best == CHOOSE i \in mine : \A j \in mine : rs[j].ver <= rs[i].ver
        <3>1. U[k] = IF mine = {} THEN T[k]
                     ELSE [kept |-> IF rs[best].ver >= T[k].kept.ver THEN RecordOf(rs[best]) ELSE T[k].kept,
                           last |-> RecordOf(rs[Max(mine)])]
            BY DEF Publish, RecordOf
        <3> HIDE DEF mine, best
        <3> QED BY <2>1, <3>1
    <2>5. KeyPublished(rs, S, k, T[k], U[k])
        BY PublishedIs
    <2> QED BY <2>2, <2>3, <2>4, <2>5 DEF KeyPublished
<1> QED BY <1>1, <1>2 DEF TopicState

LEMMA KeysAre ==
    ASSUME NEW K \in SUBSET Key, NEW rs \in Seq(Queued), NEW k \in Key
    PROVE  /\ (\A i \in DOMAIN rs : rs[i].key # k) => (k \in KeysAfter(K, rs) <=> k \in K)
           /\ \A x \in DOMAIN rs : (rs[x].key = k /\ \A y \in DOMAIN rs : rs[y].key = k => y <= x)
                 => (k \in KeysAfter(K, rs) <=> rs[x].val # NoRow)
           /\ KeysAfter(K, rs) \in SUBSET Key
<1> DEFINE mine == {i \in DOMAIN rs : rs[i].key = k}
<1>1. k \in KeysAfter(K, rs) <=> IF mine = {} THEN k \in K ELSE rs[Max(mine)].val # NoRow
    BY DEF KeysAfter
<1>2. ASSUME NEW x \in DOMAIN rs, rs[x].key = k, \A y \in DOMAIN rs : rs[y].key = k => y <= x
      PROVE  Max(mine) = x
    <2>1. mine \in SUBSET Nat /\ x \in mine /\ Len(rs) \in Nat /\ \A y \in mine : y <= Len(rs)
        BY <1>2
    <2>2. \A y \in mine : y <= x
        BY <1>2
    <2> HIDE DEF mine
    <2>3. Max(mine) \in mine /\ \A y \in mine : y <= Max(mine)
        BY <2>1, MaxIs
    <2>4. Max(mine) \in Nat /\ x \in Nat /\ x <= Max(mine) /\ Max(mine) <= x
        BY <2>1, <2>2, <2>3
    <2> QED BY <2>4
<1>3. KeysAfter(K, rs) \in SUBSET Key
    BY DEF KeysAfter
<1>4. ASSUME NEW x \in DOMAIN rs, rs[x].key = k, \A y \in DOMAIN rs : rs[y].key = k => y <= x
      PROVE  k \in KeysAfter(K, rs) <=> rs[x].val # NoRow
    BY <1>1, <1>2, <1>4
<1> QED BY <1>1, <1>3, <1>4

\* A batch that is acknowledged as a whole keeps a state in step.
KeyMoved(rs, k, t, u) ==
    \/ (\A i \in DOMAIN rs : rs[i].key # k) /\ u = t
    \/ \E x \in DOMAIN rs : rs[x].key = k /\ u.kept = RecordOf(rs[x])

LEMMA InStepKept ==
    ASSUME NEW T \in TopicState, NEW rs \in Seq(Queued), NEW v \in Nat,
           \A i \in DOMAIN rs : rs[i].ver = v + i - 1, NEW U, U = Publish(T, rs, DOMAIN rs),
           NEW K \in SUBSET Key, NEW k \in Key, InStep(k, T[k], v, K)
    PROVE  /\ InStep(k, U[k], v + Len(rs), KeysAfter(K, rs))
           /\ KeyMoved(rs, k, T[k], U[k])
<1>0. T[k].kept.ver \in Int /\ Len(rs) \in Nat /\ DOMAIN rs = 1..Len(rs)
    BY DEF TopicState, TopicRecord
<1>1. CASE (\A i \in DOMAIN rs : rs[i].key # k) /\ U[k] = T[k]
    <2>1. k \in KeysAfter(K, rs) <=> k \in K
        BY <1>1, KeysAre
    <2>2. U[k].kept.ver < v + Len(rs)
        BY <1>0, <1>1 DEF InStep
    <2> QED BY <1>1, <2>1, <2>2 DEF InStep, KeyMoved
<1>2. ASSUME NEW x \in DOMAIN rs, rs[x].key = k, \A y \in DOMAIN rs : rs[y].key = k => y <= x,
             U[k].last = RecordOf(rs[x]),
             U[k].kept = IF rs[x].ver >= T[k].kept.ver THEN RecordOf(rs[x]) ELSE T[k].kept
      PROVE  InStep(k, U[k], v + Len(rs), KeysAfter(K, rs)) /\ U[k].kept = RecordOf(rs[x])
    <2>1. x \in Nat /\ x >= 1 /\ x <= Len(rs) /\ rs[x].ver = v + x - 1
        BY <1>0
    <2>2. rs[x].ver >= T[k].kept.ver /\ rs[x].ver < v + Len(rs)
        BY <1>0, <2>1 DEF InStep
    <2>3. U[k].kept = RecordOf(rs[x])
        BY <1>2, <2>2
    <2>4. RecordOf(rs[x]).ver = rs[x].ver /\ RecordOf(rs[x]).val = rs[x].val
        BY DEF RecordOf
    <2>5. k \in KeysAfter(K, rs) <=> rs[x].val # NoRow
        BY <1>2, KeysAre
    <2> QED BY <1>2, <2>2, <2>3, <2>4, <2>5 DEF InStep
<1>3. \/ (\A i \in DOMAIN rs : rs[i].key # k) /\ U[k] = T[k]
      \/ \E x \in DOMAIN rs :
            /\ rs[x].key = k /\ \A y \in DOMAIN rs : rs[y].key = k => y <= x
            /\ U[k].last = RecordOf(rs[x])
            /\ U[k].kept = IF rs[x].ver >= T[k].kept.ver THEN RecordOf(rs[x]) ELSE T[k].kept
    <2>1. DOMAIN rs \in SUBSET (DOMAIN rs)
        OBVIOUS
    <2>2. KeyPublished(rs, DOMAIN rs, k, T[k], U[k])
        BY <2>1, PublishedIs
    <2> QED BY <2>2 DEF KeyPublished
<1>4. CASE \E x \in DOMAIN rs :
            /\ rs[x].key = k /\ \A y \in DOMAIN rs : rs[y].key = k => y <= x
            /\ U[k].last = RecordOf(rs[x])
            /\ U[k].kept = IF rs[x].ver >= T[k].kept.ver THEN RecordOf(rs[x]) ELSE T[k].kept
    <2>1. PICK x \in DOMAIN rs :
            /\ rs[x].key = k /\ \A y \in DOMAIN rs : rs[y].key = k => y <= x
            /\ U[k].last = RecordOf(rs[x])
            /\ U[k].kept = IF rs[x].ver >= T[k].kept.ver THEN RecordOf(rs[x]) ELSE T[k].kept
        BY <1>4
    <2>2. InStep(k, U[k], v + Len(rs), KeysAfter(K, rs)) /\ U[k].kept = RecordOf(rs[x])
        BY <1>2, <2>1
    <2> QED BY <2>1, <2>2 DEF KeyMoved
<1> QED BY <1>1, <1>3, <1>4

LEMMA ShowsChange ==
    ASSUME NEW l \in Seq(ChangeRecord), NEW r, r.pos \in 1..Len(l), r.val = l[r.pos].val
    PROVE  Shows(l, l[r.pos].key, r)
<1>1. Len(l) \in Nat /\ r.pos \in Nat /\ r.pos <= Len(l) /\ r.pos > 0
    OBVIOUS
<1> DEFINE q == [val |-> r.val, pos |-> r.pos]
<1>2. q.val = r.val /\ q.pos = r.pos
    OBVIOUS
<1>3. RowShows(l, l[r.pos].key, q)
    <2>1. \A j \in r.pos + 1..r.pos : l[j].key # l[r.pos].key
        BY <1>1
    <2> QED BY <1>1, <1>2, <2>1 DEF RowShows
<1> QED BY <1>1, <1>3 DEF Shows

LEMMA GoodHere ==
    ASSUME NEW l \in Seq(ChangeRecord), NEW k \in Key, NEW r, r.pos \in Nat, Shows(l, k, r), NEW n \in Nat,
           \A j \in r.pos + 1..n : l[j].key # k
    PROVE  Good(l, k, r, n)
<1> DEFINE q == [val |-> r.val, pos |-> r.pos]
<1>1. RowShows(l, k, q) /\ q.pos = r.pos /\ r.pos \in 0..Len(l)
    BY DEF Shows
<1>2. CurrentTo(l, k, q, n)
    BY <1>1 DEF CurrentTo
<1> QED BY <1>1, <1>2 DEF Good

LEMMA PublishedShows ==
    ASSUME NEW l, NEW T, TopicOK(l, T), NEW rs \in Seq(Queued), NEW S \in SUBSET (DOMAIN rs), NEW v \in Nat,
           \A i \in DOMAIN rs : rs[i].ver = v + i - 1, NEW U, U = Publish(T, rs, S),
           \A i \in DOMAIN rs : Shows(l, rs[i].key, rs[i])
    PROVE  TopicOK(l, U)
<1>1. T \in TopicState
    BY DEF TopicOK
<1>2. U \in TopicState
    BY <1>1, PublishedOK
<1>3. ASSUME NEW k \in Key PROVE Shows(l, k, U[k].kept)
    <2>1. Shows(l, k, T[k].kept)
        BY DEF TopicOK
    <2>2. CASE U[k].kept = T[k].kept
        BY <2>1, <2>2
    <2>3. ASSUME NEW x \in S, rs[x].key = k, U[k].kept = RecordOf(rs[x]) PROVE Shows(l, k, U[k].kept)
        <3>1. Shows(l, k, rs[x])
            BY <2>3
        <3>2. U[k].kept.pos = rs[x].pos /\ U[k].kept.val = rs[x].val
            BY <2>3 DEF RecordOf
        <3> QED BY <3>1, <3>2 DEF Shows
    <2>4. KeyPublished(rs, S, k, T[k], U[k])
        BY <1>1, PublishedIs
    <2> QED BY <2>2, <2>3, <2>4 DEF KeyPublished
<1> QED BY <1>2, <1>3 DEF TopicOK

LEMMA QueueShows ==
    ASSUME NEW l \in Seq(ChangeRecord), NEW rs \in Seq(Queued), NEW v \in Nat, QueueOK(l, rs, v)
    PROVE  \A i \in DOMAIN rs : Shows(l, rs[i].key, rs[i]) /\ rs[i].ver = v + i - 1
BY ShowsChange DEF QueueOK

\* What a session publishes past the cursor that it resumed from leaves a row
\* as good as it was for that cursor.
LEMMA PartGood ==
    ASSUME NEW l \in Seq(ChangeRecord), NEW T, TopicOK(l, T), NEW rs \in Seq(Queued),
           NEW S \in SUBSET (DOMAIN rs), NEW v \in Nat, QueueOK(l, rs, v),
           NEW U, U = Publish(T, rs, S), NEW n \in Nat, GoodAll(l, T, n),
           \A i \in DOMAIN rs : rs[i].pos > n
    PROVE  GoodAll(l, U, n)
<1>1. T \in TopicState
    BY DEF TopicOK
<1>2. \A i \in DOMAIN rs : Shows(l, rs[i].key, rs[i]) /\ rs[i].ver = v + i - 1
    BY QueueShows
<1>3. ASSUME NEW k \in Key PROVE Good(l, k, U[k].kept, n)
    <2>1. CASE U[k].kept = T[k].kept
        BY <2>1 DEF GoodAll
    <2>2. ASSUME NEW x \in S, rs[x].key = k, U[k].kept = RecordOf(rs[x]) PROVE Good(l, k, U[k].kept, n)
        <3>1. U[k].kept.pos = rs[x].pos /\ U[k].kept.val = rs[x].val
            BY <2>2 DEF RecordOf
        <3>2. Shows(l, k, U[k].kept)
            BY <1>2, <2>2, <3>1 DEF Shows
        <3>3. x \in DOMAIN rs
            OBVIOUS
        <3>4. rs[x] \in Queued
            BY <3>3
        <3>5. rs[x].pos \in Nat /\ rs[x].pos > n
            BY <3>3, <3>4 DEF Queued
        <3>6. \A j \in U[k].kept.pos + 1..n : l[j].key # k
            BY <3>1, <3>5
        <3>7. U[k].kept.pos \in Nat
            BY <3>1, <3>5
        <3> QED BY <3>2, <3>6, <3>7, GoodHere
    <2>3. KeyPublished(rs, S, k, T[k], U[k])
        BY <1>1, <1>2, PublishedIs
    <2> QED BY <2>1, <2>2, <2>3 DEF KeyPublished
<1> QED BY <1>3 DEF GoodAll

LEMMA NewerVersion ==
    ASSUME NEW v \in Nat, NEW x \in Nat, x >= 1, NEW a \in Int, NEW b, b = v + x - 1, ~(b >= a)
    PROVE  ~(a < v)
OBVIOUS

\* A queue that follows position p; what is acknowledged of it lies up to b.
Follows(rs, p) == \A i \in DOMAIN rs : rs[i].pos = p + i
AckedTo(rs, S, b) == \A i \in S : rs[i].pos <= b

LEMMA PartKnown ==
    ASSUME NEW l \in Seq(ChangeRecord), NEW T \in TopicState, NEW rs \in Seq(Queued),
           NEW S \in SUBSET (DOMAIN rs), NEW p \in Nat, NEW v \in Nat, NEW K \in SUBSET Key,
           QueueOK(l, rs, v), NEW U, U = Publish(T, rs, S), NEW lst \in Nat,
           KnownAll(l, T, p, v, K, lst), Follows(rs, p), NEW b \in Nat, b >= lst, AckedTo(rs, S, b)
    PROVE  KnownAll(l, U, p, v, K, b)
<1>2. \A i \in DOMAIN rs : rs[i].ver = v + i - 1
    BY DEF QueueOK
<1>3. ASSUME NEW k \in Key, Ahead(l, k, T[k], p, v, lst) PROVE Ahead(l, k, T[k], p, v, b)
    <2>1. T[k].kept.pos \in Nat
        BY DEF TopicState, TopicRecord
    <2> QED BY <1>3, <2>1 DEF Ahead
<1>4. ASSUME NEW k \in Key PROVE InStep(k, U[k], v, K) \/ Ahead(l, k, U[k], p, v, b)
    <2>0. InStep(k, T[k], v, K) \/ Ahead(l, k, T[k], p, v, lst)
        BY DEF KnownAll
    <2>1. CASE U[k] = T[k]
        BY <1>3, <2>0, <2>1
    <2>2. ASSUME NEW x \in S, rs[x].key = k, U[k].last = RecordOf(rs[x]),
                 U[k].kept = IF rs[x].ver >= T[k].kept.ver THEN RecordOf(rs[x]) ELSE T[k].kept
          PROVE  Ahead(l, k, U[k], p, v, b)
        <3>1. /\ x \in Nat /\ x >= 1 /\ rs[x].ver = v + x - 1 /\ rs[x].pos = p + x
              /\ rs[x].pos <= b /\ rs[x].key = l[rs[x].pos].key
            BY <1>2 DEF QueueOK, Follows, AckedTo
        <3>2. CASE rs[x].ver >= T[k].kept.ver
            <4>1. U[k].kept.pos = rs[x].pos /\ U[k].kept.ver = rs[x].ver
                BY <2>2, <3>2 DEF RecordOf
            <4>2. U[k].kept.pos = p + x /\ U[k].kept.ver = v + x - 1 /\ l[U[k].kept.pos].key = k
                BY <2>2, <3>1, <4>1
            <4>3. U[k].kept.ver = v + U[k].kept.pos - p - 1 /\ p < U[k].kept.pos /\ U[k].kept.pos <= b
                BY <3>1, <4>1, <4>2
            <4> QED BY <4>2, <4>3 DEF Ahead
        <3>3. CASE ~(rs[x].ver >= T[k].kept.ver)
            <4>1. T[k].kept.ver \in Int
                BY DEF TopicState, TopicRecord
            <4>2. ~InStep(k, T[k], v, K)
                <5>1. ~(T[k].kept.ver < v)
                    BY <3>1, <3>3, <4>1, NewerVersion
                <5> QED BY <5>1 DEF InStep
            <4>3. Ahead(l, k, T[k], p, v, b) /\ U[k].kept = T[k].kept
                BY <1>3, <2>0, <2>2, <3>3, <4>2
            <4> QED BY <4>3 DEF Ahead
        <3> QED BY <3>2, <3>3
    <2>3. KeyPublished(rs, S, k, T[k], U[k])
        BY <1>2, PublishedIs
    <2> QED BY <2>1, <2>2, <2>3 DEF KeyPublished
<1> QED BY <1>4 DEF KnownAll

\* The lemma for a queue that is acknowledged as a whole.
LEMMA WholePublishedIs ==
    ASSUME NEW T \in TopicState, NEW rs \in Seq(Queued), NEW v \in Nat,
           \A i \in DOMAIN rs : rs[i].ver = v + i - 1,
           NEW U, U = Publish(T, rs, DOMAIN rs), NEW k \in Key
    PROVE  KeyPublished(rs, DOMAIN rs, k, T[k], U[k])
<1>1. DOMAIN rs \in SUBSET (DOMAIN rs)
    OBVIOUS
<1> QED BY <1>1, PublishedIs

\* Arithmetic that the provers find in a small context only.
LEMMA Beyond ==
    ASSUME NEW p \in Nat, NEW at \in Nat, NEW x \in Nat, NEW q, q = p + x, NEW j \in q + 1..at
    PROVE  j \in Nat /\ j >= p + x + 1 /\ j \in p + 1..at
OBVIOUS

LEMMA NotBeyond ==
    ASSUME NEW p \in Nat, NEW x \in Nat, NEW j \in Nat, j >= p + x + 1, j - p <= x
    PROVE  FALSE
OBVIOUS

LEMMA WithinCount ==
    ASSUME NEW v \in Nat, NEW x \in Nat, NEW n \in Nat, x <= n, NEW w, w = v + n,
           NEW a, a = v + x - 1
    PROVE  a < w
OBVIOUS

LEMMA JustBeyond ==
    ASSUME NEW p \in Nat, NEW at \in Nat, NEW x \in Nat, NEW q \in Nat, q > p + x, q <= at
    PROVE  q \in p + x + 1..at
OBVIOUS

LEMMA VersionOrder ==
    ASSUME NEW v \in Nat, NEW p \in Nat, NEW x \in Nat, NEW q \in Nat, NEW a \in Int,
           a = v + q - p - 1, v + x - 1 < a
    PROVE  q > p + x
OBVIOUS

\* The whole queue of a session that resumed at p, stored at the stream's
\* position at.
WholeQueue(l, T, rs, p, v, K, lst, at, U, w, b) ==
    /\ l \in Seq(ChangeRecord) /\ TopicOK(l, T) /\ rs \in Seq(Queued) /\ p \in Nat /\ v \in Nat
    /\ K \in SUBSET Key /\ QueueOK(l, rs, v) /\ (\A i \in DOMAIN rs : rs[i].pos = p + i)
    /\ at \in Nat /\ at = p + Len(rs) /\ at <= Len(l) /\ w = v + Len(rs)
    /\ U = Publish(T, rs, DOMAIN rs) /\ lst \in Nat /\ KnownAll(l, T, p, v, K, lst)
    /\ b = (IF at >= lst THEN 0 ELSE lst) /\ GoodAll(l, T, p)

LEMMA WholeKnown ==
    ASSUME NEW l, NEW T, NEW rs, NEW p, NEW v, NEW K, NEW lst, NEW at, NEW U, NEW w, NEW b,
           WholeQueue(l, T, rs, p, v, K, lst, at, U, w, b)
    PROVE  KnownAll(l, U, at, w, KeysAfter(K, rs), b) /\ GoodAll(l, U, at)
<1>u. /\ l \in Seq(ChangeRecord) /\ TopicOK(l, T) /\ rs \in Seq(Queued) /\ p \in Nat /\ v \in Nat
      /\ K \in SUBSET Key /\ QueueOK(l, rs, v) /\ (\A i \in DOMAIN rs : rs[i].pos = p + i)
      /\ at \in Nat /\ at = p + Len(rs) /\ at <= Len(l) /\ w = v + Len(rs)
      /\ U = Publish(T, rs, DOMAIN rs) /\ lst \in Nat /\ KnownAll(l, T, p, v, K, lst)
      /\ b = (IF at >= lst THEN 0 ELSE lst) /\ GoodAll(l, T, p)
    BY DEF WholeQueue
<1> USE <1>u
<1>1. /\ T \in TopicState /\ Len(rs) \in Nat /\ DOMAIN rs = 1..Len(rs) /\ Len(l) \in Nat /\ w \in Nat
    BY DEF TopicOK
<1>2. \A i \in DOMAIN rs : rs[i].ver = v + i - 1 /\ Shows(l, rs[i].key, rs[i])
    BY <1>1, QueueShows
<1>3. ASSUME NEW j \in p + 1..at PROVE j - p \in DOMAIN rs /\ rs[j - p].key = l[j].key
    <2>0. j \in Int /\ p + 1 <= j /\ j <= p + Len(rs)
        BY <1>1
    <2>1. j - p \in 1..Len(rs)
        BY <1>1, <2>0
    <2>2. j - p \in DOMAIN rs
        BY <1>1, <2>1
    <2>3. rs[j - p].pos = p + (j - p)
        BY <2>2
    <2>4. rs[j - p].pos = j
        BY <2>0, <2>3
    <2> QED BY <2>2, <2>4 DEF QueueOK
<1>n. /\ p \in Nat /\ v \in Nat /\ at \in Nat /\ lst \in Nat /\ w \in Nat /\ Len(rs) \in Nat
      /\ at = p + Len(rs) /\ w = v + Len(rs) /\ b = IF at >= lst THEN 0 ELSE lst
    BY <1>1
<1>4. ASSUME NEW k \in Key
      PROVE  (InStep(k, U[k], w, KeysAfter(K, rs)) \/ Ahead(l, k, U[k], at, w, b)) /\ Good(l, k, U[k].kept, at)
    <2> DEFINE t == T[k].kept
    <2>0. /\ InStep(k, T[k], v, K) \/ Ahead(l, k, T[k], p, v, lst)
          /\ Good(l, k, t, p) /\ Shows(l, k, t)
        BY <1>1 DEF KnownAll, GoodAll, TopicOK
    <2>00. t.pos \in Nat /\ t.ver \in Int
        BY <1>1 DEF TopicState, TopicRecord
    <2>4. \/ (\A i \in DOMAIN rs : rs[i].key # k) /\ U[k] = T[k]
          \/ \E x \in DOMAIN rs :
                /\ rs[x].key = k /\ \A y \in DOMAIN rs : rs[y].key = k => y <= x
                /\ U[k].last = RecordOf(rs[x])
                /\ U[k].kept = IF rs[x].ver >= t.ver THEN RecordOf(rs[x]) ELSE t
        <3>1. \A i \in DOMAIN rs : rs[i].ver = v + i - 1
            BY <1>2
        <3>2. T \in TopicState
            BY <1>1
        <3>3. KeyPublished(rs, DOMAIN rs, k, T[k], U[k])
            BY <3>1, <3>2, WholePublishedIs
        <3> QED BY <3>3 DEF KeyPublished
    <2> HIDE <1>u
    <2>b. Ahead(l, k, T[k], p, v, lst) <=>
              p < t.pos /\ t.pos <= lst /\ t.ver = v + t.pos - p - 1 /\ l[t.pos].key = k
        BY DEF Ahead
    <2>c. InStep(k, T[k], v, K) => t.ver < v
        BY DEF InStep
    <2>d. t = T[k].kept
        OBVIOUS
    <2> HIDE DEF t
    <2>a. ASSUME t.pos > at, Ahead(l, k, T[k], p, v, lst), U[k].kept = t
          PROVE  Ahead(l, k, U[k], at, w, b) /\ Good(l, k, U[k].kept, at)
        <3>1. b = lst
            BY <1>n, <2>00, <2>a, <2>b
        <3>a. t.ver = v + t.pos - p - 1
            BY <2>a, <2>b
        <3>2. t.ver = w + t.pos - at - 1
            BY <1>n, <2>00, <3>a
        <3>3. \A j \in t.pos + 1..at : l[j].key # k
            BY <1>n, <2>00, <2>a
        <3>4. Good(l, k, t, at)
            BY <1>n, <1>u, <2>0, <2>00, <3>3, GoodHere
        <3> QED BY <2>a, <2>b, <3>1, <3>2, <3>4 DEF Ahead
    <2>1. CASE (\A i \in DOMAIN rs : rs[i].key # k) /\ U[k] = T[k]
        <3>0. \A j \in p + 1..at : l[j].key # k
            BY <1>3, <2>1
        <3>1. CASE InStep(k, T[k], v, K)
            <4>0. \A i \in DOMAIN rs : rs[i].ver = v + i - 1
                BY <1>2
            <4>1. InStep(k, U[k], w, KeysAfter(K, rs))
                BY <1>u, <1>1, <4>0, <3>1, InStepKept
            <4>2. PICK m \in 0..Len(l) : m >= t.pos /\ CurrentTo(l, k, [val |-> t.val, pos |-> m], p)
                BY <2>0 DEF Good
            <4>3. \A j \in m + 1..at : l[j].key # k
                <5> SUFFICES ASSUME NEW j \in m + 1..at PROVE l[j].key # k
                    OBVIOUS
                <5>1. j \in m + 1..p \/ j \in p + 1..at
                    BY <1>n
                <5> QED BY <3>0, <4>2, <5>1 DEF CurrentTo
            <4>4. CurrentTo(l, k, [val |-> t.val, pos |-> m], at)
                BY <4>2, <4>3 DEF CurrentTo
            <4>5. Good(l, k, t, at)
                BY <4>2, <4>4 DEF Good
            <4> QED BY <2>1, <2>d, <4>1, <4>5
        <3>2. CASE Ahead(l, k, T[k], p, v, lst)
            <4>1. t.pos > at
                <5>1. CASE t.pos <= at
                    <6>1. t.pos \in p + 1..at
                        BY <1>n, <2>00, <2>b, <3>2, <5>1
                    <6> QED BY <3>0, <2>b, <3>2, <6>1
                <5> QED BY <1>n, <2>00, <5>1
            <4> QED BY <2>1, <2>a, <2>d, <3>2, <4>1
        <3> QED BY <2>0, <3>1, <3>2
    <2>2. ASSUME NEW x \in DOMAIN rs, rs[x].key = k, \A y \in DOMAIN rs : rs[y].key = k => y <= x,
                 U[k].last = RecordOf(rs[x]),
                 U[k].kept = IF rs[x].ver >= t.ver THEN RecordOf(rs[x]) ELSE t
          PROVE  (InStep(k, U[k], w, KeysAfter(K, rs)) \/ Ahead(l, k, U[k], at, w, b)) /\ Good(l, k, U[k].kept, at)
        <3>1. x \in Nat /\ x >= 1 /\ x <= Len(rs) /\ rs[x].ver = v + x - 1 /\ rs[x].pos = p + x
            BY <1>u, <1>1, <1>2
        <3>2. \A j \in rs[x].pos + 1..at : l[j].key # k
            <4> SUFFICES ASSUME NEW j \in rs[x].pos + 1..at, l[j].key = k PROVE FALSE
                OBVIOUS
            <4>1. j \in Nat /\ j >= p + x + 1 /\ j \in p + 1..at
                <5>1. p \in Nat /\ at \in Nat /\ x \in Nat /\ rs[x].pos = p + x
                    BY <1>n, <3>1
                <5> QED BY <5>1, Beyond
            <4>2. j - p \in DOMAIN rs /\ rs[j - p].key = k
                BY <1>3, <4>1
            <4>3. j - p <= x
                BY <2>2, <4>2
            <4>4. p \in Nat /\ x \in Nat /\ j \in Nat /\ j >= p + x + 1
                BY <1>n, <3>1, <4>1
            <4> QED BY <4>3, <4>4, NotBeyond
        <3>3. CASE rs[x].ver >= t.ver
            <4>1. U[k].kept = RecordOf(rs[x]) /\ U[k].kept.pos = rs[x].pos /\ U[k].kept.val = rs[x].val
                  /\ U[k].kept.ver = rs[x].ver
                BY <2>2, <3>3 DEF RecordOf
            <4>2. k \in KeysAfter(K, rs) <=> rs[x].val # NoRow
                BY <1>u, <2>2, KeysAre
            <4>3. U[k].kept.ver < w
                <5>1. w = v + Len(rs) /\ v \in Nat /\ Len(rs) \in Nat /\ U[k].kept.ver = v + x - 1
                    BY <1>n, <3>1, <4>1
                <5>2. x \in Nat /\ x <= Len(rs)
                    BY <3>1
                <5> QED BY <5>1, <5>2, WithinCount
            <4>4. InStep(k, U[k], w, KeysAfter(K, rs))
                BY <2>2, <4>1, <4>2, <4>3 DEF InStep
            <4>5. Shows(l, k, U[k].kept)
                BY <1>2, <2>2, <4>1 DEF Shows
            <4>6. U[k].kept.pos \in Nat
                BY <1>n, <3>1, <4>1
            <4>7. \A j \in U[k].kept.pos + 1..at : l[j].key # k
                BY <3>2, <4>1
            <4>8. Good(l, k, U[k].kept, at)
                BY <1>n, <1>1, <1>u, <4>5, <4>6, <4>7, GoodHere
            <4> QED BY <4>4, <4>8
        <3>4. CASE ~(rs[x].ver >= t.ver)
            <4>1. U[k].kept = t
                BY <2>2, <3>4
            <4>2. ~InStep(k, T[k], v, K)
                <5>1. ~(t.ver < v)
                    BY <1>n, <2>00, <3>1, <3>4, NewerVersion
                <5> QED BY <2>c, <5>1
            <4>3. Ahead(l, k, T[k], p, v, lst)
                BY <2>0, <4>2
            <4>4. t.pos > p + x /\ l[t.pos].key = k
                <5>1. t.ver = v + t.pos - p - 1 /\ l[t.pos].key = k
                    BY <2>b, <4>3
                <5>2. v + x - 1 < t.ver
                    <6>1. rs[x].ver = v + x - 1 /\ v \in Nat /\ x \in Nat
                        BY <1>n, <3>1
                    <6> QED BY <2>00, <3>4, <6>1
                <5> QED BY <1>n, <2>00, <3>1, <5>1, <5>2, VersionOrder
            <4>5. t.pos > at
                <5>1. CASE t.pos <= at
                    <6>0. p \in Nat /\ at \in Nat /\ x \in Nat
                        BY <1>n, <3>1
                    <6>1. t.pos \in p + x + 1..at
                        BY <2>00, <4>4, <5>1, <6>0, JustBeyond
                    <6>2. \A j \in p + x + 1..at : l[j].key # k
                        BY <3>1, <3>2
                    <6> QED BY <4>4, <6>1, <6>2
                <5> QED BY <1>n, <2>00, <5>1
            <4> QED BY <2>a, <4>1, <4>3, <4>5
        <3> QED BY <3>3, <3>4
    <2> QED BY <2>1, <2>2, <2>4
<1> QED BY <1>4 DEF KnownAll, GoodAll

\* What a step leaves in the topic and in the store.
Outcome(l, T, S, d, lst, e, fl) ==
    /\ TopicOK(l, T) /\ S \subseteq 1..Len(l) /\ StoredOK(l, S, d, lst, e, fl)
    /\ KnownAll(l, T, Position(d.cursor), d.seq, d.keys, lst)
    /\ CanResume(d.cursor, e, fl) => GoodAll(l, T, Position(d.cursor))

\* The state that a checkpoint stores, and what is still lost after it.
Stored(m, d, c) == [cursor |-> IF c = NoCursor THEN d.cursor ELSE c, seq |-> m.st.seq,
                    keys |-> KeysAfter(m.st.keys, m.batch)]
StillLost(f, lst) == IF f.cursor # NoCursor /\ f.cursor.pos >= lst THEN 0 ELSE lst

LEMMA KafkaSessionFacts ==
    ASSUME NEW n \in Nat, NEW e \in Nat, NEW m \in KafkaSession(n, e)
    PROVE  /\ m.st \in KafkaState(n, e) /\ m.st.seq \in Nat /\ m.st.keys \in SUBSET Key
           /\ m.st.cursor \in CursorsTo(n, e) /\ m.batch \in Seq(Queued) /\ m.inReset \in BOOLEAN
           /\ m.seen \in SUBSET Key /\ m.last \in CursorsTo(n, e) /\ m.acked \in Nat /\ m.on
           /\ Len(m.batch) \in Nat /\ DOMAIN m.batch = 1..Len(m.batch)
<1>1. /\ m.st \in KafkaState(n, e) /\ m.batch \in Seq(Queued) /\ m.inReset \in BOOLEAN
      /\ m.seen \in SUBSET Key /\ m.last \in CursorsTo(n, e) /\ m.acked \in Nat /\ m.on \in {TRUE}
    BY DEF KafkaSession
<1>2. m.st.seq \in Nat /\ m.st.keys \in SUBSET Key /\ m.st.cursor \in CursorsTo(n, e)
    BY <1>1 DEF KafkaState
<1>3. Len(m.batch) \in Nat /\ DOMAIN m.batch = 1..Len(m.batch)
    BY <1>1
<1> QED BY <1>1, <1>2, <1>3

LEMMA StoredFacts ==
    ASSUME NEW n \in Nat, NEW e \in Nat, NEW d \in KafkaState(n, e)
    PROVE  /\ d.seq \in Nat /\ d.keys \in SUBSET Key /\ d.cursor \in CursorsTo(n, e)
           /\ Position(d.cursor) \in 0..n
           /\ d.cursor # NoCursor => /\ d.cursor.pos \in Nat /\ d.cursor.pos <= n /\ d.cursor.epoch \in Nat
                                     /\ Position(d.cursor) = d.cursor.pos
<1>1. d.seq \in Nat /\ d.keys \in SUBSET Key /\ d.cursor \in CursorsTo(n, e)
    BY DEF KafkaState
<1>2. d.cursor # NoCursor => d.cursor \in Cursor /\ d.cursor.pos <= n
    BY <1>1 DEF CursorsTo
<1>3. d.cursor # NoCursor => d.cursor.pos \in Nat /\ d.cursor.epoch \in Nat
    BY <1>2 DEF Cursor
<1> QED BY <1>1, <1>2, <1>3 DEF Position

LEMMA StoredTyped ==
    ASSUME NEW n \in Nat, NEW e \in Nat, NEW m \in KafkaSession(n, e), NEW d \in KafkaState(n, e),
           NEW c \in CursorsTo(n, e), NEW f, f = Stored(m, d, c)
    PROVE  /\ f \in KafkaState(n, e) /\ f.seq = m.st.seq /\ f.keys = KeysAfter(m.st.keys, m.batch)
           /\ f.cursor = IF c = NoCursor THEN d.cursor ELSE c
<1>1. m.st.seq \in Nat /\ KeysAfter(m.st.keys, m.batch) \in SUBSET Key
    <2>1. KeysAfter(m.st.keys, m.batch) \in SUBSET Key
        BY DEF KeysAfter
    <2> QED BY <2>1, KafkaSessionFacts
<1>2. d.cursor \in CursorsTo(n, e)
    BY StoredFacts
<1> QED BY <1>1, <1>2 DEF Stored, KafkaState

LEMMA ResumingQueue ==
    ASSUME NEW n \in Nat, NEW e \in Nat, NEW m \in KafkaSession(n, e), NEW d \in KafkaState(n, e),
           NEW l \in Seq(ChangeRecord), NEW T, NEW S, NEW s \in StreamState,
           KafkaSessionInv(l, T, S, m, d, s, e), m.acked = 0
    PROVE  /\ QueueOK(l, m.batch, d.seq) /\ m.st.seq = d.seq + Len(m.batch) /\ m.st.keys = d.keys
           /\ m.st.cursor = d.cursor
<1>1. m.st.keys = d.keys /\ m.st.seq = d.seq + Len(m.batch) /\ m.st.cursor = d.cursor
      /\ QueueOK(l, m.batch, m.st.seq - Len(m.batch))
    BY DEF KafkaSessionInv
<1>2. m.st.seq - Len(m.batch) = d.seq
    <2>1. d.seq \in Nat /\ Len(m.batch) \in Nat
        BY StoredFacts, KafkaSessionFacts
    <2> QED BY <1>1, <2>1
<1> QED BY <1>1, <1>2

\* A session with memory m and stream s, about to do its I/O; a checkpoint at
\* cursor c that is done; and one that fails when the records rs[i], i in Q,
\* were acknowledged.
Prepared(l, T, S, d, lst, e, fl, m, s) ==
    /\ l \in Seq(ChangeRecord) /\ TopicOK(l, T) /\ S \subseteq 1..Len(l) /\ e \in Nat /\ fl \in Nat
    /\ StoredOK(l, S, d, lst, e, fl) /\ m \in KafkaSession(Len(l), e)
    /\ s \in StreamState /\ s.at <= Len(l) /\ KafkaSessionInv(l, T, S, m, d, s, e)
    /\ RefusedOK(m, d, lst, s, e, fl)
    /\ s.phase \in {"resume", "live"} => GoodAll(l, T, Position(d.cursor))
    /\ m.acked = 0 => KnownAll(l, T, Position(d.cursor), d.seq, d.keys, lst)
Done(l, T, S, d, lst, m, c, R, f, b, U) ==
    /\ f = Stored(m, d, c) /\ b = StillLost(f, lst) /\ U = Publish(T, m.batch, DOMAIN m.batch)
    /\ S \cup Settles(l, m.batch) \subseteq R /\ R \subseteq 1..Len(l)
Partly(l, T, S, d, lst, e, fl, m, Q, R, b, U) ==
    /\ Q \in SUBSET (DOMAIN m.batch) /\ U = Publish(T, m.batch, Q) /\ S \subseteq R /\ R \subseteq 1..Len(l)
    /\ b \in Nat /\ b >= lst /\ b >= m.acked /\ AckedTo(m.batch, Q, b)
    /\ b = lst \/ b = m.acked \/ \E i \in Q : m.batch[i].pos = b
    /\ b > 0 => CanResume(d.cursor, e, fl)

\* A session that resumed checkpoints at the stream's position.
LEMMA LiveStored ==
    ASSUME NEW l, NEW T, NEW S, NEW d, NEW lst, NEW e, NEW fl, NEW m, NEW s,
           Prepared(l, T, S, d, lst, e, fl, m, s), s.phase \in {"resume", "live"},
           NEW c, c = [epoch |-> e, pos |-> s.at] \/ c = m.last,
           NEW R, NEW f, NEW b, NEW U, Done(l, T, S, d, lst, m, c, R, f, b, U)
    PROVE  /\ Outcome(l, U, R, f, b, e, fl) /\ GoodAll(l, U, s.at) /\ Position(f.cursor) = s.at
           /\ f.cursor # NoCursor
<1>u. /\ l \in Seq(ChangeRecord) /\ TopicOK(l, T) /\ e \in Nat /\ fl \in Nat
      /\ StoredOK(l, S, d, lst, e, fl) /\ m \in KafkaSession(Len(l), e)
      /\ s \in StreamState /\ s.at <= Len(l) /\ KafkaSessionInv(l, T, S, m, d, s, e)
      /\ GoodAll(l, T, Position(d.cursor))
      /\ KnownAll(l, T, Position(d.cursor), d.seq, d.keys, lst)
    BY DEF Prepared, KafkaSessionInv
<1>w. /\ f = Stored(m, d, c) /\ b = StillLost(f, lst) /\ U = Publish(T, m.batch, DOMAIN m.batch)
      /\ S \cup Settles(l, m.batch) \subseteq R /\ R \subseteq 1..Len(l)
    BY DEF Done
<1> USE <1>u, <1>w
<1>0. Len(l) \in Nat
    OBVIOUS
<1>1. d \in KafkaState(Len(l), e) /\ lst \in Nat
    BY DEF StoredOK
<1>2. m.acked = 0 /\ Resuming(m, d, s, e)
    BY DEF KafkaSessionInv
<1> DEFINE p == d.cursor.pos
           at == s.at
           v == d.seq
           K == d.keys
           rs == m.batch
<1>3. /\ d.cursor # NoCursor /\ p \in Nat /\ p <= Len(l) /\ Position(d.cursor) = p /\ v \in Nat
      /\ K \in SUBSET Key /\ d.cursor \in CursorsTo(Len(l), e)
    BY <1>0, <1>1, <1>2, StoredFacts DEF Resuming
<1>4. /\ QueueOK(l, rs, v) /\ m.st.seq = v + Len(rs) /\ m.st.keys = K
    BY <1>0, <1>1, <1>2, ResumingQueue
<1>5. /\ at \in Nat /\ rs \in Seq(Queued) /\ Len(rs) \in Nat /\ m.last \in CursorsTo(Len(l), e)
    BY <1>0, KafkaSessionFacts DEF StreamState
<1>6. p <= at /\ at = p + Len(rs) /\ (\A i \in DOMAIN rs : rs[i].pos = p + i)
      /\ (m.last # NoCursor => m.last = [epoch |-> e, pos |-> at]) /\ (m.last = NoCursor => p = at)
    BY <1>2, <1>3, <1>5 DEF Resuming
<1>7. [epoch |-> e, pos |-> at] \in CursorsTo(Len(l), e)
    BY <1>5 DEF CursorsTo, Cursor
<1>8. c \in CursorsTo(Len(l), e) /\ [epoch |-> e, pos |-> at] # NoCursor
    BY <1>5, <1>7, FeedAssumption
<1>9. /\ f \in KafkaState(Len(l), e) /\ f.seq = v + Len(rs) /\ f.keys = KeysAfter(K, rs)
      /\ f.cursor = IF c = NoCursor THEN d.cursor ELSE c
    BY <1>0, <1>1, <1>4, <1>8, StoredTyped
<1>10. \/ f.cursor = [epoch |-> e, pos |-> at]
       \/ f.cursor = d.cursor /\ p = at
    BY <1>6, <1>8, <1>9
<1>11. f.cursor # NoCursor /\ f.cursor.pos = at /\ Position(f.cursor) = at
    BY <1>3, <1>8, <1>10 DEF Position
<1>12. b = IF at >= lst THEN 0 ELSE lst
    BY <1>11 DEF StillLost
<1>13a. U = Publish(T, rs, DOMAIN rs)
    OBVIOUS
<1> HIDE DEF p, at, v, K, rs
<1>13. TopicOK(l, U)
    <2>1. \A i \in DOMAIN rs : Shows(l, rs[i].key, rs[i]) /\ rs[i].ver = v + i - 1
        BY <1>3, <1>4, <1>5, QueueShows
    <2>2. DOMAIN rs \in SUBSET (DOMAIN rs)
        OBVIOUS
    <2> QED BY <1>3, <1>5, <1>13a, <2>1, <2>2, PublishedShows
<1>14. KnownAll(l, U, at, f.seq, KeysAfter(K, rs), b) /\ GoodAll(l, U, at)
    <2>1. at <= Len(l) /\ U = Publish(T, rs, DOMAIN rs) /\ KnownAll(l, T, p, v, K, lst) /\ GoodAll(l, T, p)
        BY <1>3 DEF at, rs, p, v, K
    <2>2. WholeQueue(l, T, rs, p, v, K, lst, at, U, f.seq, b)
        BY <1>1, <1>3, <1>4, <1>5, <1>6, <1>9, <1>12, <2>1 DEF WholeQueue
    <2> QED BY <2>2, WholeKnown
<1>15. Covers(f.cursor, R)
    <2> SUFFICES ASSUME NEW j \in 1..at PROVE j \in R
        BY <1>11 DEF Covers
    <2>1. CASE j <= p
        <3>1. j \in 1..p
            BY <1>3, <1>5, <2>1
        <3>2. 1..p \subseteq S
            BY <1>3 DEF StoredOK, Covers, p
        <3> QED BY <3>1, <3>2
    <2>2. CASE ~(j <= p)
        <3>1. j - p \in 1..Len(rs)
            BY <1>3, <1>5, <1>6, <2>2
        <3>2. j - p \in DOMAIN rs
            BY <1>5, <3>1
        <3>3. rs[j - p].pos = j
            <4>1. rs[j - p].pos = p + (j - p)
                BY <1>6, <3>2
            <4> QED BY <1>3, <4>1
        <3>4. j \in 1..Len(l) /\ rs[j - p].key = l[j].key
            BY <1>4, <3>2, <3>3 DEF QueueOK
        <3>5. j <= rs[j - p].pos
            BY <3>3
        <3>6. j \in Settles(l, rs)
            BY <3>2, <3>4, <3>5 DEF Settles
        <3> QED BY <3>6 DEF rs
    <2> QED BY <2>1, <2>2
<1>16. b > 0 => CanResume(f.cursor, e, fl) /\ at < b
    <2> SUFFICES ASSUME b > 0 PROVE CanResume(f.cursor, e, fl) /\ at < b
        OBVIOUS
    <2>1. b = lst /\ lst > 0 /\ at < lst
        BY <1>1, <1>5, <1>12
    <2>2. CanResume(d.cursor, e, fl)
        BY <2>1 DEF StoredOK
    <2>3. d.cursor.epoch = e /\ p >= fl
        BY <2>2 DEF CanResume, p
    <2>4. at >= fl
        BY <1>3, <1>5, <1>6, <2>3
    <2>5. f.cursor.epoch = e
        BY <1>10, <2>3
    <2> QED BY <1>11, <2>1, <2>4, <2>5 DEF CanResume
<1>17. StoredOK(l, R, f, b, e, fl)
    <2>1. b \in Nat
        BY <1>1, <1>12
    <2> QED BY <1>9, <1>11, <1>15, <1>16, <2>1 DEF StoredOK
<1>18. KnownAll(l, U, Position(f.cursor), f.seq, f.keys, b)
    BY <1>9, <1>11, <1>14
<1>19. GoodAll(l, U, Position(f.cursor))
    BY <1>11, <1>14
<1> QED BY <1>11, <1>13, <1>14, <1>17, <1>18, <1>19 DEF Outcome, at

\* A session that resumed ends after some of its records were acknowledged.
LEMMA LivePart ==
    ASSUME NEW l, NEW T, NEW S, NEW d, NEW lst, NEW e, NEW fl, NEW m, NEW s,
           Prepared(l, T, S, d, lst, e, fl, m, s), s.phase \in {"resume", "live"},
           NEW Q, NEW R, NEW b, NEW U, Partly(l, T, S, d, lst, e, fl, m, Q, R, b, U)
    PROVE  Outcome(l, U, R, d, b, e, fl)
<1>u. /\ l \in Seq(ChangeRecord) /\ TopicOK(l, T) /\ e \in Nat /\ fl \in Nat
      /\ StoredOK(l, S, d, lst, e, fl) /\ m \in KafkaSession(Len(l), e)
      /\ s \in StreamState /\ KafkaSessionInv(l, T, S, m, d, s, e)
      /\ GoodAll(l, T, Position(d.cursor)) /\ m.acked = 0
      /\ KnownAll(l, T, Position(d.cursor), d.seq, d.keys, lst)
    BY DEF Prepared, KafkaSessionInv
<1>w. /\ Q \in SUBSET (DOMAIN m.batch) /\ U = Publish(T, m.batch, Q) /\ S \subseteq R /\ R \subseteq 1..Len(l)
      /\ b \in Nat /\ b >= lst /\ AckedTo(m.batch, Q, b)
      /\ b = lst \/ b = 0 \/ \E i \in Q : m.batch[i].pos = b
      /\ b > 0 => CanResume(d.cursor, e, fl)
    BY <1>u DEF Partly
<1> USE <1>u, <1>w
<1>0. Len(l) \in Nat
    OBVIOUS
<1>1. d \in KafkaState(Len(l), e) /\ lst \in Nat
    BY DEF StoredOK
<1>2. m.acked = 0 /\ Resuming(m, d, s, e)
    BY DEF KafkaSessionInv
<1> DEFINE p == d.cursor.pos
           v == d.seq
           K == d.keys
           rs == m.batch
<1>3. d.cursor # NoCursor /\ p \in Nat /\ Position(d.cursor) = p /\ v \in Nat /\ K \in SUBSET Key
    BY <1>0, <1>1, <1>2, StoredFacts DEF Resuming
<1>4. QueueOK(l, rs, v) /\ rs \in Seq(Queued) /\ \A i \in DOMAIN rs : rs[i].pos = p + i
    BY <1>0, <1>1, <1>2, ResumingQueue, KafkaSessionFacts DEF Resuming
<1>5. T \in TopicState
    BY DEF TopicOK
<1>6. /\ KnownAll(l, T, p, v, K, lst) /\ GoodAll(l, T, p) /\ Q \in SUBSET (DOMAIN rs)
      /\ U = Publish(T, rs, Q) /\ AckedTo(rs, Q, b)
      /\ (b = lst \/ b = 0 \/ \E i \in Q : rs[i].pos = b)
    BY <1>3
<1> HIDE DEF p, v, K, rs
<1>7. \A i \in DOMAIN rs : rs[i].pos > p
    <2> SUFFICES ASSUME NEW i \in DOMAIN rs PROVE rs[i].pos > p
        OBVIOUS
    <2>1. i \in Nat /\ i >= 1 /\ rs[i].pos = p + i
        BY <1>4
    <2> QED BY <1>3, <2>1
<1>8. TopicOK(l, U)
    <2>1. \A i \in DOMAIN rs : Shows(l, rs[i].key, rs[i]) /\ rs[i].ver = v + i - 1
        BY <1>3, <1>4, QueueShows
    <2> QED BY <1>3, <1>4, <1>6, <2>1, PublishedShows
<1>9. KnownAll(l, U, p, v, K, b)
    <2>1. Follows(rs, p) /\ AckedTo(rs, Q, b)
        BY <1>4, <1>6 DEF Follows
    <2> QED BY <1>1, <1>3, <1>4, <1>5, <1>6, <2>1, PartKnown
<1>10. GoodAll(l, U, p)
    BY <1>3, <1>4, <1>6, <1>7, PartGood
<1>11. b > 0 => p < b
    <2>1. CASE b = lst
        BY <1>3, <2>1 DEF StoredOK
    <2>2. CASE \E i \in Q : rs[i].pos = b
        BY <1>6, <1>7, <2>2
    <2> QED BY <1>6, <2>1, <2>2
<1>12. StoredOK(l, R, d, b, e, fl)
    BY <1>1, <1>3, <1>11 DEF StoredOK, Covers
<1> QED BY <1>3, <1>8, <1>9, <1>10, <1>12 DEF Outcome, p, v, K

\* A queue that is acknowledged as a whole keeps a state in step.
Numbered(rs, v) == \A i \in DOMAIN rs : rs[i].ver = v + i - 1
InStepQueue(T, rs, v, K, U, w) ==
    /\ T \in TopicState /\ rs \in Seq(Queued) /\ v \in Nat /\ K \in SUBSET Key /\ Numbered(rs, v)
    /\ InStepAll(T, v, K) /\ U = Publish(T, rs, DOMAIN rs) /\ w = v + Len(rs)

LEMMA InStepAllKept ==
    ASSUME NEW T, NEW rs, NEW v, NEW K, NEW U, NEW w, InStepQueue(T, rs, v, K, U, w)
    PROVE  InStepAll(U, w, KeysAfter(K, rs)) /\ \A k \in Key : KeyMoved(rs, k, T[k], U[k])
<1>1. /\ T \in TopicState /\ rs \in Seq(Queued) /\ v \in Nat /\ K \in SUBSET Key
      /\ U = Publish(T, rs, DOMAIN rs) /\ w = v + Len(rs) /\ \A i \in DOMAIN rs : rs[i].ver = v + i - 1
    BY DEF InStepQueue, Numbered
<1>2. ASSUME NEW k \in Key PROVE InStep(k, U[k], w, KeysAfter(K, rs)) /\ KeyMoved(rs, k, T[k], U[k])
    <2>1. InStep(k, T[k], v, K)
        BY DEF InStepQueue, InStepAll
    <2>2. InStep(k, U[k], v + Len(rs), KeysAfter(K, rs)) /\ KeyMoved(rs, k, T[k], U[k])
        BY <1>1, <2>1, InStepKept
    <2> QED BY <1>1, <2>2
<1> QED BY <1>2 DEF InStepAll

\* Nothing is out of step when nothing is lost.
LEMMA NothingAhead ==
    ASSUME NEW l, NEW T \in TopicState, NEW p \in Nat, NEW v, NEW K, KnownAll(l, T, p, v, K, 0)
    PROVE  InStepAll(T, v, K)
<1> SUFFICES ASSUME NEW k \in Key PROVE InStep(k, T[k], v, K)
    BY DEF InStepAll
<1>1. T[k].kept.pos \in Nat
    BY DEF TopicState, TopicRecord
<1>2. ~Ahead(l, k, T[k], p, v, 0)
    BY <1>1 DEF Ahead
<1> QED BY <1>2 DEF KnownAll

LEMMA InStepKnown ==
    ASSUME NEW l, NEW T, NEW p, NEW v, NEW K, NEW lst, InStepAll(T, v, K)
    PROVE  KnownAll(l, T, p, v, K, lst)
BY DEF InStepAll, KnownAll

\* The queue of a session whose cursor is refused, acknowledged as a whole.
LEMMA RefusedInStep ==
    ASSUME NEW l, NEW T, NEW S, NEW d, NEW lst, NEW e, NEW fl, NEW m, NEW s,
           Prepared(l, T, S, d, lst, e, fl, m, s), s.phase \in {"reset", "replay", "closed"}
    PROVE  /\ lst = 0 /\ ~CanResume(d.cursor, e, fl) /\ d \in KafkaState(Len(l), e)
           /\ m.st.seq - Len(m.batch) \in Nat /\ QueueOK(l, m.batch, m.st.seq - Len(m.batch))
           /\ InStepAll(T, m.st.seq - Len(m.batch), m.st.keys)
<1>1. lst = 0 /\ ~CanResume(d.cursor, e, fl)
    BY DEF Prepared, RefusedOK
<1>2. /\ Len(l) \in Nat /\ e \in Nat /\ m \in KafkaSession(Len(l), e) /\ d \in KafkaState(Len(l), e)
      /\ T \in TopicState /\ l \in Seq(ChangeRecord) /\ s \in StreamState
      /\ KafkaSessionInv(l, T, S, m, d, s, e)
    BY DEF Prepared, StoredOK, TopicOK
<1>3. Len(m.batch) <= m.st.seq /\ QueueOK(l, m.batch, m.st.seq - Len(m.batch))
    BY <1>2 DEF KafkaSessionInv
<1>4. m.st.seq \in Nat /\ Len(m.batch) \in Nat
    BY <1>2, KafkaSessionFacts
<1>5. CASE s.phase = "replay"
    <2>1. InStepAll(T, m.st.seq - Len(m.batch), m.st.keys)
        BY <1>2, <1>5 DEF KafkaSessionInv, Replaying
    <2> QED BY <1>1, <1>2, <1>3, <1>4, <2>1
<1>6. CASE s.phase # "replay"
    <2>1. m.acked = 0 /\ KnownAll(l, T, Position(d.cursor), d.seq, d.keys, 0)
        BY <1>1, <1>2, <1>6 DEF KafkaSessionInv, Prepared
    <2>2. Position(d.cursor) \in 0..Len(l) /\ d.seq \in Nat
        BY <1>2, StoredFacts
    <2>3. InStepAll(T, d.seq, d.keys)
        BY <1>2, <2>1, <2>2, NothingAhead
    <2>4. m.st.seq = d.seq + Len(m.batch) /\ m.st.keys = d.keys
        BY <1>2, <2>1, ResumingQueue
    <2>5. m.st.seq - Len(m.batch) = d.seq
        BY <1>4, <2>2, <2>4
    <2> QED BY <1>1, <1>2, <1>3, <1>4, <2>3, <2>4, <2>5
<1> QED BY <1>5, <1>6

LEMMA QueueNumbered ==
    ASSUME NEW l, NEW rs, NEW v, QueueOK(l, rs, v)
    PROVE  Numbered(rs, v)
BY DEF QueueOK, Numbered

LEMMA RefusedPublished ==
    ASSUME NEW l, NEW T, NEW S, NEW d, NEW lst, NEW e, NEW fl, NEW m, NEW s,
           Prepared(l, T, S, d, lst, e, fl, m, s), s.phase \in {"reset", "replay", "closed"},
           NEW U, U = Publish(T, m.batch, DOMAIN m.batch)
    PROVE  /\ TopicOK(l, U) /\ InStepAll(U, m.st.seq, KeysAfter(m.st.keys, m.batch))
           /\ \A k \in Key : KeyMoved(m.batch, k, T[k], U[k])
<1> DEFINE v == m.st.seq - Len(m.batch)
           K == m.st.keys
           rs == m.batch
<1>1. v \in Nat /\ QueueOK(l, rs, v) /\ InStepAll(T, v, K)
    BY RefusedInStep
<1>2. /\ Len(l) \in Nat /\ e \in Nat /\ m \in KafkaSession(Len(l), e) /\ TopicOK(l, T) /\ T \in TopicState
      /\ l \in Seq(ChangeRecord)
    BY DEF Prepared, TopicOK
<1>3. K \in SUBSET Key /\ rs \in Seq(Queued) /\ m.st.seq \in Nat /\ Len(rs) \in Nat
    BY <1>2, KafkaSessionFacts
<1>4. m.st.seq = v + Len(rs)
    BY <1>3
<1> HIDE DEF v, K, rs
<1>5. \A i \in DOMAIN rs : Shows(l, rs[i].key, rs[i]) /\ rs[i].ver = v + i - 1
    BY <1>1, <1>2, <1>3, QueueShows
<1>6. U = Publish(T, rs, DOMAIN rs)
    BY DEF rs
<1>7. TopicOK(l, U)
    <2>1. DOMAIN rs \in SUBSET (DOMAIN rs)
        OBVIOUS
    <2> QED BY <1>1, <1>2, <1>3, <1>5, <1>6, <2>1, PublishedShows
<1>8. InStepQueue(T, rs, v, K, U, m.st.seq)
    BY <1>1, <1>2, <1>3, <1>4, <1>6, QueueNumbered DEF InStepQueue
<1>9. InStepAll(U, m.st.seq, KeysAfter(K, rs)) /\ \A k \in Key : KeyMoved(rs, k, T[k], U[k])
    BY <1>8, InStepAllKept
<1> QED BY <1>7, <1>9 DEF K, rs

LEMMA RefusedStored ==
    ASSUME NEW l, NEW T, NEW S, NEW d, NEW lst, NEW e, NEW fl, NEW m, NEW s,
           Prepared(l, T, S, d, lst, e, fl, m, s), s.phase \in {"replay", "closed"},
           NEW c, c = NoCursor \/ (s.phase = "closed" /\ c = m.last),
           NEW R, NEW f, NEW b, NEW U, Done(l, T, S, d, lst, m, c, R, f, b, U)
    PROVE  /\ Outcome(l, U, R, f, b, e, fl) /\ b = 0 /\ ~CanResume(f.cursor, e, fl)
<1>1. /\ lst = 0 /\ ~CanResume(d.cursor, e, fl) /\ d \in KafkaState(Len(l), e)
    BY RefusedInStep
<1>2. /\ f = Stored(m, d, c) /\ b = StillLost(f, lst) /\ U = Publish(T, m.batch, DOMAIN m.batch)
      /\ S \cup Settles(l, m.batch) \subseteq R /\ R \subseteq 1..Len(l)
    BY DEF Done
<1>3. /\ Len(l) \in Nat /\ e \in Nat /\ m \in KafkaSession(Len(l), e)
      /\ KafkaSessionInv(l, T, S, m, d, s, e) /\ StoredOK(l, S, d, lst, e, fl)
    BY DEF Prepared
<1>4. c \in CursorsTo(Len(l), e)
    <2>1. m.last \in CursorsTo(Len(l), e) /\ NoCursor \in CursorsTo(Len(l), e)
        BY <1>3, KafkaSessionFacts DEF CursorsTo
    <2> QED BY <2>1
<1>5. /\ f \in KafkaState(Len(l), e) /\ f.seq = m.st.seq /\ f.keys = KeysAfter(m.st.keys, m.batch)
      /\ f.cursor = IF c = NoCursor THEN d.cursor ELSE c
    BY <1>1, <1>2, <1>3, <1>4, StoredTyped
<1>6. b = 0
    BY <1>1, <1>2 DEF StillLost
<1>7. ~CanResume(f.cursor, e, fl)
    BY <1>1, <1>5 DEF Prepared, RefusedOK
<1>8. Covers(f.cursor, R)
    BY <1>2, <1>3, <1>5 DEF Covers, StoredOK, KafkaSessionInv
<1>9. TopicOK(l, U) /\ InStepAll(U, f.seq, f.keys)
    BY <1>2, <1>5, RefusedPublished
<1>10. KnownAll(l, U, Position(f.cursor), f.seq, f.keys, b)
    BY <1>9, InStepKnown
<1>11. StoredOK(l, R, f, b, e, fl)
    BY <1>5, <1>6, <1>8 DEF StoredOK
<1> QED BY <1>2, <1>6, <1>7, <1>9, <1>10, <1>11 DEF Outcome

\* A session whose cursor is refused fails: it cannot have published anything.
LEMMA PublishNothing ==
    ASSUME NEW T \in TopicState, NEW rs
    PROVE  Publish(T, rs, {}) = T
BY DEF Publish, TopicState

LEMMA RefusedPart ==
    ASSUME NEW l, NEW T, NEW S, NEW d, NEW lst, NEW e, NEW fl, NEW m, NEW s,
           Prepared(l, T, S, d, lst, e, fl, m, s), s.phase \in {"reset", "replay", "closed"},
           NEW rs \in Seq(Queued), \A i \in DOMAIN rs : rs[i].pos > 0,
           NEW Q \in SUBSET (DOMAIN rs), NEW b \in Nat, b >= m.acked, AckedTo(rs, Q, b),
           b > 0 => CanResume(d.cursor, e, fl), NEW R, S \subseteq R, R \subseteq 1..Len(l),
           NEW U, U = Publish(T, rs, Q)
    PROVE  Outcome(l, U, R, d, b, e, fl)
<1>1. lst = 0 /\ ~CanResume(d.cursor, e, fl) /\ b = 0
    BY RefusedInStep
<1>2. Q = {}
    <2> SUFFICES ASSUME NEW i \in Q PROVE FALSE
        OBVIOUS
    <2>1. rs[i].pos > 0 /\ rs[i].pos <= 0 /\ rs[i] \in Queued
        BY <1>1 DEF AckedTo
    <2> QED BY <2>1 DEF Queued
<1>3. T \in TopicState
    BY DEF Prepared, TopicOK
<1>4. U = T
    BY <1>2, <1>3, PublishNothing
<1>5. m.acked = 0
    <2>1. m.acked \in Nat
        <3>1. Len(l) \in Nat /\ e \in Nat /\ m \in KafkaSession(Len(l), e)
            BY DEF Prepared
        <3> QED BY <3>1, KafkaSessionFacts
    <2> QED BY <1>1, <2>1
<1> QED BY <1>1, <1>4, <1>5 DEF Outcome, Prepared, StoredOK, Covers

LEMMA LiveUnique ==
    ASSUME NEW l, NEW n \in Nat, NEW i \in LiveAt(l, n), NEW j \in LiveAt(l, n), l[i].key = l[j].key
    PROVE  i = j
<1>1. i \in 1..n /\ j \in 1..n /\ (\A x \in i + 1..n : l[x].key # l[i].key)
      /\ (\A x \in j + 1..n : l[x].key # l[j].key)
    BY DEF LiveAt
<1>2. ~(i < j) /\ ~(j < i)
    BY <1>1
<1> QED BY <1>1, <1>2

\* A replay goes on after its queue was acknowledged.
LEMMA ReplayPublished ==
    ASSUME NEW l, NEW T, NEW S, NEW d, NEW lst, NEW e, NEW fl, NEW m, NEW s,
           Prepared(l, T, S, d, lst, e, fl, m, s), s.phase = "replay",
           NEW U, U = Publish(T, m.batch, DOMAIN m.batch),
           NEW R, S \cup Settles(l, m.batch) \subseteq R,
           NEW h, h.batch = <<>>, h.st.seq = m.st.seq, h.st.keys = KeysAfter(m.st.keys, m.batch),
           h.inReset, h.seen = m.seen, h.last = m.last
    PROVE  Replaying(l, U, R, h, s)
<1>1. /\ InStepAll(U, m.st.seq, KeysAfter(m.st.keys, m.batch))
      /\ \A k \in Key : KeyMoved(m.batch, k, T[k], U[k])
    BY RefusedPublished
<1>2. /\ Len(l) \in Nat /\ e \in Nat /\ m \in KafkaSession(Len(l), e) /\ l \in Seq(ChangeRecord)
      /\ s \in StreamState /\ s.at <= Len(l) /\ s.at \in Nat /\ T \in TopicState
    BY DEF Prepared, StreamState, TopicOK
<1>3. Replaying(l, T, S, m, s) /\ QueueOK(l, m.batch, m.st.seq - Len(m.batch))
    BY DEF Prepared, KafkaSessionInv
<1>4. m.st.seq \in Nat /\ m.batch \in Seq(Queued)
    BY <1>2, KafkaSessionFacts
<1>5. DOMAIN h.batch = {} /\ Len(h.batch) = 0 /\ h.st.seq - Len(h.batch) = m.st.seq
    BY <1>4
<1>6. ASSUME NEW k \in Key, NEW x \in DOMAIN m.batch, m.batch[x].key = k, U[k].kept = RecordOf(m.batch[x])
      PROVE  U[k].kept.pos \in LiveAt(l, s.at) /\ l[U[k].kept.pos].key = k
    BY <1>3, <1>6 DEF RecordOf, Replaying, QueueOK
<1>7. ASSUME NEW k \in Key PROVE U[k].kept.pos <= s.at
    <2>1. CASE U[k] = T[k]
        BY <1>3, <2>1 DEF Replaying
    <2>2. ASSUME NEW x \in DOMAIN m.batch, m.batch[x].key = k, U[k].kept = RecordOf(m.batch[x])
          PROVE  U[k].kept.pos <= s.at
        BY <1>2, <1>6, <2>2 DEF LiveAt
    <2> QED BY <1>1, <2>1, <2>2 DEF KeyMoved
<1>8. ASSUME NEW i \in LiveAt(l, s.at) \ s.todo
      PROVE  {j \in 1..i : l[j].key = l[i].key} \subseteq R /\ U[l[i].key].kept.pos = i
    <2>1. {j \in 1..i : l[j].key = l[i].key} \subseteq R
        BY <1>3 DEF Replaying
    <2> DEFINE k == l[i].key
    <2>2. k \in Key /\ i \in LiveAt(l, s.at)
        <3>1. i \in 1..Len(l)
            BY <1>2 DEF LiveAt
        <3>2. l[i] \in ChangeRecord
            BY <1>2, <3>1
        <3> QED BY <3>2 DEF ChangeRecord
    <2>3. T[k].kept.pos = i \/ \E j \in DOMAIN m.batch : m.batch[j].pos = i
        BY <1>3 DEF Replaying
    <2>4. CASE (\A j \in DOMAIN m.batch : m.batch[j].key # k) /\ U[k] = T[k]
        BY <1>3, <2>1, <2>3, <2>4 DEF QueueOK
    <2>5. ASSUME NEW x \in DOMAIN m.batch, m.batch[x].key = k, U[k].kept = RecordOf(m.batch[x])
          PROVE  U[k].kept.pos = i
        <3>1. U[k].kept.pos \in LiveAt(l, s.at) /\ l[U[k].kept.pos].key = l[i].key
            BY <1>6, <2>2, <2>5
        <3> HIDE DEF k
        <3> QED BY <1>2, <2>2, <3>1, LiveUnique
    <2> QED BY <1>1, <2>1, <2>2, <2>4, <2>5 DEF KeyMoved
<1>9. h.seen = {l[i].key : i \in LiveAt(l, s.at) \ s.todo} /\ h.last = NoCursor
      /\ s.todo \subseteq LiveAt(l, s.at)
    BY <1>3 DEF Replaying
<1>10. InStepAll(U, h.st.seq - Len(h.batch), h.st.keys)
    BY <1>1, <1>5
<1> QED BY <1>5, <1>7, <1>8, <1>9, <1>10 DEF Replaying

\* Produced and Checkpointed, field by field.
LEMMA ProducedIs ==
    ASSUME NEW n \in Nat, NEW e \in Nat, NEW m \in KafkaSession(n, e), NEW h, h = Produced(m)
    PROVE  /\ h \in KafkaSession(n, e) /\ h.batch = <<>> /\ h.st.seq = m.st.seq /\ h.st.cursor = m.st.cursor
           /\ h.st.keys = KeysAfter(m.st.keys, m.batch) /\ (h.inReset <=> m.inReset) /\ h.seen = m.seen
           /\ h.last = m.last /\ h.acked = m.acked
<1> DEFINE K == KeysAfter(m.st.keys, m.batch)
           t == [m.st EXCEPT !.keys = K]
<1>0. m.st \in KafkaState(n, e) /\ K \in SUBSET Key
    <2>1. K \in SUBSET Key
        BY DEF KeysAfter
    <2> QED BY <2>1, KafkaSessionFacts
<1>1. h = [[m EXCEPT !.st = t] EXCEPT !.batch = <<>>]
    BY DEF Produced, KafkaSession, KafkaState
<1> HIDE DEF K
<1>2. t \in KafkaState(n, e) /\ t.seq = m.st.seq /\ t.cursor = m.st.cursor /\ t.keys = K
    BY <1>0 DEF KafkaState
<1> HIDE DEF t
<1>3. <<>> \in Seq(Queued)
    OBVIOUS
<1>4. h \in KafkaSession(n, e)
    BY <1>1, <1>2, <1>3 DEF KafkaSession
<1>5. h.batch = <<>> /\ h.st = t /\ h.seen = m.seen /\ h.last = m.last /\ h.acked = m.acked
    BY <1>1 DEF KafkaSession
<1>6. h.inReset <=> m.inReset
    BY <1>1 DEF KafkaSession
<1> QED BY <1>2, <1>4, <1>5, <1>6 DEF K

LEMMA CheckpointedIs ==
    ASSUME NEW n \in Nat, NEW e \in Nat, NEW m \in KafkaSession(n, e), NEW d, m.st.cursor = d.cursor, NEW c
    PROVE  Checkpointed(m, c) = Stored(m, d, c)
<1> DEFINE h == Produced(m)
<1>1. h \in KafkaSession(n, e) /\ h.st.seq = m.st.seq /\ h.st.cursor = m.st.cursor
      /\ h.st.keys = KeysAfter(m.st.keys, m.batch)
    BY ProducedIs
<1>2. Checkpointed(m, c) = [h.st EXCEPT !.cursor = IF c = NoCursor THEN @ ELSE c]
    BY DEF Checkpointed
<1> HIDE DEF h
<1>3. h.st \in KafkaState(n, e)
    BY <1>1, KafkaSessionFacts
<1> QED BY <1>1, <1>2, <1>3 DEF Stored, KafkaState

NextSession(m, f, a) == [[Produced(m) EXCEPT !.st = f] EXCEPT !.acked = a]

LEMMA NextSessionIs ==
    ASSUME NEW n \in Nat, NEW e \in Nat, NEW m \in KafkaSession(n, e), NEW f \in KafkaState(n, e),
           NEW a \in Nat, NEW h, h = NextSession(m, f, a)
    PROVE  /\ h \in KafkaSession(n, e) /\ h.batch = <<>> /\ h.st = f /\ (h.inReset <=> m.inReset)
           /\ h.seen = m.seen /\ h.last = m.last /\ h.acked = a
<1> DEFINE g == Produced(m)
<1>0. g = Produced(m)
    OBVIOUS
<1> HIDE DEF g
<1>1. /\ g \in KafkaSession(n, e) /\ g.batch = <<>> /\ g.st.seq = m.st.seq /\ g.st.cursor = m.st.cursor
      /\ g.st.keys = KeysAfter(m.st.keys, m.batch) /\ (g.inReset <=> m.inReset) /\ g.seen = m.seen
      /\ g.last = m.last /\ g.acked = m.acked
    BY <1>0, ProducedIs
<1>2. h = [[g EXCEPT !.st = f] EXCEPT !.acked = a]
    BY DEF g, NextSession
<1>3. h \in KafkaSession(n, e)
    BY <1>1, <1>2 DEF KafkaSession
<1>4. h.batch = g.batch /\ h.st = f /\ h.seen = g.seen /\ h.last = g.last /\ h.acked = a
    BY <1>1, <1>2 DEF KafkaSession
<1>5. h.inReset <=> g.inReset
    BY <1>1, <1>2 DEF KafkaSession
<1> QED BY <1>1, <1>3, <1>4, <1>5

LEMMA KafkaFacts ==
    ASSUME KafkaInv
    PROVE  /\ FeedOK /\ StreamOK /\ consumer = "kafka" /\ Len(log) \in Nat /\ epoch \in Nat /\ floor \in Nat
           /\ faults \in Nat /\ log \in Seq(ChangeRecord) /\ stream \in StreamState /\ stream.at \in Nat
           /\ stream.at <= Len(log) /\ kdur \in KafkaState(Len(log), epoch) /\ lost \in Nat
           /\ topic \in TopicState
           /\ ksess.on => Prepared(log, topic, settled, kdur, lost, epoch, floor, ksess, stream)
           /\ ~ksess.on => /\ ksess = KIdle /\ stream.phase = "off"
                           /\ Outcome(log, topic, settled, kdur, lost, epoch, floor)
<1>1. /\ FeedOK /\ StreamOK /\ consumer = "kafka" /\ Len(log) \in Nat /\ epoch \in Nat /\ floor \in Nat
      /\ faults \in Nat /\ log \in Seq(ChangeRecord) /\ stream \in StreamState /\ stream.at <= Len(log)
    BY DEF KafkaInv, FeedOK
<1>2. stream.at \in Nat
    BY <1>1 DEF StreamState
<1>3. kdur \in KafkaState(Len(log), epoch) /\ lost \in Nat /\ topic \in TopicState
    BY DEF KafkaInv, StoredOK, TopicOK
<1>4. CASE ksess = KIdle /\ stream.phase = "off" /\ KnownAll(log, topic, Position(kdur.cursor), kdur.seq, kdur.keys, lost)
    <2>1. ~ksess.on
        BY <1>4 DEF KIdle
    <2>2. Outcome(log, topic, settled, kdur, lost, epoch, floor)
        BY <1>4 DEF KafkaInv, Outcome
    <2> QED BY <1>1, <1>2, <1>3, <1>4, <2>1, <2>2
<1>5. CASE /\ ksess \in KafkaSession(Len(log), epoch)
           /\ KafkaSessionInv(log, topic, settled, ksess, kdur, stream, epoch)
           /\ RefusedOK(ksess, kdur, lost, stream, epoch, floor)
           /\ ksess.acked = 0 => KnownAll(log, topic, Position(kdur.cursor), kdur.seq, kdur.keys, lost)
    <2>1. ksess.on
        BY <1>1, <1>5, KafkaSessionFacts
    <2>2. Prepared(log, topic, settled, kdur, lost, epoch, floor, ksess, stream)
        BY <1>1, <1>5 DEF KafkaInv, Prepared
    <2> QED BY <1>1, <1>2, <1>3, <2>1, <2>2
<1> QED BY <1>4, <1>5 DEF KafkaInv

LEMMA OutcomeIdle ==
    ASSUME KafkaInv, FeedOK', StreamOK', UNCHANGED <<consumer, log, floor, epoch>>,
           Outcome(log, topic', settled', kdur', lost', epoch, floor), ksess' = KIdle, stream'.phase = "off"
    PROVE  KafkaInv'
BY DEF KafkaInv, Outcome

LEMMA OutcomeSession ==
    ASSUME KafkaInv, FeedOK', StreamOK', UNCHANGED <<consumer, log, floor, epoch>>,
           Outcome(log, topic', settled', kdur', lost', epoch, floor),
           ksess' \in KafkaSession(Len(log), epoch),
           KafkaSessionInv(log, topic', settled', ksess', kdur', stream', epoch),
           RefusedOK(ksess', kdur', lost', stream', epoch, floor),
           stream'.phase \in {"resume", "live"} => GoodAll(log, topic', Position(kdur'.cursor))
    PROVE  KafkaInv'
BY DEF KafkaInv, Outcome

LEMMA SettledByOK ==
    ASSUME FeedOK, NEW rs \in Seq(Queued), \A i \in DOMAIN rs : rs[i].pos <= Len(log),
           NEW Q \in SUBSET (DOMAIN rs)
    PROVE  /\ SettledBy(rs, Q) \subseteq 1..Len(log)
           /\ \A i \in Q : \A j \in 1..rs[i].pos : log[j].key = rs[i].key => j \in SettledBy(rs, Q)
<1>1. \A i \in Q : rs[i].pos \in Nat /\ rs[i].pos <= Len(log)
    <2> SUFFICES ASSUME NEW i \in Q PROVE rs[i].pos \in Nat /\ rs[i].pos <= Len(log)
        OBVIOUS
    <2>1. i \in DOMAIN rs
        OBVIOUS
    <2>2. rs[i] \in Queued
        BY <2>1
    <2> QED BY <2>1, <2>2 DEF Queued
<1>2. Len(log) \in Nat
    BY DEF FeedOK
<1>3. \A i \in Q : 1..rs[i].pos \subseteq 1..Len(log)
    BY <1>1, <1>2
<1>4. SettledBy(rs, Q) \subseteq 1..Len(log)
    BY <1>3 DEF SettledBy
<1> QED BY <1>4 DEF SettledBy

LEMMA SettlesIs ==
    ASSUME FeedOK, NEW rs \in Seq(Queued), NEW v, QueueOK(log, rs, v), NEW Q \in SUBSET (DOMAIN rs)
    PROVE  /\ SettledBy(rs, Q) \subseteq 1..Len(log) /\ Settles(log, rs) \subseteq SettledBy(rs, DOMAIN rs)
           /\ \A i \in DOMAIN rs : rs[i].pos <= Len(log) /\ rs[i].pos > 0
<1>1. \A i \in DOMAIN rs : rs[i].pos \in 1..Len(log)
    BY DEF QueueOK
<1>2. Len(log) \in Nat
    BY DEF FeedOK
<1>3. \A i \in DOMAIN rs : rs[i].pos <= Len(log) /\ rs[i].pos > 0 /\ rs[i].pos \in Nat
    BY <1>1, <1>2
<1>4. SettledBy(rs, Q) \subseteq 1..Len(log)
    BY <1>3, SettledByOK
<1>5. ASSUME NEW j \in Settles(log, rs) PROVE j \in SettledBy(rs, DOMAIN rs)
    <2>1. PICK i \in DOMAIN rs : rs[i].key = log[j].key /\ j <= rs[i].pos /\ j \in 1..Len(log)
        BY DEF Settles
    <2>2. j \in 1..rs[i].pos
        BY <1>2, <1>3, <2>1
    <2> QED BY <2>1, <2>2 DEF SettledBy
<1> QED BY <1>3, <1>4, <1>5

LEMMA MaxOfTwo ==
    ASSUME NEW x \in Nat, NEW y \in Nat, NEW z, z = Max({x, y})
    PROVE  z \in Nat /\ z >= x /\ z >= y /\ (z = x \/ z = y)
<1>1. {x, y} \in SUBSET Nat /\ x + y \in Nat /\ {x, y} # {} /\ \A w \in {x, y} : w <= x + y
    OBVIOUS
<1>2. z \in {x, y} /\ \A w \in {x, y} : w <= z
    BY <1>1, MaxIs
<1> QED BY <1>2

LEMMA LastPosIs ==
    ASSUME NEW rs \in Seq(Queued), NEW Q \in SUBSET (DOMAIN rs), NEW n \in Nat,
           \A i \in DOMAIN rs : rs[i].pos <= n, NEW p \in Nat, NEW b, b = LastPos(rs, Q, p)
    PROVE  b \in Nat /\ b >= p /\ AckedTo(rs, Q, b) /\ (b = p \/ \E i \in Q : rs[i].pos = b)
<1> DEFINE S == {p} \cup {rs[i].pos : i \in Q}
<1>1. \A i \in Q : rs[i].pos \in Nat /\ rs[i].pos <= n
    <2> SUFFICES ASSUME NEW i \in Q PROVE rs[i].pos \in Nat /\ rs[i].pos <= n
        OBVIOUS
    <2>1. i \in DOMAIN rs
        OBVIOUS
    <2>2. rs[i] \in Queued
        BY <2>1
    <2> QED BY <2>1, <2>2 DEF Queued
<1>2. S \in SUBSET Nat /\ S # {} /\ p + n \in Nat /\ \A x \in S : x <= p + n
    BY <1>1
<1>3. b = Max(S)
    BY DEF LastPos
<1> HIDE DEF S
<1>4. b \in S /\ \A y \in S : y <= b
    BY <1>2, <1>3, MaxIs
<1> QED BY <1>1, <1>4 DEF S, AckedTo

LEMMA GoneBothOK ==
    ASSUME FeedOK, NEW n \in 0..Len(log), NEW T
    PROVE  GoneBoth(n, T) \subseteq 1..Len(log)
BY DEF GoneBoth, FeedOK

\* The facts that the steps below share.
LEMMA PreparedFacts ==
    ASSUME KafkaInv, NEW m, NEW s, Prepared(log, topic, settled, kdur, lost, epoch, floor, m, s)
    PROVE  /\ m \in KafkaSession(Len(log), epoch) /\ m.batch \in Seq(Queued) /\ m.acked \in Nat
           /\ m.last \in CursorsTo(Len(log), epoch) /\ m.st.cursor = kdur.cursor /\ m.inReset \in BOOLEAN
           /\ KafkaSessionInv(log, topic, settled, m, kdur, s, epoch)
           /\ \A c : Checkpointed(m, c) = Stored(m, kdur, c)
           /\ \A c \in CursorsTo(Len(log), epoch) : Stored(m, kdur, c) \in KafkaState(Len(log), epoch)
           /\ \A Q \in SUBSET (DOMAIN m.batch) : SettledBy(m.batch, Q) \subseteq 1..Len(log)
           /\ Settles(log, m.batch) \subseteq SettledBy(m.batch, DOMAIN m.batch)
           /\ \A i \in DOMAIN m.batch : m.batch[i].pos <= Len(log) /\ m.batch[i].pos > 0
           /\ settled \subseteq 1..Len(log) /\ Covers(m.last, settled \cup Settles(log, m.batch))
<1>1. Len(log) \in Nat /\ epoch \in Nat /\ FeedOK /\ kdur \in KafkaState(Len(log), epoch)
    BY KafkaFacts
<1>2. m \in KafkaSession(Len(log), epoch) /\ settled \subseteq 1..Len(log)
      /\ KafkaSessionInv(log, topic, settled, m, kdur, s, epoch)
    BY DEF Prepared
<1>3. m.batch \in Seq(Queued) /\ m.acked \in Nat /\ m.last \in CursorsTo(Len(log), epoch)
      /\ m.inReset \in BOOLEAN
    BY <1>1, <1>2, KafkaSessionFacts
<1>4. m.st.cursor = kdur.cursor /\ QueueOK(log, m.batch, m.st.seq - Len(m.batch))
      /\ Covers(m.last, settled \cup Settles(log, m.batch))
    BY <1>2 DEF KafkaSessionInv
<1>5. \A c : Checkpointed(m, c) = Stored(m, kdur, c)
    BY <1>1, <1>2, <1>4, CheckpointedIs
<1>6. \A c \in CursorsTo(Len(log), epoch) : Stored(m, kdur, c) \in KafkaState(Len(log), epoch)
    BY <1>1, <1>2, StoredTyped
<1>7. \A Q \in SUBSET (DOMAIN m.batch) : SettledBy(m.batch, Q) \subseteq 1..Len(log)
    BY <1>1, <1>3, <1>4, SettlesIs
<1>8. DOMAIN m.batch \in SUBSET (DOMAIN m.batch)
    OBVIOUS
<1>9. /\ Settles(log, m.batch) \subseteq SettledBy(m.batch, DOMAIN m.batch)
      /\ \A i \in DOMAIN m.batch : m.batch[i].pos <= Len(log) /\ m.batch[i].pos > 0
    BY <1>1, <1>3, <1>4, <1>8, SettlesIs
<1> QED BY <1>2, <1>3, <1>4, <1>5, <1>6, <1>7, <1>9

\* checkpoint: what every one does to the session.
LEMMA Checkpoints ==
    ASSUME KafkaInv, NEW m, NEW s, Prepared(log, topic, settled, kdur, lost, epoch, floor, m, s),
           NEW c \in CursorsTo(Len(log), epoch), NEW n \in 0..Len(log), KCheckpoint(m, s, c, n)
    PROVE  /\ Done(log, topic, settled, kdur, lost, m, c, settled', kdur', lost', topic')
           /\ ksess' \in KafkaSession(Len(log), epoch) /\ ksess'.batch = <<>> /\ ksess'.st = kdur'
           /\ ksess'.acked = 0 /\ (ksess'.inReset <=> m.inReset) /\ ksess'.seen = m.seen
           /\ ksess'.last = m.last /\ stream' = s /\ UNCHANGED <<consumer, log, floor, epoch, faults>>
           /\ settled \subseteq settled' /\ kdur' = Stored(m, kdur, c)
<1>1. /\ topic' = Publish(topic, m.batch, DOMAIN m.batch)
      /\ settled' = settled \cup SettledBy(m.batch, DOMAIN m.batch) \cup GoneBoth(n, topic')
      /\ kdur' = Checkpointed(m, c) /\ ksess' = [Produced(m) EXCEPT !.st = kdur', !.acked = 0]
      /\ stream' = s /\ lost' = LostAfter(kdur'.cursor) /\ UNCHANGED <<consumer, log, floor, epoch, faults>>
    BY DEF KCheckpoint
<1>2. /\ m \in KafkaSession(Len(log), epoch) /\ kdur' = Stored(m, kdur, c)
      /\ kdur' \in KafkaState(Len(log), epoch)
      /\ SettledBy(m.batch, DOMAIN m.batch) \subseteq 1..Len(log)
      /\ Settles(log, m.batch) \subseteq SettledBy(m.batch, DOMAIN m.batch) /\ settled \subseteq 1..Len(log)
    BY <1>1, PreparedFacts
<1>3. GoneBoth(n, topic') \subseteq 1..Len(log) /\ Len(log) \in Nat /\ epoch \in Nat
    BY KafkaFacts, GoneBothOK
<1>4. lost' = StillLost(kdur', lost)
    BY <1>1 DEF LostAfter, StillLost
<1>5. Done(log, topic, settled, kdur, lost, m, c, settled', kdur', lost', topic')
    BY <1>1, <1>2, <1>3, <1>4 DEF Done
<1>6. ksess' = NextSession(m, kdur', 0)
    BY <1>1 DEF NextSession
<1>7. /\ ksess' \in KafkaSession(Len(log), epoch) /\ ksess'.batch = <<>> /\ ksess'.st = kdur'
      /\ ksess'.acked = 0 /\ (ksess'.inReset <=> m.inReset) /\ ksess'.seen = m.seen /\ ksess'.last = m.last
    <2>1. 0 \in Nat
        OBVIOUS
    <2> HIDE DEF Produced
    <2> QED BY <1>2, <1>3, <1>6, <2>1, NextSessionIs
<1> QED BY <1>1, <1>2, <1>5, <1>7

LEMMA NewSessionInv ==
    ASSUME NEW n \in Nat, NEW e \in Nat, NEW l, NEW T, NEW S, NEW h \in KafkaSession(n, e), NEW f, NEW s,
           h.batch = <<>>, h.st = f, h.acked = 0, Covers(h.last, S),
           s.phase \in {"resume", "live"} => Resuming(h, f, s, e), s.phase # "reset",
           s.phase = "replay" => Replaying(l, T, S, h, s)
    PROVE  KafkaSessionInv(l, T, S, h, f, s, e)
<1>1. Len(h.batch) = 0 /\ DOMAIN h.batch = {} /\ h.st.seq \in Nat
    BY KafkaSessionFacts
<1>2. QueueOK(l, h.batch, h.st.seq - Len(h.batch))
    BY <1>1 DEF QueueOK
<1>3. f.seq = h.st.seq + Len(h.batch) /\ h.st.seq = f.seq + Len(h.batch)
    BY <1>1
<1> QED BY <1>1, <1>2, <1>3 DEF KafkaSessionInv, Covers

LEMMA KCheckpointLive ==
    ASSUME KafkaInv, NEW m, NEW s, Prepared(log, topic, settled, kdur, lost, epoch, floor, m, s),
           s.phase \in {"resume", "live"}, NEW c, c = CursorAt(s.at) \/ c = m.last,
           NEW n \in 0..Len(log), KCheckpoint(m, s, c, n), FeedOK', StreamOK'
    PROVE  KafkaInv' /\ settled \subseteq settled' /\ log' = log
<1>0. /\ FeedOK /\ Len(log) \in Nat /\ epoch \in Nat /\ s \in StreamState /\ s.at \in Nat /\ s.at <= Len(log)
    BY KafkaFacts DEF Prepared, StreamState
<1>1. c \in CursorsTo(Len(log), epoch) /\ CursorAt(s.at) = [epoch |-> epoch, pos |-> s.at]
    <2>1. CursorAt(s.at) \in CursorsTo(Len(log), epoch)
        BY <1>0 DEF CursorAt, CursorsTo, Cursor
    <2> QED BY <2>1, PreparedFacts DEF CursorAt
<1>2. /\ Done(log, topic, settled, kdur, lost, m, c, settled', kdur', lost', topic')
      /\ ksess' \in KafkaSession(Len(log), epoch) /\ ksess'.batch = <<>> /\ ksess'.st = kdur'
      /\ ksess'.acked = 0 /\ (ksess'.inReset <=> m.inReset)
      /\ ksess'.last = m.last /\ stream' = s /\ UNCHANGED <<consumer, log, floor, epoch, faults>>
      /\ settled \subseteq settled'
    BY <1>1, Checkpoints
<1>3. /\ Outcome(log, topic', settled', kdur', lost', epoch, floor) /\ GoodAll(log, topic', s.at)
      /\ Position(kdur'.cursor) = s.at /\ kdur'.cursor # NoCursor
    <2>1. c = [epoch |-> epoch, pos |-> s.at] \/ c = m.last
        BY <1>1
    <2>2. Done(log, topic, settled, kdur, lost, m, c, settled', kdur', lost', topic')
        BY <1>2
    <2> QED BY <2>1, <2>2, LiveStored
<1>4. Resuming(m, kdur, s, epoch) /\ Covers(m.last, settled \cup Settles(log, m.batch))
    BY PreparedFacts DEF KafkaSessionInv
<1>5. Covers(ksess'.last, settled')
    BY <1>2, <1>4 DEF Covers, Done
<1>6. Resuming(ksess', kdur', s, epoch)
    <2>1. kdur'.cursor.pos = s.at
        BY <1>3 DEF Position
    <2>2. Len(ksess'.batch) = s.at - s.at /\ DOMAIN ksess'.batch = {} /\ s.at <= s.at
        BY <1>0, <1>2
    <2> QED BY <1>2, <1>3, <1>4, <2>1, <2>2 DEF Resuming
<1>7. KafkaSessionInv(log, topic', settled', ksess', kdur', stream', epoch)
    BY <1>0, <1>2, <1>5, <1>6, NewSessionInv
<1>8. RefusedOK(ksess', kdur', lost', stream', epoch, floor)
    BY <1>2 DEF RefusedOK
<1> QED BY <1>2, <1>3, <1>7, <1>8, OutcomeSession

LEMMA KCheckpointRefused ==
    ASSUME KafkaInv, NEW m, NEW s, Prepared(log, topic, settled, kdur, lost, epoch, floor, m, s),
           s.phase \in {"replay", "closed"}, NEW c, c = NoCursor \/ (s.phase = "closed" /\ c = m.last),
           NEW n \in 0..Len(log), KCheckpoint(m, s, c, n), FeedOK', StreamOK'
    PROVE  KafkaInv' /\ settled \subseteq settled' /\ log' = log
<1>0. FeedOK /\ Len(log) \in Nat /\ epoch \in Nat
    BY KafkaFacts
<1>1. c \in CursorsTo(Len(log), epoch)
    BY PreparedFacts DEF CursorsTo
<1>2. /\ Done(log, topic, settled, kdur, lost, m, c, settled', kdur', lost', topic')
      /\ ksess' \in KafkaSession(Len(log), epoch) /\ ksess'.batch = <<>> /\ ksess'.st = kdur'
      /\ ksess'.acked = 0 /\ (ksess'.inReset <=> m.inReset) /\ ksess'.seen = m.seen
      /\ ksess'.last = m.last /\ stream' = s /\ UNCHANGED <<consumer, log, floor, epoch, faults>>
      /\ settled \subseteq settled' /\ kdur' = Stored(m, kdur, c)
    BY <1>1, Checkpoints
<1>3. /\ Outcome(log, topic', settled', kdur', lost', epoch, floor) /\ lost' = 0
      /\ ~CanResume(kdur'.cursor, epoch, floor)
    BY <1>2, RefusedStored
<1>4. Covers(ksess'.last, settled')
    BY <1>2, PreparedFacts DEF Covers, Done
<1>5. s.phase = "replay" => Replaying(log, topic', settled', ksess', s)
    <2> SUFFICES ASSUME s.phase = "replay" PROVE Replaying(log, topic', settled', ksess', s)
        OBVIOUS
    <2>1. ksess'.st.seq = m.st.seq /\ ksess'.st.keys = KeysAfter(m.st.keys, m.batch)
        BY <1>2 DEF Stored
    <2>2. topic' = Publish(topic, m.batch, DOMAIN m.batch) /\ settled \cup Settles(log, m.batch) \subseteq settled'
        BY <1>2 DEF Done
    <2>3. m.inReset
        BY PreparedFacts DEF KafkaSessionInv, Replaying
    <2> QED BY <1>2, <2>1, <2>2, <2>3, ReplayPublished
<1>6. KafkaSessionInv(log, topic', settled', ksess', kdur', stream', epoch)
    BY <1>0, <1>2, <1>4, <1>5, NewSessionInv
<1>7. RefusedOK(ksess', kdur', lost', stream', epoch, floor)
    BY <1>2, <1>3 DEF RefusedOK, Prepared
<1> QED BY <1>2, <1>3, <1>6, <1>7, OutcomeSession

LEMMA KContinueKeeps ==
    ASSUME KafkaInv, NEW m, NEW s, Prepared(log, topic, settled, kdur, lost, epoch, floor, m, s),
           KContinue(m, s), FeedOK', StreamOK'
    PROVE  KafkaInv' /\ settled \subseteq settled' /\ log' = log
BY DEF KafkaInv, Prepared, KContinue

LEMMA KProduceKeeps ==
    ASSUME KafkaInv, NEW m, NEW s, Prepared(log, topic, settled, kdur, lost, epoch, floor, m, s),
           s.phase = "replay", m.batch # <<>>, KProduce(m, s), FeedOK', StreamOK'
    PROVE  KafkaInv' /\ settled \subseteq settled' /\ log' = log
<1>0. FeedOK /\ Len(log) \in Nat /\ epoch \in Nat
    BY KafkaFacts
<1> DEFINE a == LastPos(m.batch, DOMAIN m.batch, m.acked)
           f == Produced(m).st
<1>1. /\ ksess' = [Produced(m) EXCEPT !.acked = LastPos(m.batch, DOMAIN m.batch, @)] /\ stream' = s
      /\ topic' = Publish(topic, m.batch, DOMAIN m.batch)
      /\ settled' = settled \cup SettledBy(m.batch, DOMAIN m.batch)
      /\ UNCHANGED <<consumer, log, floor, epoch, faults, kdur, lost>>
    BY DEF KProduce
<1>2. /\ m \in KafkaSession(Len(log), epoch) /\ m.batch \in Seq(Queued) /\ m.acked \in Nat
      /\ SettledBy(m.batch, DOMAIN m.batch) \subseteq 1..Len(log)
      /\ Settles(log, m.batch) \subseteq SettledBy(m.batch, DOMAIN m.batch) /\ settled \subseteq 1..Len(log)
      /\ (\A i \in DOMAIN m.batch : m.batch[i].pos <= Len(log) /\ m.batch[i].pos > 0)
      /\ KafkaSessionInv(log, topic, settled, m, kdur, s, epoch)
    BY PreparedFacts
<1>3. a \in Nat /\ a > 0
    <2>1. 1 \in DOMAIN m.batch
        BY <1>2
    <2>2. DOMAIN m.batch \in SUBSET (DOMAIN m.batch)
        OBVIOUS
    <2>3. a \in Nat /\ AckedTo(m.batch, DOMAIN m.batch, a)
        BY <1>0, <1>2, <2>2, LastPosIs
    <2> HIDE DEF a
    <2>4. m.batch[1].pos <= a /\ m.batch[1].pos > 0
        BY <1>2, <2>1, <2>3 DEF AckedTo
    <2>5. m.batch[1] \in Queued
        BY <1>2, <2>1
    <2>6. m.batch[1].pos \in Nat
        BY <2>5 DEF Queued
    <2> QED BY <2>3, <2>4, <2>6
<1>4. /\ Produced(m) \in KafkaSession(Len(log), epoch) /\ f.seq = m.st.seq /\ f.cursor = m.st.cursor
      /\ f.keys = KeysAfter(m.st.keys, m.batch) /\ Produced(m).acked = m.acked
    BY <1>0, <1>2, ProducedIs
<1>5. f \in KafkaState(Len(log), epoch)
    BY <1>0, <1>4, KafkaSessionFacts
<1>6. ksess' = NextSession(m, f, a)
    <2> DEFINE g == Produced(m)
    <2>1. g \in KafkaSession(Len(log), epoch) /\ g.acked = m.acked
        BY <1>4
    <2>2. ksess' = [g EXCEPT !.acked = LastPos(m.batch, DOMAIN m.batch, @)]
        BY <1>1
    <2>3. NextSession(m, f, a) = [[g EXCEPT !.st = g.st] EXCEPT !.acked = a]
        BY DEF NextSession
    <2> HIDE DEF g
    <2> QED BY <2>1, <2>2, <2>3 DEF KafkaSession
<1> HIDE DEF f, a
<1>7. /\ ksess' \in KafkaSession(Len(log), epoch) /\ ksess'.batch = <<>> /\ ksess'.st = f
      /\ ksess'.acked = a /\ (ksess'.inReset <=> m.inReset) /\ ksess'.seen = m.seen /\ ksess'.last = m.last
    <2> DEFINE x == ksess'
    <2>1. /\ Len(log) \in Nat /\ epoch \in Nat /\ m \in KafkaSession(Len(log), epoch) /\ a \in Nat
          /\ f \in KafkaState(Len(log), epoch) /\ x = NextSession(m, f, a)
        BY <1>0, <1>2, <1>3, <1>5, <1>6
    <2> HIDE DEF x
    <2>2. /\ x \in KafkaSession(Len(log), epoch) /\ x.batch = <<>> /\ x.st = f
          /\ (x.inReset <=> m.inReset) /\ x.seen = m.seen /\ x.last = m.last /\ x.acked = a
        BY <2>1, NextSessionIs
    <2> QED BY <2>2 DEF x
<1>8. TopicOK(log, topic')
    BY <1>1, RefusedPublished
<1>9. Replaying(log, topic', settled', ksess', s)
    <2>1. ksess'.st.seq = m.st.seq /\ ksess'.st.keys = KeysAfter(m.st.keys, m.batch)
        BY <1>4, <1>7
    <2>2. settled \cup Settles(log, m.batch) \subseteq settled'
        BY <1>1, <1>2
    <2>3. m.inReset
        BY <1>2 DEF KafkaSessionInv, Replaying
    <2> QED BY <1>1, <1>7, <2>1, <2>2, <2>3, ReplayPublished
<1>10. KafkaSessionInv(log, topic', settled', ksess', kdur', stream', epoch)
    <2>1. Len(ksess'.batch) = 0 /\ DOMAIN ksess'.batch = {} /\ f.seq \in Nat
        BY <1>0, <1>5, <1>7, StoredFacts
    <2>2. Covers(ksess'.last, settled' \cup Settles(log, ksess'.batch))
        BY <1>1, <1>2, <1>7 DEF Covers, KafkaSessionInv
    <2>3. f.cursor = kdur.cursor
        BY <1>2, <1>4 DEF KafkaSessionInv
    <2>4. ksess'.acked # 0 /\ stream'.phase = "replay"
        BY <1>1, <1>3, <1>7
    <2> QED BY <1>1, <1>7, <1>9, <2>1, <2>2, <2>3, <2>4 DEF KafkaSessionInv, QueueOK
<1>11. ksess'.acked # 0
    BY <1>3, <1>7
<1>12. RefusedOK(ksess', kdur', lost', stream', epoch, floor)
    BY <1>1 DEF RefusedOK, Prepared
<1>13. StoredOK(log, settled', kdur', lost', epoch, floor)
    BY <1>1 DEF KafkaInv, StoredOK, Covers
<1>14. ~CanResume(kdur'.cursor, epoch, floor) /\ stream'.phase = "replay"
    BY <1>1, RefusedInStep
<1> QED BY <1>1, <1>2, <1>7, <1>8, <1>10, <1>11, <1>12, <1>13, <1>14 DEF KafkaInv

\* An I/O step fails, in a session that resumed or in one whose cursor is
\* refused.
FailsLive(m, s, c) == s.phase \in {"resume", "live"} /\ (c = CursorAt(s.at) \/ c = m.last)
FailsRefused(m, s, c, stores) ==
    /\ s.phase \in {"replay", "closed"}
    /\ stores => c = NoCursor \/ (s.phase = "closed" /\ c = m.last)

LEMMA KFailKeeps ==
    ASSUME KafkaInv, "reset_unsaved" \notin KafkaFaults,
           NEW m, NEW s, Prepared(log, topic, settled, kdur, lost, epoch, floor, m, s),
           NEW c, NEW stores, FailsLive(m, s, c) \/ FailsRefused(m, s, c, stores),
           NEW n \in 0..Len(log), KFail(m, c, stores, n)
    PROVE  KafkaInv' /\ settled \subseteq settled' /\ log' = log
<1>0. /\ FeedOK /\ StreamOK /\ Len(log) \in Nat /\ epoch \in Nat /\ faults \in Nat /\ lost \in Nat
      /\ kdur \in KafkaState(Len(log), epoch)
    BY KafkaFacts
<1>1. /\ faults' \in Nat /\ ksess' = KIdle /\ stream' = Off /\ UNCHANGED <<consumer, log, floor, epoch>>
    BY <1>0 DEF KFail
<1>2. FeedOK' /\ StreamOK' /\ stream'.phase = "off"
    BY <1>0, <1>1, MarkTakenOK DEF Off
<1>3. PICK Q \in SUBSET (DOMAIN m.batch) :
        /\ topic' = Publish(topic, m.batch, Q)
        /\ settled' = settled \cup SettledBy(m.batch, Q) \cup GoneBoth(n, topic')
        /\ \/ kdur' = kdur /\ lost' = LastPos(m.batch, Q, Max({lost, m.acked}))
           \/ /\ stores /\ Q = DOMAIN m.batch
              /\ kdur' = Checkpointed(m, c) /\ lost' = LostAfter(kdur'.cursor)
        /\ NoLostReset(lost', kdur'.cursor)
    BY DEF KFail
<1>4. /\ m.batch \in Seq(Queued) /\ m.acked \in Nat
      /\ (\A i \in DOMAIN m.batch : m.batch[i].pos <= Len(log) /\ m.batch[i].pos > 0)
      /\ SettledBy(m.batch, Q) \subseteq 1..Len(log) /\ settled \subseteq 1..Len(log)
      /\ Settles(log, m.batch) \subseteq SettledBy(m.batch, DOMAIN m.batch)
      /\ Checkpointed(m, c) = Stored(m, kdur, c)
    BY PreparedFacts
<1>5. settled \subseteq settled' /\ settled' \subseteq 1..Len(log)
    BY <1>0, <1>3, <1>4, GoneBothOK
<1>6. CASE kdur' = kdur /\ lost' = LastPos(m.batch, Q, Max({lost, m.acked}))
    <2> DEFINE p == Max({lost, m.acked})
    <2>1. p \in Nat /\ p >= lost /\ p >= m.acked /\ (p = lost \/ p = m.acked)
        BY <1>0, <1>4, MaxOfTwo
    <2>2. lost' = LastPos(m.batch, Q, p)
        BY <1>6
    <2> HIDE DEF p
    <2>3. /\ lost' \in Nat /\ lost' >= p /\ AckedTo(m.batch, Q, lost')
          /\ (lost' = p \/ \E i \in Q : m.batch[i].pos = lost')
        <3> DEFINE rs == m.batch
        <3>1. /\ rs \in Seq(Queued) /\ Q \in SUBSET (DOMAIN rs) /\ Len(log) \in Nat
              /\ \A i \in DOMAIN rs : rs[i].pos <= Len(log)
            BY <1>0, <1>4
        <3>2. lost' = LastPos(rs, Q, p)
            BY <2>2
        <3> HIDE DEF rs
        <3>3. /\ lost' \in Nat /\ lost' >= p /\ AckedTo(rs, Q, lost')
              /\ (lost' = p \/ \E i \in Q : rs[i].pos = lost')
            BY <2>1, <3>1, <3>2, LastPosIs
        <3> QED BY <3>3 DEF rs
    <2>4. lost' >= lost /\ lost' >= m.acked
        BY <1>0, <1>4, <2>1, <2>3
    <2>5. lost' > 0 => CanResume(kdur.cursor, epoch, floor)
        BY <1>3, <1>6, <1>1 DEF NoLostReset, Resumable, CanResume
    <2>6. CASE FailsLive(m, s, c)
        <3>1. Partly(log, topic, settled, kdur, lost, epoch, floor, m, Q, settled', lost', topic')
            BY <1>3, <1>5, <2>1, <2>3, <2>4, <2>5 DEF Partly
        <3>2. Outcome(log, topic', settled', kdur, lost', epoch, floor)
            BY <2>6, <3>1, LivePart DEF FailsLive
        <3> QED BY <1>1, <1>2, <1>5, <1>6, <3>2, OutcomeIdle
    <2>7. CASE FailsRefused(m, s, c, stores)
        <3>1. s.phase \in {"reset", "replay", "closed"} /\ \A i \in DOMAIN m.batch : m.batch[i].pos > 0
            BY <1>4, <2>7 DEF FailsRefused
        <3>2. Outcome(log, topic', settled', kdur, lost', epoch, floor)
            BY <1>3, <1>4, <1>5, <2>3, <2>4, <2>5, <3>1, RefusedPart
        <3> QED BY <1>1, <1>2, <1>5, <1>6, <3>2, OutcomeIdle
    <2> QED BY <2>6, <2>7
<1>7. CASE /\ stores /\ Q = DOMAIN m.batch
           /\ kdur' = Checkpointed(m, c) /\ lost' = LostAfter(kdur'.cursor)
    <2>1. kdur' = Stored(m, kdur, c) /\ lost' = StillLost(kdur', lost)
        BY <1>4, <1>7 DEF LostAfter, StillLost
    <2>2. Done(log, topic, settled, kdur, lost, m, c, settled', kdur', lost', topic')
        BY <1>3, <1>4, <1>5, <1>7, <2>1 DEF Done
    <2>3. CASE FailsLive(m, s, c)
        <3>1. (c = [epoch |-> epoch, pos |-> s.at] \/ c = m.last) /\ s.phase \in {"resume", "live"}
            BY <2>3 DEF FailsLive, CursorAt
        <3>2. Outcome(log, topic', settled', kdur', lost', epoch, floor)
            BY <2>2, <3>1, LiveStored
        <3> QED BY <1>1, <1>2, <1>5, <3>2, OutcomeIdle
    <2>4. CASE FailsRefused(m, s, c, stores)
        <3>1. Outcome(log, topic', settled', kdur', lost', epoch, floor)
            BY <1>7, <2>2, <2>4, RefusedStored DEF FailsRefused
        <3> QED BY <1>1, <1>2, <1>5, <3>1, OutcomeIdle
    <2> QED BY <2>3, <2>4
<1> QED BY <1>3, <1>6, <1>7

\* A change is queued: memory m and stream s become h and t.
QueuedChange(l, m, i) == [key |-> l[i].key, val |-> l[i].val, ver |-> m.st.seq, pos |-> i]
Queues(l, e, m, s, i, h, t) ==
    /\ i \in 1..Len(l) /\ h \in KafkaSession(Len(l), e) /\ h.batch = Append(m.batch, QueuedChange(l, m, i))
    /\ h.st.seq = m.st.seq + 1 /\ h.st.keys = m.st.keys /\ h.st.cursor = m.st.cursor
    /\ (h.inReset <=> m.inReset) /\ h.acked = m.acked
    /\ t \in StreamState /\ t.phase = s.phase /\ s.phase \in {"resume", "live", "replay"} /\ t.at <= Len(l)
    /\ s.phase \in {"resume", "live"} => /\ i = s.at + 1 /\ t.at = i
                                         /\ h.last = [epoch |-> e, pos |-> i]
    /\ s.phase = "replay" => /\ i \in s.todo /\ t.at = s.at /\ t.todo = s.todo \ {i}
                             /\ h.last = m.last /\ h.seen = m.seen \cup {l[i].key}

QueueGrown(l, m, i, h) ==
    /\ Len(h.batch) = Len(m.batch) + 1 /\ DOMAIN h.batch = DOMAIN m.batch \cup {Len(m.batch) + 1}
    /\ \A x \in DOMAIN m.batch : h.batch[x] = m.batch[x]
    /\ h.batch[Len(m.batch) + 1] = QueuedChange(l, m, i)
    /\ h.st.seq - Len(h.batch) = m.st.seq - Len(m.batch) /\ Len(h.batch) <= h.st.seq
    /\ QueueOK(l, h.batch, h.st.seq - Len(h.batch))
    /\ Settles(l, m.batch) \subseteq Settles(l, h.batch)
    /\ {j \in 1..i : l[j].key = l[i].key} \subseteq Settles(l, h.batch)

LEMMA QueueGrows ==
    ASSUME NEW l \in Seq(ChangeRecord), NEW e, NEW m, NEW s, NEW i, NEW h, NEW t,
           Queues(l, e, m, s, i, h, t), m.batch \in Seq(Queued), m.st.seq \in Nat, Len(m.batch) <= m.st.seq,
           QueueOK(l, m.batch, m.st.seq - Len(m.batch))
    PROVE  QueueGrown(l, m, i, h)
<1> DEFINE rs == m.batch
           r == QueuedChange(l, m, i)
           k == Len(rs)
           v == m.st.seq - Len(rs)
<1>1. i \in 1..Len(l) /\ h.batch = Append(rs, r) /\ h.st.seq = m.st.seq + 1 /\ Len(l) \in Nat
    BY DEF Queues
<1>2. r.key = l[i].key /\ r.val = l[i].val /\ r.ver = m.st.seq /\ r.pos = i
    BY DEF QueuedChange
<1>3. r \in Queued
    <2>1. l[i] \in ChangeRecord
        BY <1>1
    <2>2. i \in Nat
        BY <1>1
    <2> QED BY <2>1, <2>2 DEF QueuedChange, Queued, ChangeRecord
<1> HIDE DEF r
<1>4. /\ Len(h.batch) = k + 1 /\ DOMAIN h.batch = DOMAIN rs \cup {k + 1} /\ k \in Nat /\ DOMAIN rs = 1..k
      /\ h.batch[k + 1] = r /\ \A x \in DOMAIN rs : h.batch[x] = rs[x]
    <2>1. rs \in Seq(Queued) /\ h.batch = Append(rs, r)
        BY <1>1
    <2> HIDE DEF rs
    <2> QED BY <1>3, <2>1
<1>5. h.st.seq - Len(h.batch) = v /\ Len(h.batch) <= h.st.seq /\ m.st.seq = v + (k + 1) - 1
    <2>1. Len(h.batch) = k + 1 /\ k \in Nat /\ h.st.seq = m.st.seq + 1 /\ m.st.seq \in Nat /\ k <= m.st.seq
        BY <1>1, <1>4
    <2> QED BY <2>1
<1>6. \A x \in DOMAIN rs : /\ rs[x].pos \in 1..Len(l) /\ rs[x].key = l[rs[x].pos].key
                           /\ rs[x].val = l[rs[x].pos].val /\ rs[x].ver = v + x - 1
    BY DEF QueueOK
<1> HIDE DEF v, rs, k
<1>7. QueueOK(l, h.batch, v)
    <2>1. ASSUME NEW x \in DOMAIN h.batch
          PROVE  /\ h.batch[x].pos \in 1..Len(l) /\ h.batch[x].key = l[h.batch[x].pos].key
                 /\ h.batch[x].val = l[h.batch[x].pos].val /\ h.batch[x].ver = v + x - 1
        <3>1. CASE x \in DOMAIN rs
            BY <1>4, <1>6, <3>1
        <3>2. CASE x = k + 1
            BY <1>1, <1>2, <1>4, <1>5, <3>2
        <3> QED BY <1>4, <3>1, <3>2
    <2> QED BY <2>1 DEF QueueOK
<1>8. Settles(l, rs) \subseteq Settles(l, h.batch)
    BY <1>4 DEF Settles
<1>9. {j \in 1..i : l[j].key = l[i].key} \subseteq Settles(l, h.batch)
    <2> SUFFICES ASSUME NEW j \in 1..i, l[j].key = l[i].key PROVE j \in Settles(l, h.batch)
        OBVIOUS
    <2>1. j \in 1..Len(l) /\ j <= i
        BY <1>1
    <2> QED BY <1>2, <1>4, <2>1 DEF Settles
<1> QED BY <1>4, <1>5, <1>7, <1>8, <1>9 DEF rs, k, v, r, QueueGrown

LEMMA QueuedPrepared ==
    ASSUME NEW l, NEW T, NEW S, NEW d, NEW lst, NEW e, NEW fl, NEW m, NEW s,
           Prepared(l, T, S, d, lst, e, fl, m, s), NEW i, NEW h, NEW t, Queues(l, e, m, s, i, h, t)
    PROVE  Prepared(l, T, S, d, lst, e, fl, h, t)
<1>1. /\ l \in Seq(ChangeRecord) /\ TopicOK(l, T) /\ S \subseteq 1..Len(l) /\ e \in Nat /\ fl \in Nat
      /\ StoredOK(l, S, d, lst, e, fl) /\ m \in KafkaSession(Len(l), e)
      /\ s \in StreamState /\ s.at <= Len(l) /\ KafkaSessionInv(l, T, S, m, d, s, e)
      /\ RefusedOK(m, d, lst, s, e, fl) /\ Len(l) \in Nat /\ s.at \in Nat /\ d \in KafkaState(Len(l), e)
    BY DEF Prepared, StreamState, StoredOK
<1>2. m.batch \in Seq(Queued) /\ m.st.seq \in Nat /\ Len(m.batch) \in Nat /\ DOMAIN m.batch = 1..Len(m.batch)
    BY <1>1, KafkaSessionFacts
<1>3. Len(m.batch) <= m.st.seq /\ QueueOK(l, m.batch, m.st.seq - Len(m.batch))
    BY <1>1 DEF KafkaSessionInv
<1>4. /\ Len(h.batch) = Len(m.batch) + 1 /\ DOMAIN h.batch = DOMAIN m.batch \cup {Len(m.batch) + 1}
      /\ (\A x \in DOMAIN m.batch : h.batch[x] = m.batch[x])
      /\ h.batch[Len(m.batch) + 1].pos = i
      /\ h.st.seq - Len(h.batch) = m.st.seq - Len(m.batch) /\ Len(h.batch) <= h.st.seq
      /\ QueueOK(l, h.batch, h.st.seq - Len(h.batch))
      /\ Settles(l, m.batch) \subseteq Settles(l, h.batch)
      /\ {j \in 1..i : l[j].key = l[i].key} \subseteq Settles(l, h.batch)
    <2>1. QueueGrown(l, m, i, h)
        <3>1. l \in Seq(ChangeRecord)
            BY <1>1
        <3> QED BY <1>2, <1>3, <3>1, QueueGrows
    <2>2. QueuedChange(l, m, i).pos = i
        BY DEF QueuedChange
    <2> QED BY <2>1, <2>2 DEF QueueGrown
<1>5. /\ i \in 1..Len(l) /\ h \in KafkaSession(Len(l), e) /\ h.st.seq = m.st.seq + 1 /\ h.st.keys = m.st.keys
      /\ h.st.cursor = m.st.cursor /\ (h.inReset <=> m.inReset) /\ h.acked = m.acked
      /\ t \in StreamState /\ t.phase = s.phase /\ s.phase \in {"resume", "live", "replay"} /\ t.at <= Len(l)
    BY DEF Queues
<1>6. RefusedOK(h, d, lst, t, e, fl)
    BY <1>1, <1>5 DEF RefusedOK
<1>7. h.acked = 0 => h.st.keys = d.keys /\ h.st.seq = d.seq + Len(h.batch)
    <2> SUFFICES ASSUME h.acked = 0 PROVE h.st.keys = d.keys /\ h.st.seq = d.seq + Len(h.batch)
        OBVIOUS
    <2>1. m.st.keys = d.keys /\ m.st.seq = d.seq + Len(m.batch) /\ d.seq \in Nat
        BY <1>1, <1>5, StoredFacts DEF KafkaSessionInv
    <2>2. Len(h.batch) = Len(m.batch) + 1 /\ h.st.seq = m.st.seq + 1 /\ h.st.keys = m.st.keys
        BY <1>4, <1>5
    <2> QED BY <1>2, <2>1, <2>2
<1>8. CASE s.phase \in {"resume", "live"}
    <2>1. i = s.at + 1 /\ t.at = i /\ h.last = [epoch |-> e, pos |-> i] /\ h.last # NoCursor
        BY <1>1, <1>8, FeedAssumption DEF Queues
    <2>2. Resuming(m, d, s, e)
        BY <1>1, <1>8 DEF KafkaSessionInv
    <2>3. d.cursor # NoCursor /\ d.cursor.pos \in Nat /\ d.cursor.pos <= s.at
          /\ Len(m.batch) = s.at - d.cursor.pos /\ ~m.inReset
        BY <1>1, <2>2, StoredFacts DEF Resuming
    <2>4. Resuming(h, d, t, e)
        <3>1. d.cursor.pos <= t.at /\ Len(h.batch) = t.at - d.cursor.pos
              /\ i = d.cursor.pos + (Len(m.batch) + 1)
            <4>1. Len(h.batch) = Len(m.batch) + 1 /\ Len(m.batch) \in Nat /\ s.at \in Nat
                BY <1>1, <1>2, <1>4
            <4> QED BY <2>1, <2>3, <4>1
        <3>2. \A x \in DOMAIN m.batch : m.batch[x].pos = d.cursor.pos + x
            BY <2>2 DEF Resuming
        <3>3. \A x \in DOMAIN h.batch : h.batch[x].pos = d.cursor.pos + x
            BY <1>4, <3>1, <3>2
        <3> QED BY <1>5, <2>1, <2>3, <3>1, <3>3 DEF Resuming
    <2>5. Covers(h.last, S \cup Settles(l, h.batch))
        <3> SUFFICES ASSUME NEW j \in 1..i PROVE j \in S \cup Settles(l, h.batch)
            BY <2>1 DEF Covers
        <3>1. CASE j = i
            BY <1>4, <1>5, <3>1
        <3>2. CASE j # i
            <4>1. j \in 1..s.at
                BY <1>1, <2>1, <3>2
            <4>2. CASE m.last = NoCursor
                <5>1. d.cursor.pos = s.at
                    BY <2>2, <4>2 DEF Resuming
                <5> QED BY <1>1, <2>3, <4>1, <5>1 DEF StoredOK, Covers
            <4>3. CASE m.last # NoCursor
                <5>1. m.last.pos = s.at
                    BY <2>2, <4>3 DEF Resuming
                <5> QED BY <1>1, <1>4, <4>1, <4>3, <5>1 DEF KafkaSessionInv, Covers
            <4> QED BY <4>2, <4>3
        <3> QED BY <3>1, <3>2
    <2>6. KafkaSessionInv(l, T, S, h, d, t, e)
        BY <1>1, <1>4, <1>5, <1>7, <1>8, <2>4, <2>5 DEF KafkaSessionInv
    <2> QED BY <1>1, <1>5, <1>6, <1>8, <2>6 DEF Prepared
<1>9. CASE s.phase = "replay"
    <2>1. i \in s.todo /\ t.at = s.at /\ t.todo = s.todo \ {i} /\ h.last = m.last
          /\ h.seen = m.seen \cup {l[i].key}
        BY <1>9 DEF Queues
    <2>2. Replaying(l, T, S, m, s)
        BY <1>1, <1>9 DEF KafkaSessionInv
    <2>3. /\ m.inReset /\ m.last = NoCursor /\ s.todo \subseteq LiveAt(l, s.at)
          /\ (\A x \in DOMAIN m.batch : m.batch[x].pos \in LiveAt(l, s.at) \ s.todo)
          /\ m.seen = {l[x].key : x \in LiveAt(l, s.at) \ s.todo}
          /\ InStepAll(T, m.st.seq - Len(m.batch), m.st.keys)
          /\ \A k \in Key : T[k].kept.pos <= s.at
        BY <2>2 DEF Replaying
    <2>4. LiveAt(l, t.at) \ t.todo = (LiveAt(l, s.at) \ s.todo) \cup {i}
        BY <2>1, <2>3
    <2>5. \A x \in DOMAIN h.batch : h.batch[x].pos \in LiveAt(l, t.at) \ t.todo
        BY <1>4, <2>3, <2>4
    <2>6. h.seen = {l[x].key : x \in LiveAt(l, t.at) \ t.todo}
        BY <2>1, <2>3, <2>4
    <2>7. ASSUME NEW x \in LiveAt(l, t.at) \ t.todo
          PROVE  /\ {j \in 1..x : l[j].key = l[x].key} \subseteq S \cup Settles(l, h.batch)
                 /\ T[l[x].key].kept.pos = x \/ \E j \in DOMAIN h.batch : h.batch[j].pos = x
        <3>1. CASE x = i
            BY <1>4, <3>1
        <3>2. CASE x \in LiveAt(l, s.at) \ s.todo
            <4>1. /\ {j \in 1..x : l[j].key = l[x].key} \subseteq S \cup Settles(l, m.batch)
                  /\ T[l[x].key].kept.pos = x \/ \E j \in DOMAIN m.batch : m.batch[j].pos = x
                BY <2>2, <3>2 DEF Replaying
            <4> QED BY <1>4, <4>1
        <3> QED BY <2>4, <3>1, <3>2
    <2>8. Replaying(l, T, S, h, t)
        BY <1>4, <1>5, <2>1, <2>3, <2>5, <2>6, <2>7 DEF Replaying
    <2>9. Covers(h.last, S \cup Settles(l, h.batch))
        BY <2>1, <2>3 DEF Covers
    <2>10. KafkaSessionInv(l, T, S, h, d, t, e)
        BY <1>1, <1>4, <1>5, <1>7, <1>9, <2>8, <2>9 DEF KafkaSessionInv
    <2> QED BY <1>1, <1>5, <1>6, <1>9, <2>10 DEF Prepared
<1> QED BY <1>5, <1>8, <1>9

\* Queue, and what an upsert or a delete makes of the session.
LEMMA QueueIs ==
    ASSUME NEW n \in Nat, NEW e \in Nat, NEW m \in KafkaSession(n, e), NEW k \in Key, NEW v \in Content,
           NEW p \in Nat, NEW g, g = Queue(m, k, v, p)
    PROVE  /\ g \in KafkaSession(n, e)
           /\ g.batch = Append(m.batch, [key |-> k, val |-> v, ver |-> m.st.seq, pos |-> p])
           /\ g.st.seq = m.st.seq + 1 /\ g.st.keys = m.st.keys /\ g.st.cursor = m.st.cursor
           /\ (g.inReset <=> m.inReset) /\ g.acked = m.acked /\ g.seen = m.seen /\ g.last = m.last
<1> DEFINE r == [key |-> k, val |-> v, ver |-> m.st.seq, pos |-> p]
           b == Append(m.batch, r)
           t == [m.st EXCEPT !.seq = @ + 1]
<1>1. m.st \in KafkaState(n, e) /\ m.st.seq \in Nat /\ m.batch \in Seq(Queued)
    BY KafkaSessionFacts
<1>2. r \in Queued
    BY <1>1 DEF Queued
<1>3. g = [[m EXCEPT !.batch = b] EXCEPT !.st = t]
    BY <1>1 DEF Queue, KafkaSession, KafkaState
<1> HIDE DEF r
<1>4. b \in Seq(Queued)
    BY <1>1, <1>2
<1>5. t \in KafkaState(n, e) /\ t.seq = m.st.seq + 1 /\ t.keys = m.st.keys /\ t.cursor = m.st.cursor
    BY <1>1 DEF KafkaState
<1> HIDE DEF b, t
<1>6. g \in KafkaSession(n, e)
    BY <1>3, <1>4, <1>5 DEF KafkaSession
<1>7. g.batch = b /\ g.st = t /\ g.acked = m.acked /\ g.seen = m.seen /\ g.last = m.last
    BY <1>3 DEF KafkaSession
<1>8. g.inReset <=> m.inReset
    BY <1>3 DEF KafkaSession
<1> QED BY <1>5, <1>6, <1>7, <1>8 DEF b, r

SeenAt(g, X, c) == [[g EXCEPT !.seen = X] EXCEPT !.last = c]

LEMMA SeenAtIs ==
    ASSUME NEW n \in Nat, NEW e \in Nat, NEW g \in KafkaSession(n, e), NEW X \in SUBSET Key,
           NEW c \in CursorsTo(n, e), NEW h, h = SeenAt(g, X, c)
    PROVE  /\ h \in KafkaSession(n, e) /\ h.batch = g.batch /\ h.st = g.st /\ (h.inReset <=> g.inReset)
           /\ h.acked = g.acked /\ h.seen = X /\ h.last = c
<1>1. h \in KafkaSession(n, e)
    BY DEF KafkaSession, SeenAt
<1>2. h.batch = g.batch /\ h.st = g.st /\ h.acked = g.acked /\ h.seen = X /\ h.last = c
    BY DEF KafkaSession, SeenAt
<1>3. h.inReset <=> g.inReset
    BY DEF KafkaSession, SeenAt
<1> QED BY <1>1, <1>2, <1>3

\* The session and the stream once the next change is queued.
LEMMA ChangeQueued ==
    ASSUME KafkaInv, ksess.on, HasChange, NEW X, NEW c, NEW h,
           h = SeenAt(Queue(ksess, log[NextChange].key, log[NextChange].val, NextChange), X, c),
           c = IF ChangeCursor = NoCursor THEN ksess.last ELSE ChangeCursor, X \in SUBSET Key,
           stream.phase = "replay" => X = ksess.seen \cup {log[NextChange].key}
    PROVE  /\ Prepared(log, topic, settled, kdur, lost, epoch, floor, h, AfterChange)
           /\ h.batch # <<>> /\ AfterChange.phase = stream.phase
           /\ stream.phase \in {"resume", "live", "replay"}
           /\ stream.phase \in {"resume", "live"} => ChangeCursor = CursorAt(AfterChange.at) /\ ~h.inReset
           /\ stream.phase = "replay" => h.inReset
<1> DEFINE i == NextChange
           s == AfterChange
           k == log[i].key
           v == log[i].val
           g == Queue(ksess, k, v, i)
<1>1. /\ FeedOK /\ StreamOK /\ Len(log) \in Nat /\ epoch \in Nat
      /\ Prepared(log, topic, settled, kdur, lost, epoch, floor, ksess, stream)
    BY KafkaFacts
<1>2. /\ i \in 1..Len(log) /\ s \in StreamState /\ s.phase = stream.phase
      /\ stream.phase \in {"resume", "live", "replay"}
      /\ (stream.phase \in {"resume", "live"} =>
             i = stream.at + 1 /\ s.at = i /\ ChangeCursor = CursorAt(i))
      /\ (stream.phase = "replay" =>
             i \in stream.todo /\ s.at = stream.at /\ ChangeCursor = NoCursor)
      /\ s.todo = (IF stream.phase = "live" THEN stream.todo ELSE stream.todo \ {i})
      /\ s.at <= Len(log)
    BY <1>1, ChangeTaken
<1>3. k \in Key /\ v \in Content /\ i \in Nat /\ i <= Len(log)
    BY <1>1, <1>2, LogRecord
<1>4. CursorAt(i) \in CursorsTo(Len(log), epoch) /\ CursorAt(i) # NoCursor
      /\ CursorAt(i) = [epoch |-> epoch, pos |-> i]
    <2>1. CursorAt(i) \in Cursor /\ CursorAt(i) # NoCursor /\ CursorAt(i).pos = i /\ CursorAt(i).epoch = epoch
        BY <1>1, <1>3, CursorAtOK
    <2> QED BY <1>1, <1>3, <2>1 DEF CursorsTo, CursorAt
<1>5. ksess \in KafkaSession(Len(log), epoch) /\ ksess.last \in CursorsTo(Len(log), epoch)
      /\ KafkaSessionInv(log, topic, settled, ksess, kdur, stream, epoch)
    BY <1>1, PreparedFacts
<1>6. c \in CursorsTo(Len(log), epoch)
    BY <1>2, <1>4, <1>5
<1> HIDE DEF i, s, k, v
<1>7. /\ g \in KafkaSession(Len(log), epoch)
      /\ g.batch = Append(ksess.batch, [key |-> k, val |-> v, ver |-> ksess.st.seq, pos |-> i])
      /\ g.st.seq = ksess.st.seq + 1 /\ g.st.keys = ksess.st.keys /\ g.st.cursor = ksess.st.cursor
      /\ (g.inReset <=> ksess.inReset) /\ g.acked = ksess.acked
    BY <1>1, <1>3, <1>5, QueueIs
<1>8. h = SeenAt(g, X, c)
    BY DEF i, k, v
<1> HIDE DEF g
<1>9. /\ h \in KafkaSession(Len(log), epoch) /\ h.batch = g.batch /\ h.st = g.st
      /\ (h.inReset <=> g.inReset) /\ h.acked = g.acked /\ h.seen = X /\ h.last = c
    BY <1>1, <1>6, <1>7, <1>8, SeenAtIs
<1>10. h.batch = Append(ksess.batch, QueuedChange(log, ksess, i))
    BY <1>7, <1>9 DEF QueuedChange, k, v
<1>11. Queues(log, epoch, ksess, stream, i, h, s)
    <2>1. stream.phase \in {"resume", "live"} => h.last = [epoch |-> epoch, pos |-> i]
        BY <1>2, <1>4, <1>9
    <2>2. stream.phase = "replay" => h.last = ksess.last /\ h.seen = ksess.seen \cup {log[i].key}
          /\ s.todo = stream.todo \ {i}
        BY <1>2, <1>9 DEF i
    <2> QED BY <1>2, <1>7, <1>9, <1>10, <2>1, <2>2 DEF Queues
<1>12. Prepared(log, topic, settled, kdur, lost, epoch, floor, h, s)
    BY <1>1, <1>11, QueuedPrepared
<1>13. h.batch # <<>>
    <2>1. ksess.batch \in Seq(Queued)
        BY <1>1, PreparedFacts
    <2>2. Len(h.batch) = Len(ksess.batch) + 1 /\ Len(ksess.batch) \in Nat
        BY <1>10, <2>1
    <2> QED BY <2>2
<1>14. stream.phase \in {"resume", "live"} => ~ksess.inReset
    BY <1>5 DEF KafkaSessionInv, Resuming
<1>15. stream.phase = "replay" => ksess.inReset
    BY <1>5 DEF KafkaSessionInv, Replaying
<1> QED BY <1>2, <1>7, <1>9, <1>12, <1>13, <1>14, <1>15 DEF s

LEMMA MaybeFlushKeeps ==
    ASSUME KafkaInv, "reset_unsaved" \notin KafkaFaults, ksess.on, HasChange, NEW h,
           Prepared(log, topic, settled, kdur, lost, epoch, floor, h, AfterChange), h.batch # <<>>,
           AfterChange.phase = stream.phase, stream.phase \in {"resume", "live", "replay"},
           stream.phase \in {"resume", "live"} => ChangeCursor = CursorAt(AfterChange.at) /\ ~h.inReset,
           stream.phase = "replay" => h.inReset, MaybeFlush(h, AfterChange, ChangeCursor)
    PROVE  KafkaInv' /\ settled \subseteq settled' /\ log' = log
<1> DEFINE s == AfterChange
<1>0. FeedOK /\ StreamOK /\ Len(log) \in Nat /\ faults \in Nat /\ 0 \in 0..Len(log)
    BY KafkaFacts
<1>1. ASSUME UNCHANGED <<log, floor, epoch, faults>>, stream' = AfterChange PROVE FeedOK' /\ StreamOK'
    BY <1>0, <1>1, ChangeTakenOK
<1>2. CASE KContinue(h, s)
    <2>1. FeedOK' /\ StreamOK'
        BY <1>1, <1>2 DEF KContinue
    <2> QED BY <1>2, <2>1, KContinueKeeps
<1>3. CASE h.inReset /\ KProduce(h, s)
    <2>1. FeedOK' /\ StreamOK'
        BY <1>1, <1>3 DEF KProduce
    <2>2. s.phase = "replay"
        BY <1>3
    <2> QED BY <1>3, <2>1, <2>2, KProduceKeeps
<1>4. CASE ~h.inReset /\ KCheckpoint(h, s, ChangeCursor, 0)
    <2>1. FeedOK' /\ StreamOK'
        BY <1>1, <1>4 DEF KCheckpoint
    <2>2. s.phase \in {"resume", "live"} /\ ChangeCursor = CursorAt(s.at)
        BY <1>4
    <2> HIDE DEF s
    <2>3. Prepared(log, topic, settled, kdur, lost, epoch, floor, h, s)
        BY DEF s
    <2> QED BY <1>0, <1>4, <2>1, <2>2, <2>3, KCheckpointLive
<1>5. CASE KFail(h, ChangeCursor, ~h.inReset, 0)
    <2>1. FailsLive(h, s, ChangeCursor) \/ FailsRefused(h, s, ChangeCursor, ~h.inReset)
        BY DEF FailsLive, FailsRefused
    <2> HIDE DEF s
    <2>3. Prepared(log, topic, settled, kdur, lost, epoch, floor, h, s)
        BY DEF s
    <2> QED BY <1>0, <1>5, <2>1, <2>3, KFailKeeps
<1> QED BY <1>2, <1>3, <1>4, <1>5 DEF MaybeFlush

LEMMA KafkaUpsertKeeps ==
    ASSUME KafkaInv, "reset_unsaved" \notin KafkaFaults, KafkaUpsert
    PROVE  KafkaInv' /\ settled \subseteq settled' /\ log' = log
<1> DEFINE i == NextChange
           g == Queue(ksess, log[i].key, log[i].val, i)
           X == IF g.inReset THEN g.seen \cup {log[i].key} ELSE g.seen
           c == IF ChangeCursor = NoCursor THEN g.last ELSE ChangeCursor
           h == SeenAt(g, X, c)
<1>1. /\ ksess.on /\ HasChange
      /\ MaybeFlush([g EXCEPT !.seen = IF g.inReset THEN @ \cup {log[i].key} ELSE @,
                              !.last = IF ChangeCursor = NoCursor THEN @ ELSE ChangeCursor],
                    AfterChange, ChangeCursor)
    BY DEF KafkaUpsert
<1>2. /\ FeedOK /\ StreamOK /\ Len(log) \in Nat /\ epoch \in Nat
      /\ Prepared(log, topic, settled, kdur, lost, epoch, floor, ksess, stream)
    BY <1>1, KafkaFacts
<1>3. /\ i \in 1..Len(log) /\ log[i].key \in Key /\ log[i].val \in Content /\ i \in Nat
    <2>1. i \in 1..Len(log)
        BY <1>1, <1>2, ChangeTaken
    <2> QED BY <1>2, <2>1, LogRecord
<1>4. ksess \in KafkaSession(Len(log), epoch) /\ KafkaSessionInv(log, topic, settled, ksess, kdur, stream, epoch)
    BY <1>2, PreparedFacts
<1>5. /\ g \in KafkaSession(Len(log), epoch) /\ (g.inReset <=> ksess.inReset) /\ g.seen = ksess.seen
      /\ g.last = ksess.last
    <2> DEFINE k == log[i].key
               v == log[i].val
    <2>1. k \in Key /\ v \in Content /\ i \in Nat /\ Len(log) \in Nat /\ epoch \in Nat
        BY <1>2, <1>3
    <2> HIDE DEF k, v, i
    <2> DEFINE q == Queue(ksess, k, v, i)
    <2>2. q = g
        BY DEF k, v
    <2>3. /\ q \in KafkaSession(Len(log), epoch)
          /\ q.batch = Append(ksess.batch, [key |-> k, val |-> v, ver |-> ksess.st.seq, pos |-> i])
          /\ q.st.seq = ksess.st.seq + 1 /\ q.st.keys = ksess.st.keys /\ q.st.cursor = ksess.st.cursor
          /\ (q.inReset <=> ksess.inReset) /\ q.acked = ksess.acked /\ q.seen = ksess.seen
          /\ q.last = ksess.last
        BY <1>4, <2>1, QueueIs
    <2> HIDE DEF g, q
    <2> QED BY <2>2, <2>3
<1>6. ksess.seen \in SUBSET Key
    BY <1>2, <1>4, KafkaSessionFacts
<1>7. X \in SUBSET Key /\ (stream.phase = "replay" => X = ksess.seen \cup {log[i].key})
    <2>1. stream.phase = "replay" => ksess.inReset
        BY <1>4 DEF KafkaSessionInv, Replaying
    <2> QED BY <1>3, <1>5, <1>6, <2>1
<1>8. [g EXCEPT !.seen = IF g.inReset THEN @ \cup {log[i].key} ELSE @,
                !.last = IF ChangeCursor = NoCursor THEN @ ELSE ChangeCursor] = h
    BY <1>5 DEF SeenAt, KafkaSession
<1>9. c = IF ChangeCursor = NoCursor THEN ksess.last ELSE ChangeCursor
    BY <1>5
<1> HIDE DEF X, c
<1>10. h = SeenAt(Queue(ksess, log[NextChange].key, log[NextChange].val, NextChange), X, c)
    OBVIOUS
<1>11. MaybeFlush(h, AfterChange, ChangeCursor)
    BY <1>1, <1>8
<1>12. stream.phase = "replay" => X = ksess.seen \cup {log[NextChange].key}
    BY <1>7
<1> HIDE DEF h, i
<1>13. /\ Prepared(log, topic, settled, kdur, lost, epoch, floor, h, AfterChange)
       /\ h.batch # <<>> /\ AfterChange.phase = stream.phase
       /\ stream.phase \in {"resume", "live", "replay"}
       /\ stream.phase \in {"resume", "live"} => ChangeCursor = CursorAt(AfterChange.at) /\ ~h.inReset
       /\ stream.phase = "replay" => h.inReset
    BY <1>1, <1>7, <1>9, <1>10, <1>12, ChangeQueued
<1> QED BY <1>1, <1>11, <1>13, MaybeFlushKeeps

LEMMA KafkaDeleteKeeps ==
    ASSUME KafkaInv, "reset_unsaved" \notin KafkaFaults, KafkaDelete
    PROVE  KafkaInv' /\ settled \subseteq settled' /\ log' = log
<1> DEFINE i == NextChange
           g == Queue(ksess, log[i].key, log[i].val, i)
           X == g.seen
           c == IF ChangeCursor = NoCursor THEN g.last ELSE ChangeCursor
           h == SeenAt(g, X, c)
<1>1. /\ ksess.on /\ HasChange /\ log[i].val = NoRow
      /\ MaybeFlush([g EXCEPT !.last = IF ChangeCursor = NoCursor THEN @ ELSE ChangeCursor],
                    AfterChange, ChangeCursor)
    BY DEF KafkaDelete
<1>2. /\ FeedOK /\ StreamOK /\ Len(log) \in Nat /\ epoch \in Nat
      /\ Prepared(log, topic, settled, kdur, lost, epoch, floor, ksess, stream)
    BY <1>1, KafkaFacts
<1>3. /\ i \in 1..Len(log) /\ log[i].key \in Key /\ log[i].val \in Content /\ i \in Nat
    <2>1. i \in 1..Len(log)
        BY <1>1, <1>2, ChangeTaken
    <2> QED BY <1>2, <2>1, LogRecord
<1>4. ksess \in KafkaSession(Len(log), epoch) /\ KafkaSessionInv(log, topic, settled, ksess, kdur, stream, epoch)
    BY <1>2, PreparedFacts
<1>5. /\ g \in KafkaSession(Len(log), epoch) /\ g.seen = ksess.seen /\ g.last = ksess.last
    <2> DEFINE k == log[i].key
               v == log[i].val
    <2>1. k \in Key /\ v \in Content /\ i \in Nat /\ Len(log) \in Nat /\ epoch \in Nat
        BY <1>2, <1>3
    <2> HIDE DEF k, v, i
    <2> DEFINE q == Queue(ksess, k, v, i)
    <2>2. q = g
        BY DEF k, v
    <2>3. /\ q \in KafkaSession(Len(log), epoch)
          /\ q.batch = Append(ksess.batch, [key |-> k, val |-> v, ver |-> ksess.st.seq, pos |-> i])
          /\ q.st.seq = ksess.st.seq + 1 /\ q.st.keys = ksess.st.keys /\ q.st.cursor = ksess.st.cursor
          /\ (q.inReset <=> ksess.inReset) /\ q.acked = ksess.acked /\ q.seen = ksess.seen
          /\ q.last = ksess.last
        BY <1>4, <2>1, QueueIs
    <2> HIDE DEF g, q
    <2> QED BY <2>2, <2>3
<1>6. ksess.seen \in SUBSET Key
    BY <1>2, <1>4, KafkaSessionFacts
<1>7. X \in SUBSET Key /\ stream.phase # "replay"
    <2>1. ASSUME stream.phase = "replay" PROVE FALSE
        <3>1. i \in stream.todo
            BY <1>1, <1>2, <2>1, ChangeTaken
        <3>2. i \in LiveAt(log, stream.at)
            BY <1>4, <2>1, <3>1 DEF KafkaSessionInv, Replaying
        <3> QED BY <1>1, <3>2 DEF LiveAt
    <2> QED BY <1>5, <1>6, <2>1
<1>8. [g EXCEPT !.last = IF ChangeCursor = NoCursor THEN @ ELSE ChangeCursor] = h
    BY <1>5 DEF SeenAt, KafkaSession
<1>9. c = IF ChangeCursor = NoCursor THEN ksess.last ELSE ChangeCursor
    BY <1>5
<1> HIDE DEF X, c
<1>10. h = SeenAt(Queue(ksess, log[NextChange].key, log[NextChange].val, NextChange), X, c)
    OBVIOUS
<1>11. MaybeFlush(h, AfterChange, ChangeCursor)
    BY <1>1, <1>8
<1> HIDE DEF h, i
<1>13. /\ Prepared(log, topic, settled, kdur, lost, epoch, floor, h, AfterChange)
       /\ h.batch # <<>> /\ AfterChange.phase = stream.phase
       /\ stream.phase \in {"resume", "live", "replay"}
       /\ stream.phase \in {"resume", "live"} => ChangeCursor = CursorAt(AfterChange.at) /\ ~h.inReset
       /\ stream.phase = "replay" => h.inReset
    BY <1>1, <1>7, <1>9, <1>10, ChangeQueued
<1> QED BY <1>1, <1>11, <1>13, MaybeFlushKeeps

LEMMA KafkaSnapshotIsLive ==
    ASSUME consumer = "kafka", NEW n \in Nat
    PROVE  SnapshotAt(n) = LiveAt(log, n)
BY DEF SnapshotAt, LiveAt, IsArchive

NewSession(st) ==
    [on |-> TRUE, st |-> st, batch |-> <<>>, inReset |-> FALSE, seen |-> {}, last |-> NoCursor, acked |-> 0]

LEMMA KafkaStartKeeps ==
    ASSUME KafkaInv, KafkaStart
    PROVE  KafkaInv' /\ settled \subseteq settled' /\ log' = log
<1>1. /\ ~ksess.on /\ stream' = OpenStream(kdur.cursor) /\ ksess' = NewSession(kdur)
      /\ UNCHANGED <<consumer, log, floor, epoch, settled, faults, kdur, topic, lost>>
    BY DEF KafkaStart, NewSession
<1>2. /\ FeedOK /\ Len(log) \in Nat /\ epoch \in Nat /\ floor \in Nat /\ consumer = "kafka"
      /\ kdur \in KafkaState(Len(log), epoch) /\ topic \in TopicState /\ lost \in Nat
      /\ Outcome(log, topic, settled, kdur, lost, epoch, floor)
    BY <1>1, KafkaFacts
<1> DEFINE h == NewSession(kdur)
           s == OpenStream(kdur.cursor)
<1>3. NoCursor \in CursorsTo(Len(log), epoch) /\ <<>> \in Seq(Queued)
    BY DEF CursorsTo
<1>4. /\ h \in KafkaSession(Len(log), epoch) /\ h.batch = <<>> /\ h.st = kdur /\ h.last = NoCursor
      /\ h.acked = 0 /\ ~h.inReset
    BY <1>2, <1>3 DEF NewSession, KafkaSession
<1>5. CursorOK(kdur.cursor, Len(log), epoch)
    <2>1. kdur.cursor \in CursorsTo(Len(log), epoch)
        BY <1>2, StoredFacts
    <2> QED BY <2>1 DEF CursorsTo, CursorOK
<1>6. FeedOK' /\ StreamOK'
    BY <1>1, <1>2, <1>5, OpenedOK
<1>7. /\ s \in StreamState
      /\ (Resumable(kdur.cursor) => s.phase = "resume" /\ s.at = kdur.cursor.pos)
      /\ (~Resumable(kdur.cursor) =>
             s.phase = "reset" /\ s.todo = SnapshotAt(Len(log)) /\ s.at = Len(log))
    BY <1>2, <1>5, OpenStreamOK
<1>8. Resumable(kdur.cursor) <=> CanResume(kdur.cursor, epoch, floor)
    BY DEF Resumable, CanResume
<1> HIDE DEF h, s
<1>9. Len(h.batch) = 0 /\ DOMAIN h.batch = {} /\ kdur.seq \in Nat /\ h.st.seq = kdur.seq + Len(h.batch)
      /\ QueueOK(log, h.batch, h.st.seq - Len(h.batch))
    <2>1. Len(h.batch) = 0 /\ DOMAIN h.batch = {} /\ kdur.seq \in Nat
        BY <1>2, <1>4, StoredFacts
    <2> QED BY <1>4, <2>1 DEF QueueOK
<1>10. s.phase = "resume" => Resuming(h, kdur, s, epoch)
    <2> SUFFICES ASSUME s.phase = "resume" PROVE Resuming(h, kdur, s, epoch)
        OBVIOUS
    <2>1. s.at = kdur.cursor.pos /\ kdur.cursor # NoCursor
        BY <1>7 DEF Resumable
    <2>2. kdur.cursor.pos \in Nat
        BY <1>2, <2>1, StoredFacts
    <2> QED BY <1>4, <1>9, <2>1, <2>2 DEF Resuming
<1>11. \A k \in Key : topic[k].kept.pos <= Len(log)
    BY <1>2 DEF Outcome, TopicOK, Shows
<1>12. SnapshotAt(Len(log)) = LiveAt(log, Len(log))
    BY <1>2, KafkaSnapshotIsLive
<1>13. s.phase \in {"resume", "reset"}
    BY <1>7
<1>14. KafkaSessionInv(log, topic, settled, h, kdur, s, epoch)
    BY <1>4, <1>7, <1>9, <1>10, <1>11, <1>12, <1>13 DEF KafkaSessionInv, Covers
<1>15. ~CanResume(kdur.cursor, epoch, floor) => lost = 0
    BY <1>2 DEF Outcome, StoredOK
<1>16. RefusedOK(h, kdur, lost, s, epoch, floor)
    BY <1>7, <1>8, <1>13, <1>15 DEF RefusedOK
<1>17. s.phase \in {"resume", "live"} => GoodAll(log, topic, Position(kdur.cursor))
    BY <1>2, <1>7, <1>8, <1>13 DEF Outcome
<1>18. stream' = s /\ ksess' = h
    BY <1>1 DEF s, h
<1> QED BY <1>1, <1>2, <1>4, <1>6, <1>14, <1>16, <1>17, <1>18, OutcomeSession

LEMMA KafkaResetKeeps ==
    ASSUME KafkaInv, KafkaReset
    PROVE  KafkaInv' /\ settled \subseteq settled' /\ log' = log
<1> DEFINE h == [[[ksess EXCEPT !.inReset = TRUE] EXCEPT !.seen = {}] EXCEPT !.batch = <<>>]
           s == AfterReset
<1>1. ksess.on /\ IsReset /\ stream.phase = "reset"
    BY DEF KafkaReset, IsReset
<1>2. KContinue(h, s)
    BY DEF KafkaReset
<1>3. /\ FeedOK /\ StreamOK /\ Len(log) \in Nat /\ epoch \in Nat /\ faults \in Nat
      /\ Prepared(log, topic, settled, kdur, lost, epoch, floor, ksess, stream)
    BY <1>1, KafkaFacts
<1>4. ksess \in KafkaSession(Len(log), epoch) /\ KafkaSessionInv(log, topic, settled, ksess, kdur, stream, epoch)
    BY <1>3, PreparedFacts
<1>5. ksess.st.seq \in Nat
    BY <1>3, <1>4, KafkaSessionFacts
<1>6. <<>> \in Seq(Queued)
    OBVIOUS
<1>7. h \in KafkaSession(Len(log), epoch)
    BY <1>4, <1>6 DEF KafkaSession
<1>8. h.st = ksess.st /\ h.batch = <<>> /\ h.seen = {} /\ h.last = ksess.last /\ h.acked = ksess.acked
    BY <1>4 DEF KafkaSession
<1>9. h.inReset
    BY <1>4 DEF KafkaSession
<1>10. s \in StreamState /\ s.phase = "replay" /\ s.todo = stream.todo /\ s.at = stream.at
    BY <1>3, MarkTaken
<1>11. FeedOK' /\ StreamOK'
    BY <1>1, <1>2, <1>3, MarkTakenOK DEF KContinue
<1> HIDE DEF h, s
<1>12. /\ ksess.last = NoCursor /\ ksess.batch = <<>> /\ stream.todo = LiveAt(log, stream.at)
       /\ ksess.acked = 0 /\ (\A k \in Key : topic[k].kept.pos <= stream.at)
       /\ ksess.st.cursor = kdur.cursor
       /\ ksess.st.keys = kdur.keys /\ ksess.st.seq = kdur.seq + Len(ksess.batch)
    BY <1>1, <1>4 DEF KafkaSessionInv
<1>13. InStepAll(topic, ksess.st.seq - Len(ksess.batch), ksess.st.keys)
    BY <1>1, <1>3, RefusedInStep
<1>14. Len(h.batch) = 0 /\ DOMAIN h.batch = {} /\ h.st.seq - Len(h.batch) = ksess.st.seq - Len(ksess.batch)
       /\ h.st.seq = kdur.seq + Len(h.batch) /\ Len(h.batch) <= h.st.seq
    BY <1>5, <1>8, <1>12
<1>15. LiveAt(log, s.at) \ s.todo = {}
    BY <1>10, <1>12
<1>16. Replaying(log, topic, settled, h, s)
    BY <1>8, <1>9, <1>10, <1>12, <1>13, <1>14, <1>15 DEF Replaying
<1>17. KafkaSessionInv(log, topic, settled, h, kdur, s, epoch)
    BY <1>8, <1>10, <1>12, <1>14, <1>16 DEF KafkaSessionInv, QueueOK, Covers
<1>18. RefusedOK(h, kdur, lost, s, epoch, floor)
    BY <1>1, <1>3, <1>10 DEF RefusedOK, Prepared
<1>19. Prepared(log, topic, settled, kdur, lost, epoch, floor, h, s)
    BY <1>3, <1>7, <1>8, <1>10, <1>12, <1>17, <1>18 DEF Prepared
<1> QED BY <1>2, <1>11, <1>19, KContinueKeeps

LEMMA KafkaTickKeeps ==
    ASSUME KafkaInv, "reset_unsaved" \notin KafkaFaults, KafkaTick
    PROVE  KafkaInv' /\ settled \subseteq settled' /\ log' = log
<1> DEFINE c == IF ksess.inReset THEN NoCursor ELSE ksess.last
<1>1. ksess.on /\ stream.phase # "reset"
      /\ (KCheckpoint(ksess, stream, c, 0) \/ KFail(ksess, c, TRUE, 0))
    BY DEF KafkaTick
<1>2. /\ FeedOK /\ StreamOK /\ Len(log) \in Nat /\ epoch \in Nat /\ faults \in Nat /\ stream \in StreamState
      /\ Prepared(log, topic, settled, kdur, lost, epoch, floor, ksess, stream)
    BY <1>1, KafkaFacts
<1>3. KafkaSessionInv(log, topic, settled, ksess, kdur, stream, epoch) /\ stream.phase # "off"
    BY <1>2 DEF Prepared, RefusedOK
<1>4. 0 \in 0..Len(log)
    BY <1>2
<1>5. stream.phase \in {"resume", "live", "replay", "closed"}
    BY <1>1, <1>2, <1>3 DEF StreamState
<1>6. stream.phase \in {"resume", "live"} => c = ksess.last
    BY <1>3 DEF KafkaSessionInv, Resuming
<1>7. stream.phase = "replay" => c = NoCursor
    BY <1>3 DEF KafkaSessionInv, Replaying
<1>8. c = NoCursor \/ c = ksess.last
    OBVIOUS
<1> HIDE DEF c
<1>9. CASE KCheckpoint(ksess, stream, c, 0)
    <2>1. FeedOK' /\ StreamOK'
        BY <1>2, <1>9, MarkTakenOK DEF KCheckpoint
    <2>2. CASE stream.phase \in {"resume", "live"}
        BY <1>2, <1>4, <1>6, <1>9, <2>1, <2>2, KCheckpointLive
    <2>3. CASE stream.phase \in {"replay", "closed"}
        BY <1>2, <1>4, <1>7, <1>8, <1>9, <2>1, <2>3, KCheckpointRefused
    <2> QED BY <1>5, <2>2, <2>3
<1>10. CASE KFail(ksess, c, TRUE, 0)
    <2>1. FailsLive(ksess, stream, c) \/ FailsRefused(ksess, stream, c, TRUE)
        BY <1>5, <1>6, <1>7, <1>8 DEF FailsLive, FailsRefused
    <2> QED BY <1>2, <1>4, <1>10, <2>1, KFailKeeps
<1> QED BY <1>1, <1>9, <1>10

\* SetToSeq lists a finite set.
LEMMA SetToSeqIs ==
    ASSUME NEW S, IsFiniteSet(S), NEW ks, ks = SetToSeq(S)
    PROVE  /\ ks \in Seq(S) /\ Len(ks) \in Nat /\ DOMAIN ks = 1..Len(ks)
           /\ \A k \in S : \E i \in DOMAIN ks : ks[i] = k
<1> DEFINE n == Cardinality(S)
<1>1. n \in Nat /\ ExistsBijection(1..n, S)
    BY FS_CardinalityType
<1>2. \E f \in [1..n -> S] : IsInjective(f)
    <2>1. PICK f \in Bijection(1..n, S) : TRUE
        BY <1>1 DEF ExistsBijection
    <2>2. f \in [1..n -> S] /\ \A a, b \in 1..n : f[a] = f[b] => a = b
        BY <2>1 DEF Bijection, Injection, IsInjective
    <2> QED BY <2>2 DEF IsInjective
<1>3. ks \in [1..n -> S] /\ IsInjective(ks)
    BY <1>2 DEF SetToSeq
<1>4. ks \in Injection(1..n, S)
    BY <1>3 DEF Injection
<1>5. Cardinality(1..n) = n
    BY <1>1, FS_Interval
<1>6. ks \in Surjection(1..n, S)
    BY <1>4, <1>5, FS_Injection
<1>7. \A k \in S : \E i \in 1..n : ks[i] = k
    BY <1>6 DEF Surjection
<1> HIDE DEF n
<1>8. ks \in Seq(S) /\ Len(ks) = n /\ DOMAIN ks = 1..n
    BY <1>1, <1>3
<1> QED BY <1>1, <1>7, <1>8

\* The queue rs of a replay at its end: the queue b that was there, and a
\* tombstone for each of the keys X, numbered on.
SweepQueue(b, v, X, at, rs) ==
    /\ rs \in Seq(Queued) /\ Numbered(rs, v)
    /\ \A i \in DOMAIN b : i \in DOMAIN rs /\ rs[i] = b[i]
    /\ \A i \in DOMAIN rs :
          \/ i \in DOMAIN b /\ rs[i] = b[i]
          \/ rs[i].key \in X /\ rs[i].val = NoRow /\ rs[i].pos = at
    /\ \A k \in X : \E i \in DOMAIN rs : rs[i].key = k /\ rs[i].val = NoRow /\ rs[i].pos = at

Tombstones(ks, w, at) ==
    [i \in DOMAIN ks |-> [key |-> ks[i], val |-> NoRow, ver |-> w + i - 1, pos |-> at]]
Lists(ks, X) == \A k \in X : \E i \in DOMAIN ks : ks[i] = k
Tombs(t, ks, w, at) ==
    \A i \in 1..Len(ks) :
        t[i].key = ks[i] /\ t[i].val = NoRow /\ t[i].ver = w + i - 1 /\ t[i].pos = at

LEMMA TombstonesIs ==
    ASSUME NEW X \in SUBSET Key, NEW ks \in Seq(X), NEW w \in Nat, NEW at \in Nat,
           NEW t, t = Tombstones(ks, w, at)
    PROVE  t \in Seq(Queued) /\ Len(t) = Len(ks) /\ Tombs(t, ks, w, at)
<1>1. Len(ks) \in Nat /\ DOMAIN ks = 1..Len(ks) /\ \A i \in 1..Len(ks) : ks[i] \in Key /\ w + i - 1 \in Nat
    OBVIOUS
<1>2. \A i \in 1..Len(ks) : [key |-> ks[i], val |-> NoRow, ver |-> w + i - 1, pos |-> at] \in Queued
    BY <1>1 DEF Queued, Content
<1>3. t \in [1..Len(ks) -> Queued]
    BY <1>1, <1>2 DEF Tombstones
<1>4. \A i \in 1..Len(ks) : t[i] = [key |-> ks[i], val |-> NoRow, ver |-> w + i - 1, pos |-> at]
    BY <1>1 DEF Tombstones
<1>5. t \in Seq(Queued) /\ Len(t) = Len(ks)
    BY <1>1, <1>3
<1>6. ASSUME NEW i \in 1..Len(ks)
      PROVE  t[i].key = ks[i] /\ t[i].val = NoRow /\ t[i].ver = w + i - 1 /\ t[i].pos = at
    <2> DEFINE x == w + i - 1
    <2>1. t[i] = [key |-> ks[i], val |-> NoRow, ver |-> x, pos |-> at]
        BY <1>4
    <2> HIDE DEF x
    <2>2. t[i].key = ks[i] /\ t[i].val = NoRow /\ t[i].ver = x /\ t[i].pos = at
        BY <2>1
    <2> QED BY <2>2 DEF x
<1> QED BY <1>5, <1>6 DEF Tombs

Grown(b, rs, n) == rs \in Seq(Queued) /\ Len(rs) = Len(b) + n

LEMMA SweepQueueIs ==
    ASSUME NEW b \in Seq(Queued), NEW v \in Nat, Numbered(b, v), NEW X, NEW ks \in Seq(X), Lists(ks, X),
           NEW w, w = v + Len(b), NEW at, NEW t \in Seq(Queued), Len(t) = Len(ks), Tombs(t, ks, w, at),
           NEW rs, rs = b \o t
    PROVE  SweepQueue(b, v, X, at, rs) /\ Grown(b, rs, Len(ks))
<1> DEFINE n == Len(b)
<1>1. n \in Nat /\ w \in Nat /\ Len(ks) \in Nat /\ DOMAIN b = 1..n /\ DOMAIN ks = 1..Len(ks)
    OBVIOUS
<1>4. rs \in Seq(Queued) /\ Len(rs) = n + Len(ks) /\ DOMAIN rs = 1..(n + Len(ks))
    OBVIOUS
<1>5. \A i \in 1..n : i \in DOMAIN rs /\ rs[i] = b[i]
    BY <1>1, <1>4
<1>6. ASSUME NEW j \in 1..Len(ks)
      PROVE  /\ n + j \in DOMAIN rs /\ rs[n + j].key = ks[j] /\ rs[n + j].val = NoRow
             /\ rs[n + j].ver = v + (n + j) - 1 /\ rs[n + j].pos = at /\ ks[j] \in X
    <2>1. n + j \in DOMAIN rs /\ rs[n + j] = t[j] /\ ks[j] \in X
        BY <1>1, <1>4
    <2>2. t[j].key = ks[j] /\ t[j].val = NoRow /\ t[j].ver = w + j - 1 /\ t[j].pos = at
        BY DEF Tombs
    <2>3. w + j - 1 = v + (n + j) - 1
        BY <1>1
    <2> QED BY <2>1, <2>2, <2>3
<1>7. ASSUME NEW i \in DOMAIN rs, i \notin DOMAIN b
      PROVE  rs[i].key \in X /\ rs[i].val = NoRow /\ rs[i].pos = at /\ rs[i].ver = v + i - 1
    <2>1. i - n \in 1..Len(ks) /\ n + (i - n) = i
        BY <1>1, <1>4, <1>7
    <2> QED BY <1>6, <2>1
<1>8. Numbered(rs, v)
    <2> SUFFICES ASSUME NEW i \in DOMAIN rs PROVE rs[i].ver = v + i - 1
        BY DEF Numbered
    <2>1. CASE i \in DOMAIN b
        <3>1. rs[i] = b[i]
            BY <1>1, <1>5, <2>1
        <3> QED BY <2>1, <3>1 DEF Numbered
    <2>2. CASE i \notin DOMAIN b
        BY <1>7, <2>2
    <2> QED BY <2>1, <2>2
<1>9. ASSUME NEW k \in X
      PROVE  \E i \in DOMAIN rs : rs[i].key = k /\ rs[i].val = NoRow /\ rs[i].pos = at
    <2>1. PICK j \in DOMAIN ks : ks[j] = k
        BY DEF Lists
    <2> QED BY <1>1, <1>6, <2>1
<1>10. \A i \in DOMAIN b : i \in DOMAIN rs /\ rs[i] = b[i]
    BY <1>1, <1>5
<1> QED BY <1>4, <1>7, <1>8, <1>9, <1>10 DEF SweepQueue, Grown

CanSweep(n, e, m, at, v, X) ==
    /\ n \in Nat /\ e \in Nat /\ m \in KafkaSession(n, e) /\ at \in Nat /\ v \in Nat
    /\ Numbered(m.batch, v) /\ m.st.seq = v + Len(m.batch) /\ X = Swept(m) /\ IsFiniteSet(X)
Sweeps(n, e, m, at, v, X, g) ==
    /\ g \in KafkaSession(n, e) /\ SweepQueue(m.batch, v, X, at, g.batch)
    /\ g.st.seq = v + Len(g.batch) /\ g.st.keys = m.st.keys /\ g.st.cursor = m.st.cursor
    /\ g.acked = m.acked

LEMMA SweepIs ==
    ASSUME NEW n, NEW e, NEW m, NEW at, NEW v, NEW X, CanSweep(n, e, m, at, v, X)
    PROVE  Sweeps(n, e, m, at, v, X, Sweep(m, at))
<1>u. /\ n \in Nat /\ e \in Nat /\ m \in KafkaSession(n, e) /\ at \in Nat /\ v \in Nat
      /\ Numbered(m.batch, v) /\ m.st.seq = v + Len(m.batch) /\ X = Swept(m) /\ IsFiniteSet(X)
    BY DEF CanSweep
<1> USE <1>u
<1> DEFINE g == Sweep(m, at)
           ks == SetToSeq(X)
           w == m.st.seq
           b == m.batch
           rs == b \o Tombstones(ks, w, at)
           t == [m.st EXCEPT !.seq = @ + Len(ks)]
<1>1. m.st \in KafkaState(n, e) /\ w \in Nat /\ b \in Seq(Queued) /\ m.st.keys \in SUBSET Key
    BY KafkaSessionFacts
<1>2. X \in SUBSET Key
    BY <1>1 DEF Swept
<1>3. ks \in Seq(X) /\ Len(ks) \in Nat /\ Lists(ks, X)
    BY SetToSeqIs DEF Lists
<1>4. g = [m EXCEPT !.batch = rs, !.st.seq = @ + Len(ks)]
    BY DEF Sweep, Tombstones
<1> HIDE DEF ks, g
<1>5. w = v + Len(b) /\ Numbered(b, v)
    OBVIOUS
<1> HIDE DEF b, w
<1>6. SweepQueue(b, v, X, at, rs) /\ Len(rs) = Len(b) + Len(ks) /\ rs \in Seq(Queued)
    <2> DEFINE tomb == Tombstones(ks, w, at)
    <2>1. tomb \in Seq(Queued) /\ Len(tomb) = Len(ks) /\ Tombs(tomb, ks, w, at)
        BY <1>1, <1>2, <1>3, TombstonesIs
    <2> HIDE DEF tomb
    <2>2. rs = b \o tomb
        BY DEF tomb
    <2> HIDE DEF rs
    <2>3. SweepQueue(b, v, X, at, rs) /\ Grown(b, rs, Len(ks))
        BY <1>1, <1>3, <1>5, <2>1, <2>2, SweepQueueIs
    <2> QED BY <2>3 DEF Grown
<1> HIDE DEF rs
<1>7. g = [[m EXCEPT !.batch = rs] EXCEPT !.st = t]
    BY <1>1, <1>4 DEF KafkaSession, KafkaState
<1>8. /\ t \in KafkaState(n, e) /\ t.seq = w + Len(ks) /\ t.keys = m.st.keys /\ t.cursor = m.st.cursor
    <2> DEFINE q == m.st.seq + Len(ks)
    <2>1. t = [m.st EXCEPT !.seq = q] /\ q \in Nat /\ q = w + Len(ks)
        BY <1>1, <1>3 DEF w
    <2> HIDE DEF q
    <2> QED BY <1>1, <2>1 DEF KafkaState
<1> HIDE DEF t
<1>9. g \in KafkaSession(n, e)
    BY <1>6, <1>7, <1>8 DEF KafkaSession
<1>10. g.batch = rs /\ g.st = t /\ g.acked = m.acked
    BY <1>7 DEF KafkaSession
<1>11. Len(b) \in Nat
    BY <1>1
<1>12. t.seq = v + Len(rs)
    BY <1>3, <1>5, <1>6, <1>8, <1>11
<1> QED BY <1>6, <1>8, <1>9, <1>10, <1>12 DEF b, g, Sweeps

LEMMA GoneRow ==
    ASSUME FeedOK, NEW k \in Key, NEW n \in Nat, n <= Len(log), \A i \in LiveAt(log, n) : log[i].key # k
    PROVE  RowAt(k, n) = NoRow /\ RowShows(log, k, [val |-> NoRow, pos |-> n])
<1> DEFINE q == [val |-> NoRow, pos |-> n]
<1>0. q.val = NoRow /\ q.pos = n
    OBVIOUS
<1>1. CASE \E i \in 1..n : log[i].key = k
    <2>1. PICK i \in 1..n : /\ log[i].key = k /\ RowAt(k, n) = log[i].val
                            /\ \A j \in i + 1..n : log[j].key # k
        BY <1>1, RowAtIs
    <2>2. log[i].val = NoRow
        BY <2>1 DEF LiveAt
    <2>3. RowShows(log, k, q)
        BY <1>0, <2>1, <2>2 DEF RowShows
    <2> QED BY <2>1, <2>2, <2>3
<1>2. CASE \A i \in 1..n : log[i].key # k
    <2>1. RowAt(k, n) = NoRow
        BY <1>2, RowAtIs
    <2>2. RowShows(log, k, q)
        BY <1>0, <1>2 DEF RowShows
    <2> QED BY <2>1, <2>2
<1> QED BY <1>1, <1>2

\* What the end of a replay finds.
AtEnd ==
    /\ KafkaInv /\ ksess.on /\ stream.phase = "replay" /\ stream.todo = {}
BeforeQueue == ksess.st.seq - Len(ksess.batch)

LEMMA AtEndFacts ==
    ASSUME AtEnd
    PROVE  /\ FeedOK /\ log \in Seq(ChangeRecord) /\ Len(log) \in Nat /\ epoch \in Nat /\ stream.at \in Nat
           /\ stream.at <= Len(log) /\ topic \in TopicState /\ TopicOK(log, topic)
           /\ settled \subseteq 1..Len(log) /\ ksess \in KafkaSession(Len(log), epoch)
           /\ ksess.st.keys \in SUBSET Key /\ ksess.batch \in Seq(Queued)
           /\ BeforeQueue \in Nat /\ ksess.st.seq = BeforeQueue + Len(ksess.batch)
           /\ QueueOK(log, ksess.batch, BeforeQueue) /\ InStepAll(topic, BeforeQueue, ksess.st.keys)
           /\ ksess.inReset /\ ksess.seen = {log[i].key : i \in LiveAt(log, stream.at)}
           /\ Replaying(log, topic, settled, ksess, stream)
           /\ Prepared(log, topic, settled, kdur, lost, epoch, floor, ksess, stream)
<1>1. /\ KafkaInv /\ ksess.on /\ stream.phase = "replay" /\ stream.todo = {}
    BY DEF AtEnd
<1>2. /\ FeedOK /\ log \in Seq(ChangeRecord) /\ Len(log) \in Nat /\ epoch \in Nat /\ stream.at \in Nat
      /\ stream.at <= Len(log) /\ topic \in TopicState
      /\ Prepared(log, topic, settled, kdur, lost, epoch, floor, ksess, stream)
    BY <1>1, KafkaFacts DEF Prepared
<1>3. /\ ksess \in KafkaSession(Len(log), epoch) /\ TopicOK(log, topic) /\ settled \subseteq 1..Len(log)
      /\ KafkaSessionInv(log, topic, settled, ksess, kdur, stream, epoch)
    BY <1>2 DEF Prepared
<1>4. Replaying(log, topic, settled, ksess, stream)
    BY <1>1, <1>3 DEF KafkaSessionInv
<1>5. ksess.inReset /\ ksess.seen = {log[i].key : i \in LiveAt(log, stream.at)}
    <2>1. LiveAt(log, stream.at) \ stream.todo = LiveAt(log, stream.at)
        BY <1>1
    <2> QED BY <1>4, <2>1 DEF Replaying
<1>6. ksess.st.keys \in SUBSET Key /\ ksess.batch \in Seq(Queued) /\ ksess.st.seq \in Nat
      /\ Len(ksess.batch) \in Nat
    BY <1>2, <1>3, KafkaSessionFacts
<1>7. BeforeQueue \in Nat /\ QueueOK(log, ksess.batch, BeforeQueue)
      /\ InStepAll(topic, BeforeQueue, ksess.st.keys)
    BY <1>1, <1>2, RefusedInStep DEF BeforeQueue
<1>8. ksess.st.seq = BeforeQueue + Len(ksess.batch)
    BY <1>6 DEF BeforeQueue
<1> QED BY <1>2, <1>3, <1>4, <1>5, <1>6, <1>7, <1>8

LEMMA SweptFinite ==
    ASSUME AtEnd
    PROVE  IsFiniteSet(Swept(ksess)) /\ Swept(ksess) \in SUBSET Key
           /\ \A k \in Swept(ksess) : stream.at > 0 /\ \A i \in LiveAt(log, stream.at) : log[i].key # k
<1> DEFINE X == Swept(ksess)
           n == Len(log)
<1>1. /\ n \in Nat /\ TopicOK(log, topic) /\ topic \in TopicState /\ ksess.st.keys \in SUBSET Key
      /\ InStepAll(topic, BeforeQueue, ksess.st.keys) /\ stream.at \in Nat
      /\ ksess.seen = {log[i].key : i \in LiveAt(log, stream.at)}
      /\ Replaying(log, topic, settled, ksess, stream)
    BY AtEndFacts
<1>2. X \in SUBSET Key /\ \A k \in X : k \in ksess.st.keys /\ k \notin ksess.seen
    BY <1>1 DEF Swept
<1> HIDE DEF X, n
<1>3. ASSUME NEW k \in X
      PROVE  stream.at > 0 /\ \E i \in 1..n : log[i].key = k
    <2> DEFINE r == topic[k].kept
    <2>1. r \in TopicRecord
        BY <1>1, <1>2 DEF TopicState
    <2>2. r.pos \in Nat
        BY <2>1 DEF TopicRecord
    <2>3. r.val # NoRow
        BY <1>1, <1>2 DEF InStepAll, InStep
    <2>4. Shows(log, k, r) /\ r.pos <= stream.at
        BY <1>1, <1>2 DEF TopicOK, Replaying
    <2> HIDE DEF r
    <2>5. r.pos > 0 /\ r.pos <= n
        BY <2>3, <2>4 DEF Shows, n
    <2> DEFINE q == [val |-> r.val, pos |-> r.pos]
    <2>6. RowShows(log, k, q) /\ q.val = r.val /\ q.pos = r.pos
        BY <2>4 DEF Shows
    <2>7. \E i \in 1..r.pos : log[i].key = k
        BY <2>3, <2>6 DEF RowShows
    <2> QED BY <1>1, <2>2, <2>4, <2>5, <2>7
<1> DEFINE f == [k \in X |-> CHOOSE i \in 1..n : log[i].key = k]
<1>4. \A k \in X : f[k] \in 1..n /\ log[f[k]].key = k
    BY <1>3
<1>5. f \in Injection(X, 1..n)
    <2>1. f \in [X -> 1..n]
        BY <1>4
    <2>2. \A a, b \in X : f[a] = f[b] => a = b
        BY <1>4
    <2> HIDE DEF f
    <2> QED BY <2>1, <2>2 DEF Injection, IsInjective
<1>6. IsFiniteSet(1..n)
    BY <1>1, FS_Interval
<1>7. IsFiniteSet(X)
    <2> HIDE DEF f
    <2> QED BY <1>5, <1>6, FS_Injection
<1>8. \A k \in X : \A i \in LiveAt(log, stream.at) : log[i].key # k
    BY <1>1, <1>2
<1> QED BY <1>2, <1>3, <1>7, <1>8 DEF X

\* The queue with the tombstones.
EndQueue(rs) == SweepQueue(ksess.batch, BeforeQueue, Swept(ksess), stream.at, rs)

LEMMA EndQueueFacts ==
    ASSUME AtEnd, NEW rs, EndQueue(rs)
    PROVE  /\ rs \in Seq(Queued) /\ Numbered(rs, BeforeQueue)
           /\ \A i \in DOMAIN rs : rs[i].pos \in 1..Len(log) /\ rs[i].pos <= stream.at
                                     /\ Shows(log, rs[i].key, rs[i])
                                     /\ \A j \in rs[i].pos + 1..stream.at : log[j].key # rs[i].key
<1>1. /\ FeedOK /\ log \in Seq(ChangeRecord) /\ Len(log) \in Nat /\ stream.at \in Nat /\ stream.at <= Len(log)
      /\ QueueOK(log, ksess.batch, BeforeQueue) /\ BeforeQueue \in Nat /\ ksess.batch \in Seq(Queued)
      /\ Replaying(log, topic, settled, ksess, stream)
    BY AtEndFacts
<1>2. /\ rs \in Seq(Queued) /\ Numbered(rs, BeforeQueue)
      /\ \A i \in DOMAIN rs :
            \/ i \in DOMAIN ksess.batch /\ rs[i] = ksess.batch[i]
            \/ rs[i].key \in Swept(ksess) /\ rs[i].val = NoRow /\ rs[i].pos = stream.at
    BY DEF EndQueue, SweepQueue
<1>3. ASSUME NEW i \in DOMAIN rs
      PROVE  /\ rs[i].pos \in 1..Len(log) /\ rs[i].pos <= stream.at /\ Shows(log, rs[i].key, rs[i])
             /\ \A j \in rs[i].pos + 1..stream.at : log[j].key # rs[i].key
    <2>1. CASE i \in DOMAIN ksess.batch /\ rs[i] = ksess.batch[i]
        <3> DEFINE r == ksess.batch[i]
        <3>1. r.pos \in 1..Len(log) /\ r.key = log[r.pos].key /\ r.val = log[r.pos].val
            BY <1>1, <2>1 DEF QueueOK
        <3>2. Shows(log, r.key, r)
            BY <1>1, <2>1, QueueShows
        <3>3. r.pos \in LiveAt(log, stream.at)
            BY <1>1, <2>1 DEF Replaying
        <3> HIDE DEF r
        <3>4. r.pos \in 1..stream.at /\ \A j \in r.pos + 1..stream.at : log[j].key # log[r.pos].key
            BY <3>3 DEF LiveAt
        <3>5. rs[i] = r
            BY <2>1 DEF r
        <3> QED BY <1>1, <3>1, <3>2, <3>4, <3>5
    <2>2. CASE rs[i].key \in Swept(ksess) /\ rs[i].val = NoRow /\ rs[i].pos = stream.at
        <3>1. rs[i].key \in Key /\ stream.at > 0 /\ \A j \in LiveAt(log, stream.at) : log[j].key # rs[i].key
            BY <2>2, SweptFinite
        <3>2. RowShows(log, rs[i].key, [val |-> NoRow, pos |-> stream.at])
            BY <1>1, <3>1, GoneRow
        <3>3. rs[i].pos \in 1..Len(log) /\ rs[i].pos <= stream.at
            BY <1>1, <2>2, <3>1
        <3>4. Shows(log, rs[i].key, rs[i])
            BY <1>1, <2>2, <3>2 DEF Shows
        <3>5. \A j \in rs[i].pos + 1..stream.at : FALSE
            BY <1>1, <2>2
        <3> QED BY <3>3, <3>4, <3>5
    <2> QED BY <1>2, <2>1, <2>2
<1> QED BY <1>2, <1>3

\* What a reader of the topic sees once the tombstones are acknowledged too.
LEMMA EndTopic ==
    ASSUME AtEnd, NEW rs, EndQueue(rs), NEW U, U = Publish(topic, rs, DOMAIN rs)
    PROVE  /\ TopicOK(log, U) /\ InStepAll(U, BeforeQueue + Len(rs), KeysAfter(ksess.st.keys, rs))
           /\ \A k \in Key : KeyMoved(rs, k, topic[k], U[k])
<1> DEFINE v == BeforeQueue
           w == v + Len(rs)
           K == ksess.st.keys
<1>1. /\ TopicOK(log, topic) /\ topic \in TopicState /\ v \in Nat /\ K \in SUBSET Key
      /\ InStepAll(topic, v, K)
    BY AtEndFacts
<1>2. /\ rs \in Seq(Queued) /\ Numbered(rs, v) /\ \A i \in DOMAIN rs : Shows(log, rs[i].key, rs[i])
    BY EndQueueFacts
<1> HIDE DEF v, K
<1>3. DOMAIN rs \in SUBSET (DOMAIN rs) /\ \A i \in DOMAIN rs : rs[i].ver = v + i - 1
    BY <1>2 DEF Numbered
<1>4. TopicOK(log, U)
    BY <1>1, <1>2, <1>3, PublishedShows
<1>5. InStepQueue(topic, rs, v, K, U, w)
    BY <1>1, <1>2 DEF InStepQueue
<1> HIDE DEF w
<1>6. InStepAll(U, w, KeysAfter(K, rs)) /\ \A k \in Key : KeyMoved(rs, k, topic[k], U[k])
    BY <1>5, InStepAllKept
<1> QED BY <1>4, <1>6 DEF v, w, K

\* A key that the queue leaves alone: its row is in the snapshot and published,
\* or it has none, here and there.
LEMMA EndUnmoved ==
    ASSUME AtEnd, NEW rs, EndQueue(rs), NEW k \in Key, \A i \in DOMAIN rs : rs[i].key # k
    PROVE  \/ /\ topic[k].kept.pos \in LiveAt(log, stream.at) /\ log[topic[k].kept.pos].key = k
              /\ {j \in 1..topic[k].kept.pos : log[j].key = k} \subseteq settled \cup Settles(log, ksess.batch)
           \/ /\ topic[k].kept.val = NoRow /\ topic[k].last.val = NoRow
              /\ \A i \in LiveAt(log, stream.at) : log[i].key # k
<1>1. /\ InStepAll(topic, BeforeQueue, ksess.st.keys) /\ ksess.inReset
      /\ ksess.seen = {log[i].key : i \in LiveAt(log, stream.at)} /\ stream.todo = {}
      /\ Replaying(log, topic, settled, ksess, stream) /\ QueueOK(log, ksess.batch, BeforeQueue)
    BY AtEndFacts DEF AtEnd
<1>2. /\ \A i \in DOMAIN ksess.batch : i \in DOMAIN rs /\ rs[i] = ksess.batch[i]
      /\ \A x \in Swept(ksess) : \E i \in DOMAIN rs : rs[i].key = x
    BY DEF EndQueue, SweepQueue
<1>3. CASE k \in ksess.seen
    <2>1. PICK i \in LiveAt(log, stream.at) : log[i].key = k
        BY <1>1, <1>3
    <2>2. i \in LiveAt(log, stream.at) \ stream.todo
        BY <1>1
    <2>3. ASSUME NEW j \in DOMAIN ksess.batch, ksess.batch[j].pos = i PROVE FALSE
        <3>1. ksess.batch[j].key = k
            BY <1>1, <2>1, <2>3 DEF QueueOK
        <3> QED BY <1>2, <3>1
    <2>4. topic[log[i].key].kept.pos = i
          /\ {j \in 1..i : log[j].key = log[i].key} \subseteq settled \cup Settles(log, ksess.batch)
        BY <1>1, <2>2, <2>3 DEF Replaying
    <2> QED BY <2>1, <2>4
<1>4. CASE k \notin ksess.seen
    <2>1. k \notin Swept(ksess)
        BY <1>2
    <2>2. k \notin ksess.st.keys
        BY <1>1, <1>4, <2>1 DEF Swept
    <2>3. topic[k].kept.val = NoRow /\ topic[k].last = topic[k].kept
        BY <1>1, <2>2 DEF InStepAll, InStep
    <2> QED BY <1>1, <1>4, <2>3
<1> QED BY <1>3, <1>4

LEMMA EndGood ==
    ASSUME AtEnd, NEW rs, EndQueue(rs), NEW U, U = Publish(topic, rs, DOMAIN rs)
    PROVE  GoodAll(log, U, stream.at)
<1>1. /\ FeedOK /\ log \in Seq(ChangeRecord) /\ Len(log) \in Nat /\ stream.at \in Nat
      /\ stream.at <= Len(log) /\ topic \in TopicState /\ Replaying(log, topic, settled, ksess, stream)
    BY AtEndFacts
<1>2. TopicOK(log, U) /\ \A k \in Key : KeyMoved(rs, k, topic[k], U[k])
    BY EndTopic
<1> SUFFICES ASSUME NEW k \in Key PROVE Good(log, k, U[k].kept, stream.at)
    BY DEF GoodAll
<1> DEFINE r == U[k].kept
<1>3. r.pos \in Nat /\ Shows(log, k, r)
    <2>1. r \in TopicRecord
        BY <1>2 DEF TopicOK, TopicState
    <2> QED BY <1>2, <2>1 DEF TopicRecord, TopicOK
<1>4. ASSUME NEW x \in DOMAIN rs, rs[x].key = k, r = RecordOf(rs[x])
      PROVE  Good(log, k, r, stream.at)
    <2>1. r.pos = rs[x].pos
        BY <1>4 DEF RecordOf
    <2>2. \A j \in rs[x].pos + 1..stream.at : log[j].key # rs[x].key
        BY EndQueueFacts
    <2>3. \A j \in r.pos + 1..stream.at : log[j].key # k
        BY <1>4, <2>1, <2>2
    <2> HIDE DEF r
    <2> QED BY <1>1, <1>3, <2>3, GoodHere
<1>5. CASE (\A i \in DOMAIN rs : rs[i].key # k) /\ U[k] = topic[k]
    <2>1. CASE r.pos \in LiveAt(log, stream.at) /\ log[r.pos].key = k
        <3>1. \A j \in r.pos + 1..stream.at : log[j].key # k
            BY <2>1 DEF LiveAt
        <3> HIDE DEF r
        <3>2. Good(log, k, r, stream.at)
            BY <1>1, <1>3, <3>1, GoodHere
        <3> QED BY <3>2 DEF r
    <2>2. CASE r.val = NoRow /\ \A i \in LiveAt(log, stream.at) : log[i].key # k
        <3> DEFINE q == [val |-> r.val, pos |-> stream.at]
        <3>1. RowShows(log, k, [val |-> NoRow, pos |-> stream.at])
            BY <1>1, <2>2, GoneRow
        <3>2. RowShows(log, k, q) /\ q.pos = stream.at
            BY <2>2, <3>1
        <3>3. \A j \in q.pos + 1..stream.at : FALSE
            BY <1>1, <3>2
        <3>4. CurrentTo(log, k, q, stream.at)
            BY <3>2, <3>3 DEF CurrentTo
        <3>5. r.pos <= stream.at
            BY <1>1, <1>5 DEF Replaying
        <3>6. stream.at \in 0..Len(log) /\ stream.at >= r.pos
            BY <1>1, <1>3, <3>5
        <3> QED BY <3>4, <3>6 DEF Good
    <2> QED BY <1>5, <2>1, <2>2, EndUnmoved
<1> QED BY <1>2, <1>4, <1>5 DEF KeyMoved

\* Every change up to the snapshot's position is settled then.
LEMMA EndCovers ==
    ASSUME AtEnd, NEW rs, EndQueue(rs), NEW U, U = Publish(topic, rs, DOMAIN rs),
           NEW j \in 1..stream.at
    PROVE  j \in settled \cup SettledBy(rs, DOMAIN rs) \cup GoneBoth(stream.at, U)
<1>1. /\ FeedOK /\ log \in Seq(ChangeRecord) /\ Len(log) \in Nat /\ stream.at \in Nat
      /\ stream.at <= Len(log) /\ topic \in TopicState
    BY AtEndFacts
<1>2. \A k \in Key : KeyMoved(rs, k, topic[k], U[k])
    BY EndTopic
<1>3. /\ rs \in Seq(Queued)
      /\ \A i \in DOMAIN rs : /\ rs[i].pos \in 1..Len(log)
                              /\ \A x \in rs[i].pos + 1..stream.at : log[x].key # rs[i].key
    BY EndQueueFacts
<1> DEFINE k == log[j].key
<1>4. j \in 1..Len(log) /\ j \in Nat /\ k \in Key
    BY <1>1, LogRecord
<1>5. CASE \E i \in DOMAIN rs : rs[i].key = k
    <2>1. PICK i \in DOMAIN rs : rs[i].key = k
        BY <1>5
    <2>2. rs[i].pos \in Nat /\ j \notin rs[i].pos + 1..stream.at
        BY <1>3, <2>1
    <2>3. j \in 1..rs[i].pos
        BY <1>1, <1>4, <2>2
    <2> QED BY <2>1, <2>3 DEF SettledBy
<1>6. CASE \A i \in DOMAIN rs : rs[i].key # k
    <2> DEFINE p == topic[k].kept.pos
    <2> HIDE DEF k
    <2>1. CASE /\ p \in LiveAt(log, stream.at) /\ log[p].key = k
               /\ {x \in 1..p : log[x].key = k} \subseteq settled \cup Settles(log, ksess.batch)
        <3>1. p \in Nat /\ \A x \in p + 1..stream.at : log[x].key # k
            BY <1>1, <2>1 DEF LiveAt
        <3>2. j \in 1..p
            BY <1>1, <1>4, <3>1 DEF k
        <3>3. j \in settled \cup Settles(log, ksess.batch)
            BY <2>1, <3>2 DEF k
        <3>4. j \notin Settles(log, ksess.batch)
            <4>1. \A i \in DOMAIN ksess.batch : i \in DOMAIN rs /\ rs[i] = ksess.batch[i]
                BY DEF EndQueue, SweepQueue
            <4> QED BY <1>6, <4>1 DEF Settles, k
        <3> QED BY <3>3, <3>4
    <2>2. CASE /\ topic[k].last.val = NoRow /\ \A i \in LiveAt(log, stream.at) : log[i].key # k
        <3>1. RowAt(k, stream.at) = NoRow
            BY <1>1, <1>4, <2>2, GoneRow
        <3>2. U[k] = topic[k]
            BY <1>2, <1>4, <1>6 DEF KeyMoved
        <3> QED BY <2>2, <3>1, <3>2 DEF GoneBoth, k
    <2> QED BY <1>4, <1>6, <2>1, <2>2, EndUnmoved
<1> QED BY <1>5, <1>6

\* The state stored at the end of a replay.
EndResult(rs, U, R, f, b) ==
    /\ EndQueue(rs) /\ U = Publish(topic, rs, DOMAIN rs) /\ b = StillLost(f, lost)
    /\ R = settled \cup SettledBy(rs, DOMAIN rs) \cup GoneBoth(stream.at, U)
    /\ f \in KafkaState(Len(log), epoch) /\ f.cursor = CursorAt(stream.at)
    /\ f.seq = BeforeQueue + Len(rs) /\ f.keys = KeysAfter(ksess.st.keys, rs)

LEMMA EndStored ==
    ASSUME AtEnd, NEW rs, NEW U, NEW R, NEW f, NEW b, EndResult(rs, U, R, f, b)
    PROVE  /\ Outcome(log, U, R, f, b, epoch, floor) /\ GoodAll(log, U, Position(f.cursor))
           /\ Covers(f.cursor, R) /\ f.cursor # NoCursor /\ f.cursor.pos = stream.at /\ b = 0
<1>0. /\ EndQueue(rs) /\ U = Publish(topic, rs, DOMAIN rs) /\ b = StillLost(f, lost)
      /\ R = settled \cup SettledBy(rs, DOMAIN rs) \cup GoneBoth(stream.at, U)
      /\ f \in KafkaState(Len(log), epoch) /\ f.cursor = CursorAt(stream.at)
      /\ f.seq = BeforeQueue + Len(rs) /\ f.keys = KeysAfter(ksess.st.keys, rs)
    BY DEF EndResult
<1> USE <1>0
<1>1. /\ FeedOK /\ log \in Seq(ChangeRecord) /\ Len(log) \in Nat /\ stream.at \in Nat
      /\ stream.at <= Len(log) /\ settled \subseteq 1..Len(log) /\ stream.at \in 0..Len(log)
      /\ Prepared(log, topic, settled, kdur, lost, epoch, floor, ksess, stream)
    BY AtEndFacts
<1>2. TopicOK(log, U) /\ InStepAll(U, f.seq, f.keys) /\ GoodAll(log, U, stream.at)
    BY EndTopic, EndGood
<1>3. f.cursor # NoCursor /\ f.cursor.pos = stream.at /\ Position(f.cursor) = stream.at
    BY <1>1, CursorAtOK DEF Position
<1>4. \A j \in 1..stream.at : j \in R
    BY EndCovers
<1>5. Covers(f.cursor, R)
    BY <1>3, <1>4 DEF Covers
<1>6. R \subseteq 1..Len(log)
    <2>1. rs \in Seq(Queued) /\ \A i \in DOMAIN rs : rs[i].pos \in 1..Len(log)
        BY EndQueueFacts
    <2>2. (\A i \in DOMAIN rs : rs[i].pos <= Len(log)) /\ DOMAIN rs \in SUBSET (DOMAIN rs)
        BY <1>1, <2>1
    <2>3. SettledBy(rs, DOMAIN rs) \subseteq 1..Len(log)
        BY <1>1, <2>1, <2>2, SettledByOK
    <2>4. GoneBoth(stream.at, U) \subseteq 1..Len(log)
        BY <1>1, GoneBothOK
    <2> QED BY <1>1, <2>3, <2>4
<1>7. b = 0
    <2>1. lost = 0
        BY <1>1, RefusedInStep DEF AtEnd
    <2> QED BY <2>1 DEF StillLost
<1>8. KnownAll(log, U, Position(f.cursor), f.seq, f.keys, b)
    BY <1>2, InStepKnown
<1>9. StoredOK(log, R, f, b, epoch, floor)
    BY <1>5, <1>7 DEF StoredOK
<1> QED BY <1>2, <1>3, <1>5, <1>6, <1>7, <1>8, <1>9 DEF Outcome

\* Sweep at the end of a replay.
LEMMA EndSweep ==
    ASSUME AtEnd, NEW g, g = Sweep(ksess, stream.at)
    PROVE  /\ g \in KafkaSession(Len(log), epoch) /\ EndQueue(g.batch)
           /\ g.st.seq = BeforeQueue + Len(g.batch) /\ g.st.keys = ksess.st.keys
           /\ g.st.cursor = ksess.st.cursor /\ g.acked = ksess.acked
<1> DEFINE X == Swept(ksess)
           n == Len(log)
           at == stream.at
           v == BeforeQueue
<1>1. /\ n \in Nat /\ epoch \in Nat /\ at \in Nat /\ ksess \in KafkaSession(n, epoch) /\ v \in Nat
      /\ ksess.st.seq = v + Len(ksess.batch) /\ QueueOK(log, ksess.batch, v)
    BY AtEndFacts
<1>2. Numbered(ksess.batch, v)
    BY <1>1, QueueNumbered
<1>3. IsFiniteSet(X)
    BY SweptFinite
<1>4. CanSweep(n, epoch, ksess, at, v, X)
    BY <1>1, <1>2, <1>3 DEF CanSweep
<1>6. g = Sweep(ksess, at)
    OBVIOUS
<1> HIDE DEF n, at, v, X
<1>5. /\ g \in KafkaSession(n, epoch) /\ SweepQueue(ksess.batch, v, X, at, g.batch)
      /\ g.st.seq = v + Len(g.batch) /\ g.st.keys = ksess.st.keys /\ g.st.cursor = ksess.st.cursor
      /\ g.acked = ksess.acked
    BY <1>4, <1>6, SweepIs DEF Sweeps
<1> QED BY <1>5 DEF EndQueue, n, at, v, X

SyncedSession(g, c) == [[[g EXCEPT !.last = c] EXCEPT !.inReset = FALSE] EXCEPT !.seen = {}]

LEMMA SyncedSessionIs ==
    ASSUME NEW n \in Nat, NEW e \in Nat, NEW g \in KafkaSession(n, e), NEW c \in CursorsTo(n, e),
           NEW h, h = SyncedSession(g, c)
    PROVE  /\ h \in KafkaSession(n, e) /\ h.st = g.st /\ h.batch = g.batch /\ h.last = c
           /\ h.acked = g.acked /\ ~h.inReset
<1>1. h \in KafkaSession(n, e)
    BY DEF KafkaSession, SyncedSession
<1>2. h.st = g.st /\ h.batch = g.batch /\ h.last = c /\ h.acked = g.acked
    BY DEF KafkaSession, SyncedSession
<1>3. ~h.inReset
    BY DEF KafkaSession, SyncedSession
<1> QED BY <1>1, <1>2, <1>3

\* The step Synced succeeds after a replay.
LEMMA EndCheckpoint ==
    ASSUME AtEnd, NEW g, g = Sweep(ksess, stream.at),
           NEW h, h = SyncedSession(g, CursorAt(stream.at)),
           KCheckpoint(h, AfterSynced, CursorAt(stream.at), stream.at)
    PROVE  KafkaInv' /\ settled \subseteq settled' /\ log' = log
<1> DEFINE c == CursorAt(stream.at)
           s == AfterSynced
<1>0. KafkaInv
    BY DEF AtEnd
<1>1. /\ FeedOK /\ StreamOK /\ Len(log) \in Nat /\ epoch \in Nat /\ stream.at \in Nat /\ stream.at <= Len(log)
      /\ faults \in Nat /\ kdur \in KafkaState(Len(log), epoch) /\ consumer = "kafka"
    BY <1>0, KafkaFacts
<1>2. /\ g \in KafkaSession(Len(log), epoch) /\ EndQueue(g.batch)
      /\ g.st.seq = BeforeQueue + Len(g.batch) /\ g.st.keys = ksess.st.keys
      /\ g.st.cursor = ksess.st.cursor /\ g.acked = ksess.acked
    BY EndSweep
<1>3. c \in CursorsTo(Len(log), epoch) /\ c # NoCursor /\ c = [epoch |-> epoch, pos |-> stream.at]
    <2>1. c \in Cursor /\ c # NoCursor /\ c.pos = stream.at /\ c.epoch = epoch
        BY <1>1, CursorAtOK
    <2> QED BY <1>1, <2>1 DEF CursorsTo, CursorAt
<1> HIDE DEF c
<1>4. h = SyncedSession(g, c)
    BY DEF c
<1>5. /\ h \in KafkaSession(Len(log), epoch) /\ h.st = g.st /\ h.batch = g.batch /\ h.last = c
      /\ h.acked = g.acked /\ ~h.inReset
    BY <1>1, <1>2, <1>3, <1>4, SyncedSessionIs
<1>7. /\ topic' = Publish(topic, h.batch, DOMAIN h.batch)
      /\ settled' = settled \cup SettledBy(h.batch, DOMAIN h.batch) \cup GoneBoth(stream.at, topic')
      /\ kdur' = Checkpointed(h, c) /\ ksess' = [Produced(h) EXCEPT !.st = kdur', !.acked = 0]
      /\ stream' = s /\ lost' = LostAfter(kdur'.cursor) /\ UNCHANGED <<consumer, log, floor, epoch, faults>>
    BY DEF KCheckpoint, c
<1>8. h.st.cursor = kdur.cursor
    <2>1. Prepared(log, topic, settled, kdur, lost, epoch, floor, ksess, stream)
        BY AtEndFacts
    <2> QED BY <1>0, <1>2, <1>5, <2>1, PreparedFacts DEF KafkaSessionInv
<1>9. kdur' = Stored(h, kdur, c)
    BY <1>1, <1>5, <1>7, <1>8, CheckpointedIs
<1>10. /\ kdur' \in KafkaState(Len(log), epoch) /\ kdur'.seq = h.st.seq
       /\ kdur'.keys = KeysAfter(h.st.keys, h.batch) /\ kdur'.cursor = c
    <2> DEFINE f == kdur'
    <2>1. f = Stored(h, kdur, c)
        BY <1>9
    <2> HIDE DEF f
    <2>2. /\ f \in KafkaState(Len(log), epoch) /\ f.seq = h.st.seq
          /\ f.keys = KeysAfter(h.st.keys, h.batch) /\ f.cursor = IF c = NoCursor THEN kdur.cursor ELSE c
        BY <1>1, <1>3, <1>5, <2>1, StoredTyped
    <2> QED BY <1>3, <2>2 DEF f
<1>11. lost' = StillLost(kdur', lost)
    BY <1>7 DEF LostAfter, StillLost
<1>12. /\ Outcome(log, topic', settled', kdur', lost', epoch, floor)
       /\ GoodAll(log, topic', Position(kdur'.cursor)) /\ Covers(kdur'.cursor, settled')
       /\ kdur'.cursor # NoCursor /\ kdur'.cursor.pos = stream.at
    <2>1. /\ kdur'.cursor = CursorAt(stream.at) /\ kdur'.seq = BeforeQueue + Len(g.batch)
          /\ kdur'.keys = KeysAfter(ksess.st.keys, g.batch)
        BY <1>2, <1>5, <1>10 DEF c
    <2>2. /\ topic' = Publish(topic, g.batch, DOMAIN g.batch)
          /\ settled' = settled \cup SettledBy(g.batch, DOMAIN g.batch) \cup GoneBoth(stream.at, topic')
        BY <1>5, <1>7
    <2> DEFINE rs == g.batch
               f == kdur'
               b == lost'
               U == topic'
               R == settled'
    <2>3. EndResult(rs, U, R, f, b)
        BY <1>2, <1>10, <1>11, <2>1, <2>2 DEF EndResult
    <2> HIDE DEF rs, f, b, U, R
    <2>4. /\ Outcome(log, U, R, f, b, epoch, floor) /\ GoodAll(log, U, Position(f.cursor))
          /\ Covers(f.cursor, R) /\ f.cursor # NoCursor /\ f.cursor.pos = stream.at /\ b = 0
        BY <2>3, EndStored
    <2> QED BY <2>4 DEF f, b, U, R
<1>13. ksess' = NextSession(h, kdur', 0)
    BY <1>7 DEF NextSession
<1>14. /\ ksess' \in KafkaSession(Len(log), epoch) /\ ksess'.batch = <<>> /\ ksess'.st = kdur'
       /\ ksess'.acked = 0 /\ (ksess'.inReset <=> h.inReset) /\ ksess'.last = h.last
    <2> DEFINE f == kdur'
               x == ksess'
    <2>1. f \in KafkaState(Len(log), epoch) /\ x = NextSession(h, f, 0) /\ 0 \in Nat
        BY <1>10, <1>13
    <2>0. Len(log) \in Nat /\ epoch \in Nat /\ h \in KafkaSession(Len(log), epoch)
        BY <1>1, <1>5
    <2> HIDE DEF f, x
    <2>2. /\ x \in KafkaSession(Len(log), epoch) /\ x.batch = <<>> /\ x.st = f
          /\ (x.inReset <=> h.inReset) /\ x.seen = h.seen /\ x.last = h.last /\ x.acked = 0
        BY <2>0, <2>1, NextSessionIs
    <2> QED BY <2>2 DEF f, x
<1>15. s \in StreamState /\ s.phase = "live" /\ s.at = stream.at
    BY <1>1, MarkTaken
<1>16. FeedOK' /\ StreamOK'
    BY <1>1, <1>7, MarkTakenOK
<1>17. Covers(ksess'.last, settled')
    BY <1>5, <1>10, <1>12, <1>14
<1>18. Resuming(ksess', kdur', s, epoch)
    <2>1. Len(ksess'.batch) = 0 /\ DOMAIN ksess'.batch = {}
        BY <1>14
    <2>2. ksess'.last = [epoch |-> epoch, pos |-> s.at] /\ ksess'.last # NoCursor /\ ~ksess'.inReset
        BY <1>3, <1>5, <1>14, <1>15
    <2>3. kdur'.cursor # NoCursor /\ kdur'.cursor.pos = s.at /\ s.at - kdur'.cursor.pos = 0 /\ s.at \in Nat
        BY <1>1, <1>12, <1>15
    <2> QED BY <2>1, <2>2, <2>3 DEF Resuming
<1>19. KafkaSessionInv(log, topic', settled', ksess', kdur', stream', epoch)
    <2>1. /\ stream'.phase \in {"resume", "live"} => Resuming(ksess', kdur', stream', epoch)
          /\ stream'.phase # "reset" /\ stream'.phase # "replay"
        BY <1>7, <1>15, <1>18
    <2> QED BY <1>1, <1>14, <1>17, <2>1, NewSessionInv
<1>20. RefusedOK(ksess', kdur', lost', stream', epoch, floor)
    BY <1>7, <1>15 DEF RefusedOK
<1> QED BY <1>0, <1>7, <1>12, <1>14, <1>16, <1>19, <1>20, OutcomeSession

\* The step Synced fails after a replay.
LEMMA EndFails ==
    ASSUME AtEnd, "reset_unsaved" \notin KafkaFaults, NEW g, g = Sweep(ksess, stream.at),
           KFail(g, CursorAt(stream.at), TRUE, stream.at)
    PROVE  KafkaInv' /\ settled \subseteq settled' /\ log' = log
<1> DEFINE c == CursorAt(stream.at)
           rs == g.batch
           p == Max({lost, g.acked})
<1>0. KafkaInv /\ stream.phase = "replay"
    BY DEF AtEnd
<1>1. /\ FeedOK /\ StreamOK /\ Len(log) \in Nat /\ epoch \in Nat /\ stream.at \in Nat /\ stream.at <= Len(log)
      /\ faults \in Nat /\ kdur \in KafkaState(Len(log), epoch) /\ lost \in Nat /\ settled \subseteq 1..Len(log)
      /\ stream.at \in 0..Len(log)
      /\ Prepared(log, topic, settled, kdur, lost, epoch, floor, ksess, stream)
    BY <1>0, KafkaFacts, AtEndFacts
<1>2. /\ g \in KafkaSession(Len(log), epoch) /\ EndQueue(rs)
      /\ g.st.seq = BeforeQueue + Len(rs) /\ g.st.keys = ksess.st.keys
      /\ g.st.cursor = ksess.st.cursor /\ g.acked = ksess.acked
    BY EndSweep
<1>3. /\ faults' \in Nat /\ ksess' = KIdle /\ stream' = Off /\ UNCHANGED <<consumer, log, floor, epoch>>
    BY <1>1 DEF KFail
<1>4. FeedOK' /\ StreamOK' /\ stream'.phase = "off"
    BY <1>1, <1>3, MarkTakenOK DEF Off
<1>5. PICK Q \in SUBSET (DOMAIN rs) :
        /\ topic' = Publish(topic, rs, Q)
        /\ settled' = settled \cup SettledBy(rs, Q) \cup GoneBoth(stream.at, topic')
        /\ \/ kdur' = kdur /\ lost' = LastPos(rs, Q, p)
           \/ /\ Q = DOMAIN rs
              /\ kdur' = Checkpointed(g, c) /\ lost' = LostAfter(kdur'.cursor)
        /\ NoLostReset(lost', kdur'.cursor)
    BY DEF KFail
<1>6. g.acked \in Nat /\ g.st.cursor = kdur.cursor
    <2>1. g.acked \in Nat
        BY <1>1, <1>2, KafkaSessionFacts
    <2>2. ksess.st.cursor = kdur.cursor
        BY <1>0, <1>1, PreparedFacts DEF KafkaSessionInv
    <2> QED BY <1>2, <2>1, <2>2
<1> HIDE DEF c, rs
<1>7. rs \in Seq(Queued) /\ \A i \in DOMAIN rs : rs[i].pos <= Len(log) /\ rs[i].pos > 0
    <2>1. rs \in Seq(Queued) /\ \A i \in DOMAIN rs : rs[i].pos \in 1..Len(log)
        BY <1>2, EndQueueFacts
    <2> QED BY <1>1, <2>1
<1>8. settled \subseteq settled' /\ settled' \subseteq 1..Len(log)
    <2>1. SettledBy(rs, Q) \subseteq 1..Len(log)
        BY <1>1, <1>7, SettledByOK
    <2>2. GoneBoth(stream.at, topic') \subseteq 1..Len(log)
        BY <1>1, GoneBothOK
    <2> QED BY <1>1, <1>5, <2>1, <2>2
<1>9. CASE kdur' = kdur /\ lost' = LastPos(rs, Q, p)
    <2>1. p \in Nat /\ p >= lost /\ p >= g.acked
        BY <1>1, <1>6, MaxOfTwo
    <2> HIDE DEF p
    <2>2. /\ lost' \in Nat /\ lost' >= p /\ AckedTo(rs, Q, lost')
        <3> DEFINE b == lost'
        <3>1. b = LastPos(rs, Q, p)
            BY <1>9
        <3>2. \A i \in DOMAIN rs : rs[i].pos <= Len(log)
            BY <1>7
        <3> HIDE DEF b
        <3>3. b \in Nat /\ b >= p /\ AckedTo(rs, Q, b)
            BY <1>1, <1>7, <2>1, <3>1, <3>2, LastPosIs
        <3> QED BY <3>3 DEF b
    <2>3. lost' >= ksess.acked
        BY <1>2, <1>6, <2>1, <2>2
    <2>4. lost' > 0 => CanResume(kdur.cursor, epoch, floor)
        BY <1>3, <1>5, <1>9 DEF NoLostReset, Resumable, CanResume
    <2>5. Outcome(log, topic', settled', kdur, lost', epoch, floor)
        <3>1. \A i \in DOMAIN rs : rs[i].pos > 0
            BY <1>7
        <3> QED BY <1>0, <1>1, <1>5, <1>7, <1>8, <2>2, <2>3, <2>4, <3>1, RefusedPart
    <2> QED BY <1>0, <1>3, <1>4, <1>8, <1>9, <2>5, OutcomeIdle
<1>10. CASE /\ Q = DOMAIN rs
            /\ kdur' = Checkpointed(g, c) /\ lost' = LostAfter(kdur'.cursor)
    <2> DEFINE f == kdur'
    <2>1. c \in CursorsTo(Len(log), epoch) /\ c # NoCursor
        <3>1. c \in Cursor /\ c # NoCursor /\ c.pos = stream.at /\ c.epoch = epoch
            BY <1>1, CursorAtOK DEF c
        <3> QED BY <1>1, <3>1 DEF CursorsTo
    <2>2. f = Stored(g, kdur, c)
        BY <1>1, <1>2, <1>6, <1>10, CheckpointedIs
    <2>3. lost' = StillLost(f, lost)
        BY <1>10 DEF LostAfter, StillLost
    <2> HIDE DEF f
    <2>4. /\ f \in KafkaState(Len(log), epoch) /\ f.seq = g.st.seq
          /\ f.keys = KeysAfter(g.st.keys, g.batch) /\ f.cursor = IF c = NoCursor THEN kdur.cursor ELSE c
        BY <1>1, <1>2, <2>1, <2>2, StoredTyped
    <2>5. f.cursor = CursorAt(stream.at) /\ f.seq = BeforeQueue + Len(rs) /\ f.keys = KeysAfter(ksess.st.keys, rs)
        BY <1>2, <2>1, <2>4 DEF c, rs
    <2>6. /\ topic' = Publish(topic, rs, DOMAIN rs)
          /\ settled' = settled \cup SettledBy(rs, DOMAIN rs) \cup GoneBoth(stream.at, topic')
        BY <1>5, <1>10
    <2>7. Outcome(log, topic', settled', f, lost', epoch, floor)
        <3>1. EndResult(rs, topic', settled', f, lost')
            BY <1>2, <2>3, <2>4, <2>5, <2>6 DEF EndResult
        <3> QED BY <3>1, EndStored
    <2>8. Outcome(log, topic', settled', kdur', lost', epoch, floor)
        BY <2>7 DEF f
    <2> QED BY <1>0, <1>3, <1>4, <1>8, <2>8, OutcomeIdle
<1> QED BY <1>5, <1>9, <1>10

\* There is nothing to sweep unless the stream replayed a snapshot.
LEMMA SweepsNothing ==
    ASSUME NEW n \in Nat, NEW e \in Nat, NEW m \in KafkaSession(n, e), ~m.inReset, NEW at
    PROVE  Sweep(m, at) = m
<1> DEFINE X == Swept(m)
           ks == SetToSeq(X)
           t == [i \in DOMAIN ks |-> [key |-> ks[i], val |-> NoRow, ver |-> m.st.seq + i - 1, pos |-> at]]
<1>1. m.st \in KafkaState(n, e) /\ m.batch \in Seq(Queued) /\ m.st.seq \in Nat
    BY KafkaSessionFacts
<1>2. X = {} /\ IsFiniteSet(X)
    BY FS_EmptySet DEF Swept
<1>3. ks \in Seq(X) /\ Len(ks) \in Nat /\ DOMAIN ks = 1..Len(ks)
    BY <1>2, SetToSeqIs
<1>4. Sweep(m, at) = [m EXCEPT !.batch = @ \o t, !.st.seq = @ + Len(ks)]
    BY DEF Sweep
<1> HIDE DEF X, ks
<1>5. Len(ks) = 0 /\ DOMAIN ks = {}
    <2>1. \A i \in 1..Len(ks) : ks[i] \in {}
        BY <1>2, <1>3
    <2> QED BY <1>3, <2>1
<1>6. t = <<>>
    BY <1>5
<1> HIDE DEF t
<1>7. m.batch \o t = m.batch /\ m.st.seq + Len(ks) = m.st.seq
    BY <1>1, <1>5, <1>6
<1>8. Sweep(m, at) = [[m EXCEPT !.batch = m.batch] EXCEPT !.st = [m.st EXCEPT !.seq = m.st.seq]]
    BY <1>1, <1>4, <1>7 DEF KafkaSession, KafkaState
<1>9. [m.st EXCEPT !.seq = m.st.seq] = m.st
    BY <1>1 DEF KafkaState
<1> QED BY <1>8, <1>9 DEF KafkaSession

\* Synced: a session that resumed goes live.
LEMMA SyncedPrepared ==
    ASSUME KafkaInv, ksess.on, stream.phase = "resume", NEW h, h = SyncedSession(ksess, CursorAt(stream.at)),
           NEW s, s = AfterSynced
    PROVE  /\ Prepared(log, topic, settled, kdur, lost, epoch, floor, h, s)
           /\ s.phase = "live" /\ s.at = stream.at
<1> DEFINE c == CursorAt(stream.at)
<1>1. /\ FeedOK /\ StreamOK /\ Len(log) \in Nat /\ epoch \in Nat /\ stream.at \in Nat /\ stream.at <= Len(log)
      /\ Prepared(log, topic, settled, kdur, lost, epoch, floor, ksess, stream)
    BY KafkaFacts
<1>2. ksess \in KafkaSession(Len(log), epoch) /\ KafkaSessionInv(log, topic, settled, ksess, kdur, stream, epoch)
      /\ StoredOK(log, settled, kdur, lost, epoch, floor)
    BY <1>1 DEF Prepared
<1>3. c \in CursorsTo(Len(log), epoch) /\ c # NoCursor /\ c = [epoch |-> epoch, pos |-> stream.at]
      /\ c.pos = stream.at
    <2>1. c \in Cursor /\ c # NoCursor /\ c.pos = stream.at /\ c.epoch = epoch
        BY <1>1, CursorAtOK
    <2> QED BY <1>1, <2>1 DEF CursorsTo, CursorAt
<1>4. h = SyncedSession(ksess, c)
    OBVIOUS
<1> HIDE DEF c
<1>5. /\ h \in KafkaSession(Len(log), epoch) /\ h.st = ksess.st /\ h.batch = ksess.batch /\ h.last = c
      /\ h.acked = ksess.acked /\ ~h.inReset
    BY <1>1, <1>2, <1>3, <1>4, SyncedSessionIs
<1>6. s \in StreamState /\ s.phase = "live" /\ s.at = stream.at
    BY <1>1, MarkTaken
<1>7. Resuming(ksess, kdur, stream, epoch) /\ Covers(ksess.last, settled \cup Settles(log, ksess.batch))
    BY <1>2 DEF KafkaSessionInv
<1>8. Covers(h.last, settled \cup Settles(log, h.batch))
    <2>1. CASE ksess.last # NoCursor
        <3>1. ksess.last = c
            BY <1>3, <1>7, <2>1 DEF Resuming
        <3> QED BY <1>5, <1>7, <3>1
    <2>2. CASE ksess.last = NoCursor
        <3>1. kdur.cursor # NoCursor /\ kdur.cursor.pos = stream.at /\ Covers(kdur.cursor, settled)
            BY <1>2, <1>7, <2>2 DEF Resuming, StoredOK
        <3> QED BY <1>3, <1>5, <3>1 DEF Covers
    <2> QED BY <2>1, <2>2
<1>9. Resuming(h, kdur, s, epoch)
    <2>1. /\ kdur.cursor # NoCursor /\ kdur.cursor.pos <= s.at /\ Len(h.batch) = s.at - kdur.cursor.pos
          /\ \A i \in DOMAIN h.batch : h.batch[i].pos = kdur.cursor.pos + i
        BY <1>5, <1>6, <1>7 DEF Resuming
    <2>2. h.last = [epoch |-> epoch, pos |-> s.at] /\ h.last # NoCursor
        BY <1>3, <1>5, <1>6
    <2> QED BY <1>5, <2>1, <2>2 DEF Resuming
<1>10. KafkaSessionInv(log, topic, settled, h, kdur, s, epoch)
    BY <1>2, <1>5, <1>6, <1>8, <1>9 DEF KafkaSessionInv
<1>11. RefusedOK(h, kdur, lost, s, epoch, floor)
    BY <1>6 DEF RefusedOK
<1> QED BY <1>1, <1>5, <1>6, <1>10, <1>11 DEF Prepared

LEMMA KafkaSyncedKeeps ==
    ASSUME KafkaInv, "reset_unsaved" \notin KafkaFaults, KafkaSynced
    PROVE  KafkaInv' /\ settled \subseteq settled' /\ log' = log
<1> DEFINE g == Sweep(ksess, stream.at)
           c == CursorAt(stream.at)
           h == SyncedSession(g, c)
<1>1. /\ ksess.on /\ stream.phase \in {"resume", "replay"} /\ stream.todo = {}
      /\ \/ KCheckpoint([g EXCEPT !.last = c, !.inReset = FALSE, !.seen = {}], AfterSynced, c, stream.at)
         \/ KFail(g, c, TRUE, stream.at)
    BY DEF KafkaSynced, IsSynced
<1>2. KCheckpoint(h, AfterSynced, c, stream.at) \/ KFail(g, c, TRUE, stream.at)
    BY <1>1 DEF SyncedSession
<1>3. /\ FeedOK /\ StreamOK /\ Len(log) \in Nat /\ epoch \in Nat /\ stream.at \in Nat /\ stream.at <= Len(log)
      /\ stream.at \in 0..Len(log) /\ faults \in Nat
      /\ Prepared(log, topic, settled, kdur, lost, epoch, floor, ksess, stream)
    BY <1>1, KafkaFacts
<1>4. CASE stream.phase = "replay"
    <2>1. AtEnd
        BY <1>1, <1>4 DEF AtEnd
    <2> HIDE DEF g, h
    <2>2. g = Sweep(ksess, stream.at) /\ h = SyncedSession(g, CursorAt(stream.at))
        BY DEF g, h
    <2>3. CASE KCheckpoint(h, AfterSynced, c, stream.at)
        BY <2>1, <2>2, <2>3, EndCheckpoint
    <2>4. CASE KFail(g, c, TRUE, stream.at)
        BY <2>1, <2>2, <2>4, EndFails
    <2> QED BY <1>2, <2>3, <2>4
<1>5. CASE stream.phase = "resume"
    <2>1. ksess \in KafkaSession(Len(log), epoch) /\ KafkaSessionInv(log, topic, settled, ksess, kdur, stream, epoch)
        BY <1>3 DEF Prepared
    <2>2. ~ksess.inReset
        BY <1>5, <2>1 DEF KafkaSessionInv, Resuming
    <2>3. g = ksess
        BY <1>3, <2>1, <2>2, SweepsNothing
    <2>4. CASE KCheckpoint(h, AfterSynced, c, stream.at)
        <3> DEFINE s == AfterSynced
        <3>1. h = SyncedSession(ksess, CursorAt(stream.at))
            BY <2>3
        <3>2. KCheckpoint(h, s, c, stream.at)
            BY <2>4
        <3>3. FeedOK' /\ StreamOK'
            BY <1>3, <2>4, MarkTakenOK DEF KCheckpoint
        <3> HIDE DEF g, h
        <3>4. /\ Prepared(log, topic, settled, kdur, lost, epoch, floor, h, s)
              /\ s.phase = "live" /\ s.at = stream.at
            BY <1>1, <1>5, <3>1, SyncedPrepared
        <3> HIDE DEF s
        <3> QED BY <1>3, <3>2, <3>3, <3>4, KCheckpointLive
    <2>5. CASE KFail(g, c, TRUE, stream.at)
        <3>1. KFail(ksess, c, TRUE, stream.at)
            BY <2>3, <2>5
        <3>2. FailsLive(ksess, stream, c)
            BY <1>5 DEF FailsLive
        <3> QED BY <1>3, <3>1, <3>2, KFailKeeps
    <2> QED BY <1>2, <2>4, <2>5
<1> QED BY <1>1, <1>4, <1>5

\* The session ends without a checkpoint.
LEMMA KafkaResyncKeeps ==
    ASSUME KafkaInv, "reset_unsaved" \notin KafkaFaults, KafkaResync
    PROVE  KafkaInv' /\ settled \subseteq settled' /\ log' = log
<1>1. /\ ksess.on /\ stream.phase # "off" /\ ksess' = KIdle /\ stream' = Off
      /\ lost' = Max({lost, ksess.acked}) /\ NoLostReset(lost', kdur.cursor)
      /\ UNCHANGED <<consumer, log, floor, epoch, settled, kdur, topic>>
      /\ faults' = (IF Overrun \/ stream.phase = "closed" THEN faults ELSE faults - 1)
      /\ (Overrun \/ stream.phase = "closed" \/ faults > 0)
    BY DEF KafkaResync, CanClose
<1>2. /\ FeedOK /\ StreamOK /\ Len(log) \in Nat /\ epoch \in Nat /\ faults \in Nat /\ lost \in Nat
      /\ stream \in StreamState /\ topic \in TopicState
      /\ Prepared(log, topic, settled, kdur, lost, epoch, floor, ksess, stream)
    BY <1>1, KafkaFacts
<1>3. ksess.acked \in Nat /\ KafkaSessionInv(log, topic, settled, ksess, kdur, stream, epoch)
    BY <1>2, PreparedFacts
<1>4. lost' \in Nat /\ lost' >= lost /\ lost' >= ksess.acked /\ (lost' = lost \/ lost' = ksess.acked)
    <2> DEFINE z == lost'
    <2>1. z = Max({lost, ksess.acked})
        BY <1>1
    <2> HIDE DEF z
    <2>2. z \in Nat /\ z >= lost /\ z >= ksess.acked /\ (z = lost \/ z = ksess.acked)
        BY <1>2, <1>3, <2>1, MaxOfTwo
    <2> QED BY <2>2 DEF z
<1>5. lost' > 0 => CanResume(kdur.cursor, epoch, floor)
    BY <1>1 DEF NoLostReset, Resumable, CanResume
<1>6. faults' \in Nat
    BY <1>1, <1>2
<1>7. FeedOK' /\ StreamOK' /\ stream'.phase = "off"
    BY <1>1, <1>2, <1>6, MarkTakenOK DEF Off
<1>8. ksess.acked = 0 /\ lost' = lost
    <2>1. CASE stream.phase \in {"reset", "replay", "closed"}
        <3>1. ~CanResume(kdur.cursor, epoch, floor)
            BY <1>2, <2>1, RefusedInStep
        <3> QED BY <1>2, <1>3, <1>4, <1>5, <3>1
    <2>2. CASE stream.phase \in {"resume", "live"}
        <3>1. ksess.acked = 0
            BY <1>3, <2>2 DEF KafkaSessionInv
        <3> QED BY <1>2, <1>4, <3>1
    <2> QED BY <1>1, <1>2, <2>1, <2>2 DEF StreamState
<1>9. Outcome(log, topic', settled', kdur', lost', epoch, floor)
    <2>1. TopicOK(log, topic) /\ settled \subseteq 1..Len(log) /\ StoredOK(log, settled, kdur, lost, epoch, floor)
          /\ KnownAll(log, topic, Position(kdur.cursor), kdur.seq, kdur.keys, lost)
        BY <1>2, <1>8 DEF Prepared
    <2>2. CanResume(kdur.cursor, epoch, floor) => GoodAll(log, topic, Position(kdur.cursor))
        BY DEF KafkaInv
    <2> QED BY <1>1, <1>8, <2>1, <2>2 DEF Outcome
<1> QED BY <1>1, <1>7, <1>9, OutcomeIdle

-----------------------------------------------------------------------------
\* The source moves: the log gets longer, and what was said of it stays true.
Longer(l, L) ==
    /\ l \in Seq(ChangeRecord) /\ L \in Seq(ChangeRecord) /\ Len(l) <= Len(L)
    /\ AgreesUpTo(l, L)

LEMMA LongerIs ==
    ASSUME NEW l \in Seq(ChangeRecord), NEW L, L = l \/ \E e \in ChangeRecord : L = Append(l, e)
    PROVE  Longer(l, L)
<1>1. CASE L = l
    BY <1>1 DEF Longer, AgreesUpTo
<1>2. ASSUME NEW e \in ChangeRecord, L = Append(l, e) PROVE Longer(l, L)
    <2>1. L \in Seq(ChangeRecord) /\ Len(l) <= Len(L)
        BY <1>2
    <2>2. AgreesUpTo(l, L)
        BY <1>2, AppendKeeps
    <2> QED BY <2>1, <2>2 DEF Longer
<1> QED BY <1>1, <1>2

LEMMA LongerShows ==
    ASSUME NEW l, NEW L, Longer(l, L), NEW k \in Key, NEW r \in TopicRecord, Shows(l, k, r)
    PROVE  Shows(L, k, r)
<1> DEFINE q == [val |-> r.val, pos |-> r.pos]
<1>1. r.val \in Content /\ r.pos \in Nat /\ q \in [val : Content, pos : Nat] /\ q.pos = r.pos
    BY DEF TopicRecord
<1>2. Len(l) \in Nat /\ Len(L) \in Nat /\ Len(l) <= Len(L) /\ r.pos <= Len(l) /\ RowShows(l, k, q)
      /\ (r.val # NoRow => r.pos > 0)
    BY DEF Longer, AgreesUpTo, Shows
<1> HIDE DEF q
<1>3. CurrentTo(l, k, q, 0)
    <2>1. \A j \in q.pos + 1..0 : FALSE
        BY <1>1
    <2> QED BY <1>2, <2>1 DEF CurrentTo
<1>4. CurrentTo(L, k, q, 0)
    BY <1>1, <1>2, <1>3 DEF Longer, AgreesUpTo
<1>5. RowShows(L, k, q) /\ r.pos <= Len(L)
    BY <1>1, <1>2, <1>4 DEF CurrentTo
<1> QED BY <1>2, <1>5 DEF Shows, q

LEMMA LongerGood ==
    ASSUME NEW l, NEW L, Longer(l, L), NEW k \in Key, NEW r \in TopicRecord, NEW n \in Nat, n <= Len(l),
           Good(l, k, r, n)
    PROVE  Good(L, k, r, n)
<1>1. r.val \in Content /\ r.pos \in Nat /\ Len(l) \in Nat /\ Len(L) \in Nat /\ Len(l) <= Len(L)
    BY DEF TopicRecord, Longer, AgreesUpTo
<1>2. PICK m \in 0..Len(l) : m >= r.pos /\ CurrentTo(l, k, [val |-> r.val, pos |-> m], n)
    BY DEF Good
<1> DEFINE q == [val |-> r.val, pos |-> m]
<1>3. q \in [val : Content, pos : Nat] /\ q.pos <= Len(l) /\ CurrentTo(l, k, q, n)
    BY <1>1, <1>2
<1> HIDE DEF q
<1>4. CurrentTo(L, k, q, n)
    BY <1>3 DEF Longer, AgreesUpTo
<1>5. m \in 0..Len(L)
    BY <1>1, <1>2
<1> QED BY <1>2, <1>4, <1>5 DEF Good, q

LEMMA LongerTopic ==
    ASSUME NEW l, NEW L, Longer(l, L), NEW T, TopicOK(l, T)
    PROVE  /\ TopicOK(L, T)
           /\ \A n \in Nat : n <= Len(l) /\ GoodAll(l, T, n) => GoodAll(L, T, n)
           /\ \A p \in Nat : \A v, K, lst : KnownAll(l, T, p, v, K, lst) => KnownAll(L, T, p, v, K, lst)
<1>1. T \in TopicState /\ \A k \in Key : T[k].kept \in TopicRecord /\ Shows(l, k, T[k].kept)
    BY DEF TopicOK, TopicState
<1>2. TopicOK(L, T)
    BY <1>1, LongerShows DEF TopicOK
<1>3. ASSUME NEW n \in Nat, n <= Len(l), GoodAll(l, T, n) PROVE GoodAll(L, T, n)
    BY <1>1, <1>3, LongerGood DEF GoodAll
<1>4. ASSUME NEW p \in Nat, NEW v, NEW K, NEW lst, KnownAll(l, T, p, v, K, lst)
      PROVE  KnownAll(L, T, p, v, K, lst)
    <2> SUFFICES ASSUME NEW k \in Key, Ahead(l, k, T[k], p, v, lst) PROVE Ahead(L, k, T[k], p, v, lst)
        BY <1>4 DEF KnownAll
    <2> DEFINE i == T[k].kept.pos
    <2>1. i \in Nat /\ i <= Len(l) /\ Len(l) \in Nat
        <3>1. T[k].kept \in TopicRecord /\ Shows(l, k, T[k].kept)
            BY <1>1
        <3>2. i \in Nat
            BY <3>1 DEF TopicRecord
        <3> QED BY <3>1, <3>2 DEF Shows, Longer, AgreesUpTo
    <2>2. p < i
        BY DEF Ahead
    <2>3. i \in 1..Len(l)
        BY <2>1, <2>2
    <2>4. L[i] = l[i]
        BY <2>3 DEF Longer, AgreesUpTo
    <2> QED BY <2>4 DEF Ahead
<1> QED BY <1>2, <1>3, <1>4

LEMMA LongerQueue ==
    ASSUME NEW l, NEW L, Longer(l, L), NEW rs
    PROVE  /\ \A v : QueueOK(l, rs, v) => QueueOK(L, rs, v)
           /\ Settles(l, rs) \subseteq Settles(L, rs)
<1>1. Len(l) \in Nat /\ Len(L) \in Nat /\ Len(l) <= Len(L) /\ \A i \in 1..Len(l) : L[i] = l[i] /\ i \in 1..Len(L)
    BY DEF Longer, AgreesUpTo
<1>2. ASSUME NEW v, QueueOK(l, rs, v) PROVE QueueOK(L, rs, v)
    BY <1>1, <1>2 DEF QueueOK
<1>3. Settles(l, rs) \subseteq Settles(L, rs)
    BY <1>1 DEF Settles
<1> QED BY <1>2, <1>3

LEMMA LongerReplay ==
    ASSUME NEW l, NEW L, Longer(l, L), NEW T, NEW S, NEW m, NEW s, Replaying(l, T, S, m, s),
           s.at \in Nat, s.at <= Len(l), NEW z, z.at = s.at, z.todo = s.todo
    PROVE  Replaying(L, T, S, m, z)
<1>1. LiveAt(L, s.at) = LiveAt(l, s.at) /\ Len(l) \in Nat
    BY DEF Longer, AgreesUpTo
<1> DEFINE W == LiveAt(l, s.at) \ s.todo
<1>2. \A i \in W : i \in 1..Len(l)
    BY <1>1 DEF LiveAt
<1>3. \A i \in W : L[i] = l[i]
    BY <1>2 DEF Longer, AgreesUpTo
<1>4. Settles(l, m.batch) \subseteq Settles(L, m.batch)
    BY LongerQueue
<1>5. {L[i].key : i \in W} = {l[i].key : i \in W}
    BY <1>3
<1>6. /\ m.inReset /\ m.last = NoCursor /\ s.todo \subseteq LiveAt(l, s.at)
      /\ (\A i \in DOMAIN m.batch : m.batch[i].pos \in W)
      /\ m.seen = {l[i].key : i \in W} /\ InStepAll(T, m.st.seq - Len(m.batch), m.st.keys)
      /\ \A k \in Key : T[k].kept.pos <= s.at
      /\ \A i \in W : /\ {j \in 1..i : l[j].key = l[i].key} \subseteq S \cup Settles(l, m.batch)
                      /\ T[l[i].key].kept.pos = i \/ \E j \in DOMAIN m.batch : m.batch[j].pos = i
    BY DEF Replaying
<1>7. ASSUME NEW i \in W
      PROVE  /\ {j \in 1..i : L[j].key = L[i].key} \subseteq S \cup Settles(L, m.batch)
             /\ T[L[i].key].kept.pos = i \/ \E j \in DOMAIN m.batch : m.batch[j].pos = i
    <2>1. \A j \in 1..i : L[j] = l[j]
        <3>1. i \in 1..Len(l) /\ \A j \in 1..i : j \in 1..Len(l)
            BY <1>1, <1>2
        <3> QED BY <3>1 DEF Longer, AgreesUpTo
    <2>2. {j \in 1..i : L[j].key = L[i].key} = {j \in 1..i : l[j].key = l[i].key}
        BY <1>3, <2>1
    <2> QED BY <1>3, <1>4, <1>6, <2>2
<1>8. LiveAt(L, z.at) \ z.todo = W
    BY <1>1
<1> HIDE DEF W
<1> QED BY <1>1, <1>5, <1>6, <1>7, <1>8 DEF Replaying

LEMMA CursorsGrow ==
    ASSUME NEW n \in Nat, NEW e \in Nat, NEW N \in Nat, NEW E \in Nat, n <= N, e <= E
    PROVE  /\ CursorsTo(n, e) \subseteq CursorsTo(N, E) /\ KafkaState(n, e) \subseteq KafkaState(N, E)
           /\ KafkaSession(n, e) \subseteq KafkaSession(N, E)
<1>1. ASSUME NEW c \in CursorsTo(n, e) PROVE c \in CursorsTo(N, E)
    <2>1. c # NoCursor => c \in Cursor /\ c.pos <= n /\ c.epoch <= e
        BY DEF CursorsTo
    <2>2. c # NoCursor => c.pos \in Nat /\ c.epoch \in Nat
        BY <2>1 DEF Cursor
    <2>3. c # NoCursor => c.pos <= N /\ c.epoch <= E
        BY <2>1, <2>2
    <2> QED BY <2>1, <2>3 DEF CursorsTo
<1>2. KafkaState(n, e) \subseteq KafkaState(N, E)
    BY <1>1 DEF KafkaState
<1>3. KafkaSession(n, e) \subseteq KafkaSession(N, E)
    BY <1>1, <1>2 DEF KafkaSession
<1> QED BY <1>1, <1>2, <1>3

LEMMA FeedEpoch ==
    ASSUME FeedOK, FeedNext, stream'.phase \notin {"off", "closed"}
    PROVE  epoch' = epoch
<1>1. CASE SourceRestart
    <2>1. stream' = [stream EXCEPT !.phase = IF @ = "off" THEN @ ELSE "closed"] /\ stream \in StreamState
        BY <1>1 DEF SourceRestart, FeedOK
    <2>2. stream'.phase = IF stream.phase = "off" THEN stream.phase ELSE "closed"
        BY <2>1 DEF StreamState
    <2> QED BY <2>2
<1>2. ASSUME NEW n, Prune(n) PROVE epoch' = epoch
    BY <1>2 DEF Prune
<1>3. ASSUME NEW k, NEW v, Change(k, v) PROVE epoch' = epoch
    BY <1>3 DEF Change
<1> QED BY <1>1, <1>2, <1>3 DEF FeedNext

LEMMA RefusalLasts ==
    ASSUME NEW n, NEW e \in Nat, NEW E \in Nat, NEW fl \in Nat, NEW FL \in Nat, e <= E, fl <= FL,
           NEW c \in CursorsTo(n, e)
    PROVE  /\ CanResume(c, E, FL) => CanResume(c, e, fl)
           /\ e # E => ~CanResume(c, E, FL)
<1>1. c # NoCursor => c \in Cursor /\ c.epoch <= e
    BY DEF CursorsTo
<1>2. c # NoCursor => c.pos \in Nat /\ c.epoch \in Nat
    BY <1>1 DEF Cursor
<1>3. e # E => ~CanResume(c, E, FL)
    BY <1>1, <1>2 DEF CanResume
<1>4. CanResume(c, E, FL) => CanResume(c, e, fl)
    BY <1>2, <1>3 DEF CanResume
<1> QED BY <1>3, <1>4

LEMMA KafkaFeedKeeps ==
    ASSUME KafkaInv, "reset_unsaved" \notin KafkaFaults, KafkaFeed
    PROVE  KafkaInv' /\ settled' = settled
<1>1. /\ FeedNext /\ UNCHANGED <<kdur, ksess, topic, lost>>
      /\ (IF ksess.on THEN Max({lost, ksess.acked}) ELSE lost) > 0 => CanResume(kdur.cursor, epoch', floor')
    BY DEF KafkaFeed, kvars, NoLostReset, Resumable, CanResume
<1>2. /\ FeedOK /\ StreamOK /\ Len(log) \in Nat /\ epoch \in Nat /\ floor \in Nat /\ consumer = "kafka"
      /\ log \in Seq(ChangeRecord) /\ stream \in StreamState /\ stream.at \in Nat /\ stream.at <= Len(log)
      /\ kdur \in KafkaState(Len(log), epoch) /\ lost \in Nat /\ topic \in TopicState
    BY KafkaFacts
<1>3. /\ FeedOK' /\ StreamOK' /\ consumer' = consumer /\ settled' = settled
      /\ epoch' >= epoch /\ floor' >= floor
      /\ (log' = log \/ \E e \in ChangeRecord : log' = Append(log, e))
      /\ stream'.todo = stream.todo /\ stream'.at = stream.at
      /\ (stream'.phase = stream.phase \/ stream'.phase = "closed")
      /\ (stream.phase = "off" => stream'.phase = "off")
      /\ (epoch' = epoch => stream'.phase = stream.phase)
      /\ (stream'.phase \notin {"off", "closed"} => epoch' = epoch)
    BY <1>1, <1>2, FeedStepOK, FeedEpoch
<1>4. epoch' \in Nat /\ floor' \in Nat /\ Len(log') \in Nat /\ stream' \in StreamState
    BY <1>3 DEF FeedOK
<1> DEFINE l == log
           L == log'
           e == epoch
           E == epoch'
           s == stream
           z == stream'
           p == Position(kdur.cursor)
<1>5. Longer(l, L)
    BY <1>2, <1>3, LongerIs
<1>6. Len(l) <= Len(L)
    BY <1>5 DEF Longer
<1> HIDE DEF l, L
<1>7. /\ kdur \in KafkaState(Len(L), E) /\ kdur.cursor \in CursorsTo(Len(l), e) /\ p \in Nat /\ p <= Len(l)
    <2>1. kdur \in KafkaState(Len(l), e) /\ Len(l) \in Nat /\ Len(L) \in Nat /\ e <= E
        BY <1>2, <1>3, <1>4 DEF l, L
    <2>2. kdur.cursor \in CursorsTo(Len(l), e) /\ p \in 0..Len(l)
        BY <1>2, <2>1, StoredFacts
    <2>3. kdur \in KafkaState(Len(L), E)
        BY <1>2, <1>4, <1>6, <2>1, CursorsGrow
    <2> QED BY <2>1, <2>2, <2>3
<1>8. /\ TopicOK(l, topic) /\ StoredOK(l, settled, kdur, lost, e, floor) /\ settled \subseteq 1..Len(l)
    BY DEF KafkaInv, l
<1>9. /\ TopicOK(L, topic) /\ (GoodAll(l, topic, p) => GoodAll(L, topic, p))
      /\ (KnownAll(l, topic, p, kdur.seq, kdur.keys, lost) => KnownAll(L, topic, p, kdur.seq, kdur.keys, lost))
    BY <1>5, <1>7, <1>8, LongerTopic
<1>10. settled \subseteq 1..Len(L)
    BY <1>2, <1>4, <1>6, <1>8 DEF l, L
<1>11. /\ CanResume(kdur.cursor, E, floor') => CanResume(kdur.cursor, e, floor)
       /\ e # E => ~CanResume(kdur.cursor, E, floor')
    BY <1>2, <1>3, <1>4, <1>7, RefusalLasts
<1>12. (CanResume(kdur.cursor, E, floor') \/ z.phase \in {"resume", "live"}) => GoodAll(L, topic, p)
    <2>1. (CanResume(kdur.cursor, e, floor) \/ s.phase \in {"resume", "live"}) => GoodAll(l, topic, p)
        BY DEF KafkaInv, l
    <2> QED BY <1>3, <1>9, <1>11, <2>1
<1>13. CASE ksess = KIdle /\ stream.phase = "off" /\ KnownAll(l, topic, p, kdur.seq, kdur.keys, lost)
    <2>1. lost > 0 => CanResume(kdur.cursor, E, floor')
        BY <1>1, <1>13 DEF KIdle
    <2>2. StoredOK(L, settled, kdur, lost, E, floor')
        BY <1>7, <1>8, <2>1 DEF StoredOK
    <2>3. KnownAll(L, topic, p, kdur.seq, kdur.keys, lost)
        BY <1>9, <1>13
    <2> QED BY <1>1, <1>2, <1>3, <1>9, <1>10, <1>12, <1>13, <2>2, <2>3 DEF KafkaInv, L
<1>14. CASE /\ ksess \in KafkaSession(Len(l), e)
            /\ KafkaSessionInv(l, topic, settled, ksess, kdur, s, e)
            /\ RefusedOK(ksess, kdur, lost, s, e, floor)
            /\ ksess.acked = 0 => KnownAll(l, topic, p, kdur.seq, kdur.keys, lost)
    <2>1. /\ ksess.on /\ ksess.acked \in Nat /\ ksess.last \in CursorsTo(Len(l), e)
        <3>1. Len(l) \in Nat
            BY <1>2 DEF l
        <3> QED BY <1>2, <1>14, <3>1, KafkaSessionFacts DEF KafkaSession
    <2>2. lost > 0 \/ ksess.acked > 0 => CanResume(kdur.cursor, E, floor')
        <3> DEFINE y == Max({lost, ksess.acked})
        <3>1. y \in Nat /\ y >= lost /\ y >= ksess.acked
            BY <1>2, <2>1, MaxOfTwo
        <3>2. y > 0 => CanResume(kdur.cursor, E, floor')
            BY <1>1, <2>1
        <3> HIDE DEF y
        <3> QED BY <1>2, <2>1, <3>1, <3>2
    <2>3. StoredOK(L, settled, kdur, lost, E, floor')
        BY <1>2, <1>7, <1>8, <2>2 DEF StoredOK
    <2>4. ksess \in KafkaSession(Len(L), E)
        <3>1. Len(l) \in Nat /\ Len(L) \in Nat /\ e <= E
            BY <1>2, <1>3, <1>4 DEF l, L
        <3> QED BY <1>2, <1>4, <1>6, <1>14, <3>1, CursorsGrow
    <2>5. /\ CanResume(ksess.last, E, floor') => CanResume(ksess.last, e, floor)
          /\ e # E => ~CanResume(ksess.last, E, floor')
        BY <1>2, <1>3, <1>4, <2>1, RefusalLasts
    <2>6. z.phase \in {"reset", "replay", "closed"} => ~CanResume(kdur.cursor, E, floor') /\ lost = 0 /\ ksess.acked = 0
        <3>1. s.phase \in {"reset", "replay", "closed"} => ~CanResume(kdur.cursor, e, floor)
            BY <1>14 DEF RefusedOK
        <3>2. z.phase \in {"reset", "replay", "closed"} => ~CanResume(kdur.cursor, E, floor')
            BY <1>3, <1>11, <3>1
        <3> QED BY <1>2, <2>1, <2>2, <3>2
    <2>7. RefusedOK(ksess, kdur, lost, z, E, floor')
        <3>1. z.phase # "off"
            BY <1>3, <1>14 DEF RefusedOK
        <3>2. z.phase = "closed" => ~CanResume(ksess.last, E, floor')
            BY <1>3, <1>14, <2>5 DEF RefusedOK
        <3> QED BY <2>6, <3>1, <3>2 DEF RefusedOK
    <2>8. KafkaSessionInv(L, topic, settled, ksess, kdur, z, E)
        <3>1. /\ QueueOK(L, ksess.batch, ksess.st.seq - Len(ksess.batch))
              /\ Settles(l, ksess.batch) \subseteq Settles(L, ksess.batch)
            BY <1>5, <1>14, LongerQueue DEF KafkaSessionInv
        <3>2. Covers(ksess.last, settled \cup Settles(L, ksess.batch))
            BY <1>14, <3>1 DEF KafkaSessionInv, Covers
        <3>3. z.phase # "replay" => ksess.acked = 0
            BY <1>3, <1>14, <2>6 DEF KafkaSessionInv
        <3>4. z.phase \in {"resume", "live"} => Resuming(ksess, kdur, z, E)
            <4> SUFFICES ASSUME z.phase \in {"resume", "live"} PROVE Resuming(ksess, kdur, z, E)
                OBVIOUS
            <4>1. s.phase \in {"resume", "live"} /\ E = e /\ z.at = s.at
                BY <1>3
            <4>2. Resuming(ksess, kdur, s, e)
                BY <1>14, <4>1 DEF KafkaSessionInv
            <4> QED BY <4>1, <4>2 DEF Resuming
        <3>5. z.phase = "replay" => Replaying(L, topic, settled, ksess, z)
            <4> SUFFICES ASSUME z.phase = "replay" PROVE Replaying(L, topic, settled, ksess, z)
                OBVIOUS
            <4>1. s.phase = "replay" /\ z.at = s.at /\ z.todo = s.todo /\ s.at \in Nat /\ s.at <= Len(l)
                BY <1>2, <1>3 DEF l
            <4>2. Replaying(l, topic, settled, ksess, s)
                BY <1>14, <4>1 DEF KafkaSessionInv
            <4> HIDE DEF s, z
            <4> QED BY <1>5, <4>1, <4>2, LongerReplay
        <3>6. z.phase = "reset" =>
                 /\ ~ksess.inReset /\ ksess.last = NoCursor /\ ksess.batch = <<>>
                 /\ z.todo = LiveAt(L, z.at) /\ \A k \in Key : topic[k].kept.pos <= z.at
            <4> SUFFICES ASSUME z.phase = "reset"
                         PROVE  /\ ~ksess.inReset /\ ksess.last = NoCursor /\ ksess.batch = <<>>
                                /\ z.todo = LiveAt(L, z.at) /\ \A k \in Key : topic[k].kept.pos <= z.at
                OBVIOUS
            <4>1. s.phase = "reset" /\ z.at = s.at /\ z.todo = s.todo /\ s.at \in Nat /\ s.at <= Len(l)
                BY <1>2, <1>3 DEF l
            <4>2. LiveAt(L, s.at) = LiveAt(l, s.at)
                BY <1>5, <4>1 DEF Longer, AgreesUpTo
            <4> QED BY <1>14, <4>1, <4>2 DEF KafkaSessionInv
        <3>7. /\ Len(ksess.batch) <= ksess.st.seq /\ ksess.st.cursor = kdur.cursor
              /\ ksess.acked = 0 => ksess.st.keys = kdur.keys /\ ksess.st.seq = kdur.seq + Len(ksess.batch)
            BY <1>14 DEF KafkaSessionInv
        <3> HIDE DEF s, z, e, E
        <3> QED BY <3>1, <3>2, <3>3, <3>4, <3>5, <3>6, <3>7 DEF KafkaSessionInv
    <2>9. ksess.acked = 0 => KnownAll(L, topic, p, kdur.seq, kdur.keys, lost)
        BY <1>9, <1>14
    <2> QED BY <1>1, <1>2, <1>3, <1>9, <1>10, <1>12, <2>3, <2>4, <2>7, <2>8, <2>9 DEF KafkaInv, L
<1> QED BY <1>3, <1>13, <1>14 DEF KafkaInv, l

LEMMA KafkaInitOK == Init /\ consumer = "kafka" => KafkaInv
<1> SUFFICES ASSUME Init, consumer = "kafka" PROVE KafkaInv
    OBVIOUS
<1>1. /\ log = <<>> /\ floor = 0 /\ epoch = 0 /\ stream = Off /\ settled = {} /\ faults = MaxFault
      /\ kdur = NewState /\ ksess = KIdle /\ lost = 0
      /\ topic = [k \in Key |-> [kept |-> NoRecord, last |-> NoRecord]]
    BY DEF Init, FeedInit, KafkaInit
<1>2. FeedOK /\ StreamOK /\ Len(log) = 0 /\ stream.phase = "off"
    BY <1>1, FeedAssumption DEF FeedOK, StreamOK, StreamState, Off
<1>3. kdur.cursor = NoCursor /\ kdur.seq = 0 /\ kdur.keys = {} /\ Position(kdur.cursor) = 0
    BY <1>1 DEF NewState, Position
<1>4. NoRecord \in TopicRecord /\ NoRecord.pos = 0 /\ NoRecord.ver = -1 /\ NoRecord.val = NoRow
    BY DEF NoRecord, TopicRecord, Content
<1>5. topic \in TopicState /\ \A k \in Key : topic[k].kept = NoRecord /\ topic[k].last = NoRecord
    BY <1>1, <1>4 DEF TopicState
<1>6. ASSUME NEW k \in Key PROVE Shows(log, k, topic[k].kept)
    <2>1. RowShows(log, k, [val |-> NoRow, pos |-> 0])
        BY DEF RowShows
    <2> QED BY <1>2, <1>4, <1>5, <2>1 DEF Shows
<1>7. TopicOK(log, topic)
    BY <1>5, <1>6 DEF TopicOK
<1>8. kdur \in KafkaState(Len(log), epoch)
    BY <1>1 DEF KafkaState, NewState, CursorsTo
<1>9. StoredOK(log, settled, kdur, lost, epoch, floor)
    BY <1>1, <1>3, <1>8 DEF StoredOK, Covers
<1>10. ~CanResume(kdur.cursor, epoch, floor)
    BY <1>3 DEF CanResume
<1>11. ASSUME NEW k \in Key PROVE InStep(k, topic[k], kdur.seq, kdur.keys)
    BY <1>3, <1>4, <1>5 DEF InStep
<1>12. KnownAll(log, topic, Position(kdur.cursor), kdur.seq, kdur.keys, lost)
    BY <1>11 DEF KnownAll
<1> QED BY <1>1, <1>2, <1>7, <1>9, <1>10, <1>12 DEF KafkaInv

\* A session that has caught up with an empty queue has stored the position of
\* the end of the log, up to which every kept record is good.
LEMMA CaughtUpExact == KafkaInv => TopicExact
<1> SUFFICES ASSUME KafkaInv, ksess.on, ksess.batch = <<>>, stream.phase = "live",
                    stream.at = Len(log), NEW k \in Key
             PROVE  topic[k].kept.val = RowAt(k, Len(log))
    BY DEF TopicExact
<1>1. FeedOK /\ Len(log) \in Nat /\ epoch \in Nat /\ kdur \in KafkaState(Len(log), epoch)
    BY KafkaFacts
<1>2. ksess # KIdle
    BY DEF KIdle
<1>3. Resuming(ksess, kdur, stream, epoch)
    BY <1>2 DEF KafkaInv, KafkaSessionInv
<1>4. kdur.cursor # NoCursor /\ kdur.cursor.pos \in Nat /\ Position(kdur.cursor) = kdur.cursor.pos
    BY <1>1, <1>3, StoredFacts DEF Resuming
<1>5. Len(ksess.batch) = 0 /\ 0 = Len(log) - kdur.cursor.pos
    BY <1>3 DEF Resuming
<1>6. Position(kdur.cursor) = Len(log)
    BY <1>1, <1>4, <1>5
<1>7. GoodAll(log, topic, Len(log))
    BY <1>6 DEF KafkaInv
<1>8. PICK m \in 0..Len(log) : CurrentTo(log, k, [val |-> topic[k].kept.val, pos |-> m], Len(log))
    BY <1>7 DEF GoodAll, Good
<1> DEFINE r == [val |-> topic[k].kept.val, pos |-> m]
<1>9. r.pos \in Nat /\ r.pos <= Len(log) /\ r.val = topic[k].kept.val /\ CurrentTo(log, k, r, Len(log))
    BY <1>1, <1>8
<1> HIDE DEF r
<1> QED BY <1>1, <1>9, CurrentRow

LEMMA KafkaDurable == KafkaInv => DeliveredOK
<1> SUFFICES ASSUME KafkaInv PROVE DeliveredOK
    OBVIOUS
<1>1. Durable = Position(kdur.cursor)
    BY DEF KafkaInv, Durable
<1>2. Len(log) \in Nat /\ epoch \in Nat /\ kdur \in KafkaState(Len(log), epoch)
    BY KafkaFacts
<1>3. settled \subseteq 1..Len(log) /\ Covers(kdur.cursor, settled)
    BY DEF KafkaInv, StoredOK
<1>4. CASE kdur.cursor = NoCursor
    BY <1>1, <1>2, <1>3, <1>4 DEF Position, DeliveredOK
<1>5. CASE kdur.cursor # NoCursor
    <2>1. Position(kdur.cursor) \in 0..Len(log) /\ Position(kdur.cursor) = kdur.cursor.pos
        BY <1>2, <1>5, StoredFacts
    <2> QED BY <1>1, <1>3, <1>5, <2>1 DEF Covers, DeliveredOK
<1> QED BY <1>4, <1>5

LEMMA KafkaKeeps ==
    ASSUME KafkaInv, "reset_unsaved" \notin KafkaFaults, KafkaNext
    PROVE  KafkaInv' /\ (D!DChange \/ D!DConsume \/ UNCHANGED D!dvars)
<1>0. KafkaInv' => DeliveredOK'
    BY KafkaDurable, PTL
<1>1. ASSUME KafkaInv', settled \subseteq settled', log' = log PROVE D!DConsume
    BY <1>0, <1>1, IsConsume
<1>2. CASE KafkaFeed
    <2>1. KafkaInv' /\ settled' = settled
        BY <1>2, KafkaFeedKeeps
    <2>2. CASE log' = log
        BY <1>1, <2>1, <2>2
    <2>3. CASE log' # log
        <3>1. Len(log') = Len(log) + 1 /\ consumer' = consumer /\ consumer = "kafka"
            BY <1>2, <2>3, FeedStepOK DEF KafkaInv, KafkaFeed
        <3>2. Durable' = Durable
            BY <1>2, <3>1 DEF Durable, Position, KafkaFeed, kvars
        <3>3. D!DChange
            BY <2>1, <3>1, <3>2 DEF D!DChange
        <3> QED BY <2>1, <3>3
    <2> QED BY <2>2, <2>3
<1>3. CASE KafkaStep
    <2>1. KafkaInv' /\ settled \subseteq settled' /\ log' = log
        BY <1>3, KafkaStartKeeps, KafkaUpsertKeeps, KafkaDeleteKeeps, KafkaResetKeeps,
           KafkaSyncedKeeps, KafkaTickKeeps, KafkaResyncKeeps DEF KafkaStep
    <2> QED BY <1>1, <2>1
<1> QED BY <1>2, <1>3 DEF KafkaNext

-----------------------------------------------------------------------------
\* No step changes which consumer watches.
LEMMA ConsumerKept == Next => consumer' = consumer
<1>0. FeedNext => consumer' = consumer
    BY DEF FeedNext, Change, Prune, SourceRestart
<1>1. KafkaNext => consumer' = consumer
    <2>1. \A m, s, c, n, b : KContinue(m, s) \/ KProduce(m, s) \/ KCheckpoint(m, s, c, n) \/ KFail(m, c, b, n)
                                => consumer' = consumer
        BY DEF KContinue, KProduce, KCheckpoint, KFail
    <2>2. \A m, s, c : MaybeFlush(m, s, c) => consumer' = consumer
        BY <2>1 DEF MaybeFlush
    <2>3. KafkaStart \/ KafkaResync => consumer' = consumer
        BY DEF KafkaStart, KafkaResync
    <2>4. KafkaUpsert \/ KafkaDelete => consumer' = consumer
        BY <2>2 DEF KafkaUpsert, KafkaDelete
    <2>5. KafkaReset \/ KafkaSynced \/ KafkaTick => consumer' = consumer
        BY <2>1 DEF KafkaReset, KafkaSynced, KafkaTick
    <2> QED BY <1>0, <2>3, <2>4, <2>5 DEF KafkaNext, KafkaStep, KafkaFeed
<1>2. ArchiveNext => consumer' = consumer
    <2>1. AFail => consumer' = consumer
        BY DEF AFail
    <2>2. \A a, h, t : ATake(a, h, t) => consumer' = consumer
        BY DEF ATake
    <2>3. ArchiveSkip \/ ArchiveUpsert => consumer' = consumer
        BY <2>2 DEF ArchiveSkip, ArchiveUpsert
    <2>4. ArchiveReset \/ ArchiveSynced \/ ArchiveFlush => consumer' = consumer
        BY <2>1 DEF ArchiveReset, ArchiveSynced, ArchiveFlush
    <2>5. ArchiveStart \/ ArchiveClosed \/ ArchiveResync \/ ArchiveCrash \/ ArchiveRotate => consumer' = consumer
        BY DEF ArchiveStart, ArchiveClosed, ArchiveResync, ArchiveCrash, ArchiveRotate
    <2> QED BY <1>0, <2>3, <2>4, <2>5 DEF ArchiveNext, ArchiveStep, ArchiveFeed
<1>3. OpenSearch /\ OpenSearchNext => consumer' = consumer
    <2>1. OpenSearchStep => consumer' = consumer
        BY DEF OpenSearchStep, OpenSearchStart, OpenSearchUpsert, OpenSearchReset, OpenSearchSynced,
           OpenSearchTick, OpenSearchClosed, OpenSearchSubmit, OpenSearchDrain, OpenSearchWrite,
           OpenSearchUploaded, OpenSearchResync, OpenSearchFatal, Handle
    <2> QED BY <1>0, <2>1 DEF OpenSearchNext
<1>4. DropboxNext => consumer' = consumer
    <2>1. \A m, s, t, c, b : DGo(m, s, t) \/ DFlush(m, s, c, t, b) \/ DFail(m, c, t) => consumer' = consumer
        BY DEF DGo, DFlush, DFail
    <2>2. DropboxUndecodable \/ DropboxReset => consumer' = consumer
        BY <2>1 DEF DropboxUndecodable, DropboxReset
    <2>3. DropboxUpsert => consumer' = consumer
        BY <2>1 DEF DropboxUpsert
    <2>4. DropboxSynced \/ DropboxRoll \/ DropboxClosed => consumer' = consumer
        BY <2>1 DEF DropboxSynced, DropboxRoll, DropboxClosed, DEnd
    <2>5. DropboxStart \/ DropboxResync \/ DropboxCrash \/ DropboxCollect => consumer' = consumer
        BY DEF DropboxStart, DropboxResync, DropboxCrash, DropboxCollect, DEnd
    <2> QED BY <1>0, <2>2, <2>3, <2>4, <2>5 DEF DropboxNext, DropboxStep
<1>5. ReplicatorNext => consumer' = consumer
    BY <1>0 DEF ReplicatorNext, ReplicatorStep, ReplicatorBoot, ReplicatorStart, ReplicatorUpsert,
       ReplicatorReset, ReplicatorSynced, ReplicatorEnd, ReplicatorFlush, ReplicatorCrash, Applied,
       feedVars
<1> QED BY <1>1, <1>2, <1>3, <1>4, <1>5 DEF Next

LEMMA StutterKeeps ==
    ASSUME UNCHANGED vars
    PROVE  /\ consumer' = consumer /\ UNCHANGED D!dvars
           /\ ReplicatorInv => ReplicatorInv'
           /\ OpenSearchInv => OpenSearchInv'
           /\ DropboxInv => DropboxInv'
           /\ KafkaInv => KafkaInv'
<1> USE DEF vars, feedVars, FeedOK, StreamOK
<1>1. Durable' = Durable
    BY DEF Durable, Resumable, Position, kvars, ovars, dropvars, archvars, replvars
<1>2. ReplicatorInv => ReplicatorInv'
    BY DEF replvars, ReplicatorInv, ReplicatorTypeOK, Shown, CursorFollows, CursorAt, RowsCurrent,
       DiskBehind, ReplayShows, Resumable
<1>3. OpenSearchInv => OpenSearchInv'
    BY DEF ovars, OpenSearchInv
<1>4. DropboxInv => DropboxInv'
    BY DEF dropvars, DropboxInv
<1>5. KafkaInv => KafkaInv'
    BY DEF kvars, KafkaInv
<1>6. UNCHANGED D!dvars
    BY <1>1 DEF D!dvars
<1> QED BY <1>2, <1>3, <1>4, <1>5, <1>6

\* A follower that has caught up: its cursor is the stream's position, which is
\* the end of the log, so every row is current up to there.
LEMMA CaughtUpReflects == ReplicatorInv => FollowerReflects
<1> SUFFICES ASSUME ReplicatorInv, rup = "session", stream.phase = "live", stream.at = Len(log),
                    NEW k \in Key
             PROVE  local[k].val = RowAt(k, Len(log))
    BY DEF FollowerReflects
<1> DEFINE n == Len(log)
           r == local[k]
<1>1. /\ FeedOK /\ n \in Nat /\ floor \in Nat /\ floor <= n /\ epoch \in Nat
      /\ r \in [val : Content, pos : Nat] /\ r.pos <= n /\ r.pos \in Nat
    BY DEF ReplicatorInv, ReplicatorTypeOK, FeedOK
<1>2. rcur.cursor = CursorAt(n) /\ CursorAt(n) # NoCursor /\ CursorAt(n).pos = n /\ CursorAt(n).epoch = epoch
    BY <1>1, CursorAtOK DEF ReplicatorInv, CursorFollows
<1>3. CurrentTo(log, k, r, n)
    BY <1>1, <1>2 DEF ReplicatorInv, RowsCurrent, Resumable
<1> QED BY <1>1, <1>3, CurrentRow

(***************************************************************************)
(* A follower that has caught up shows the leader's table, whatever was cut*)
(* off, crashed or restarted before (ha/replicator.go: applyEvent,         *)
(* clearTable, flushCursors, loadCursors).                                 *)
(***************************************************************************)
THEOREM FollowerDoesReflect == Spec => []FollowerReflects
<1> DEFINE Inv == consumer = "replicator" => ReplicatorInv
<1>1. Init => Inv
    BY ReplicatorInitOK
<1>2. Inv /\ [Next]_vars => Inv'
    <2> SUFFICES ASSUME Inv, [Next]_vars, consumer' = "replicator" PROVE ReplicatorInv'
        OBVIOUS
    <2>1. CASE UNCHANGED vars
        BY <2>1, StutterKeeps
    <2>2. CASE Next
        <3>1. consumer = "replicator" /\ ReplicatorInv
            BY <2>2, ConsumerKept
        <3>2. ReplicatorNext
            BY <2>2, <3>1 DEF Next, Kafka, OpenSearch, Dropbox, Archive
        <3> QED BY <3>1, <3>2, ReplicatorKeeps
    <2> QED BY <2>1, <2>2
<1>3. Inv => FollowerReflects
    BY CaughtUpReflects DEF FollowerReflects
<1> QED BY <1>1, <1>2, <1>3, PTL DEF Spec

(***************************************************************************)
(* A Kafka exporter that has caught up and has nothing queued has left a   *)
(* topic that shows exactly the table (kafkasync/exporter.go: checkpoint,  *)
(* produceBatch, the sweep at Synced; state.go: ExportSeq, KeyVersions).   *)
(* The hypothesis excludes what the code does not survive: a cursor that   *)
(* becomes unusable between an acknowledgement and its checkpoint.         *)
(***************************************************************************)
THEOREM TopicIsExact ==
    ASSUME "reset_unsaved" \notin KafkaFaults
    PROVE  Spec => []TopicExact
<1> DEFINE Inv == consumer = "kafka" => KafkaInv
<1>1. Init => Inv
    BY KafkaInitOK
<1>2. Inv /\ [Next]_vars => Inv'
    <2> SUFFICES ASSUME Inv, [Next]_vars, consumer' = "kafka" PROVE KafkaInv'
        OBVIOUS
    <2>1. CASE UNCHANGED vars
        BY <2>1, StutterKeeps
    <2>2. CASE Next
        <3>1. consumer = "kafka" /\ KafkaInv
            BY <2>2, ConsumerKept
        <3>2. KafkaNext
            BY <2>2, <3>1 DEF Next, Follower, OpenSearch, Dropbox, Archive
        <3> QED BY <3>1, <3>2, KafkaKeeps
    <2> QED BY <2>1, <2>2
<1>3. Inv => TopicExact
    BY CaughtUpExact DEF TopicExact
<1> QED BY <1>1, <1>2, <1>3, PTL DEF Spec

\* Whichever of the consumers watches, its invariant holds.
ConsumerInv ==
    \/ consumer = "replicator" /\ ReplicatorInv
    \/ consumer = "opensearch" /\ OpenSearchInv
    \/ consumer = "dropbox" /\ DropboxInv
    \/ consumer = "kafka" /\ KafkaInv

(***************************************************************************)
(* The follower and the three exporters (ha/replicator.go, kafkasync,      *)
(* opensearchsync, archivedropbox) keep the promise of module Delivery:    *)
(* they implement its specification, with the cursor that they would resume*)
(* from as the durable position.  The archive sink is only model-checked.  *)
(* TimesOrdered excludes what the dropbox does not survive: a loss between *)
(* two records that were written in one second is not reported.            *)
(***************************************************************************)
THEOREM ConsumersDeliver ==
    ASSUME Consumers \subseteq {"replicator", "opensearch", "dropbox", "kafka"},
           "reset_unsaved" \notin KafkaFaults, TimesOrdered
    PROVE  Spec => AtLeastOnce
<1>1. Init => ConsumerInv /\ D!DInit
    <2> SUFFICES ASSUME Init PROVE ConsumerInv /\ D!DInit
        OBVIOUS
    <2>1. consumer \in {"replicator", "opensearch", "dropbox", "kafka"}
        BY DEF Init, FeedInit
    <2>2. ConsumerInv
        BY <2>1, ReplicatorInitOK, OpenSearchInitOK, DropboxInitOK, KafkaInitOK DEF ConsumerInv
    <2>3. Durable = 0
        BY <2>1 DEF Init, OpenSearchInit, DropboxInit, ReplicatorInit, KafkaInit, NewState, Durable,
           Position, Resumable
    <2>4. Len(log) = 0 /\ settled = {}
        BY DEF Init, FeedInit
    <2> QED BY <2>2, <2>3, <2>4 DEF D!DInit
<1>2. ConsumerInv /\ [Next]_vars => ConsumerInv' /\ [D!DChange \/ D!DConsume]_(D!dvars)
    <2> SUFFICES ASSUME ConsumerInv, [Next]_vars
                 PROVE  ConsumerInv' /\ [D!DChange \/ D!DConsume]_(D!dvars)
        OBVIOUS
    <2>1. CASE UNCHANGED vars
        BY <2>1, StutterKeeps DEF ConsumerInv
    <2>2. CASE Next
        <3>1. CASE consumer = "replicator" /\ ReplicatorInv
            <4>1. ReplicatorNext /\ consumer' = "replicator"
                BY <2>2, <3>1, ConsumerKept DEF Next, Kafka, OpenSearch, Dropbox, Archive
            <4> QED BY <3>1, <4>1, ReplicatorKeeps DEF ConsumerInv
        <3>2. CASE consumer = "opensearch" /\ OpenSearchInv
            <4>1. OpenSearchNext /\ consumer' = "opensearch"
                BY <2>2, <3>2, ConsumerKept DEF Next, Kafka, Follower, Dropbox, Archive
            <4> QED BY <3>2, <4>1, OpenSearchKeeps DEF ConsumerInv
        <3>3. CASE consumer = "dropbox" /\ DropboxInv
            <4>1. DropboxNext /\ consumer' = "dropbox"
                BY <2>2, <3>3, ConsumerKept DEF Next, Kafka, Follower, OpenSearch, Archive
            <4> QED BY <3>3, <4>1, DropboxKeeps DEF ConsumerInv
        <3>4. CASE consumer = "kafka" /\ KafkaInv
            <4>1. KafkaNext /\ consumer' = "kafka"
                BY <2>2, <3>4, ConsumerKept DEF Next, Dropbox, Follower, OpenSearch, Archive
            <4> QED BY <3>4, <4>1, KafkaKeeps DEF ConsumerInv
        <3> QED BY <3>1, <3>2, <3>3, <3>4 DEF ConsumerInv
    <2> QED BY <2>1, <2>2
<1> QED BY <1>1, <1>2, PTL DEF Spec, AtLeastOnce, D!DSpec

=============================================================================
