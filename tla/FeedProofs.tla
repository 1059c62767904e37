----------------------------- MODULE FeedProofs -----------------------------
(***************************************************************************)
(* What the follower, the OpenSearch exporter and the dropbox exporter keep*)
(* invariant, and that each of their steps is a step of module Delivery.   *)
(* Module DeliveryProofs adds the Kafka exporter and draws the conclusions.*)
(*                                                                         *)
(* The operators of the inductive invariants take the state they speak of  *)
(* as arguments, so that a lemma is about one queue, one stream or one     *)
(* session and can be cited for the values before and after a step.        *)
(***************************************************************************)
EXTENDS Consumers, FiniteSetTheorems, WellFoundedInduction, TLAPS

-----------------------------------------------------------------------------
\* Least and greatest elements of sets of positions.
LEMMA LeastExists ==
    ASSUME NEW S \in SUBSET Nat, S # {}
    PROVE  \E x \in S : \A y \in S : x <= y
<1>1. IsWellFoundedOn(OpToRel(<, Nat), Nat)
    BY NatLessThanWellFounded
<1>2. \E x \in S : \A y \in S : ~(<<y, x>> \in OpToRel(<, Nat))
    BY <1>1, WFMin
<1>3. PICK x \in S : \A y \in S : ~(<<y, x>> \in OpToRel(<, Nat))
    BY <1>2
<1>4. ASSUME NEW y \in S, y < x PROVE FALSE
    <2>1. <<y, x>> \in Nat \X Nat /\ <<y, x>>[1] < <<y, x>>[2]
        BY <1>4
    <2>2. <<y, x>> \in OpToRel(<, Nat)
        BY <2>1 DEF OpToRel
    <2> QED BY <1>3, <2>2
<1>5. \A y \in S : x <= y
    BY <1>4
<1> QED BY <1>5

LEMMA MinIs ==
    ASSUME NEW S \in SUBSET Nat, S # {}
    PROVE  Min(S) \in S /\ \A y \in S : Min(S) <= y
BY LeastExists DEF Min

LEMMA MaxIs ==
    ASSUME NEW S \in SUBSET Nat, S # {}, NEW n \in Nat, \A x \in S : x <= n
    PROVE  Max(S) \in S /\ \A y \in S : y <= Max(S)
<1> DEFINE U == {m \in Nat : \A x \in S : x <= m}
<1>1. PICK m \in U : \A y \in U : m <= y
    BY LeastExists
<1>2. m \in S
    <2> SUFFICES ASSUME m \notin S PROVE FALSE
        OBVIOUS
    <2>1. \A x \in S : x <= m - 1
        OBVIOUS
    <2>2. PICK x \in S : TRUE
        OBVIOUS
    <2>3. m - 1 \in Nat
        BY <2>1, <2>2
    <2> QED BY <1>1, <2>1, <2>3
<1>3. \A y \in S : m >= y
    BY <1>1
<1>4. Max(S) \in S /\ \A y \in S : Max(S) >= y
    BY <1>2, <1>3 DEF Max
<1> QED BY <1>4

-----------------------------------------------------------------------------
(***************************************************************************)
(* The feed.                                                               *)
(***************************************************************************)
Content == Val \cup Opaque \cup {NoRow}
ChangeRecord == [key : Key, val : Content]
Cursor == [epoch : Nat, pos : Nat]
StreamState ==
    [phase : {"off", "reset", "replay", "resume", "live", "closed"}, todo : SUBSET Nat, at : Nat]

\* A cursor that a source with n changes and restarts e can have given out.
CursorOK(c, n, e) == c = NoCursor \/ (c \in Cursor /\ c.pos <= n /\ c.epoch <= e)

FeedOK ==
    /\ log \in Seq(ChangeRecord) /\ floor \in Nat /\ floor <= Len(log) /\ epoch \in Nat
    /\ faults \in Nat
    /\ stream \in StreamState /\ stream.at <= Len(log)

\* What a stream still has to send: the changes after its position, or rows of
\* the version that it is at.
StreamOK ==
    /\ stream.phase = "resume" =>
          \E m \in Nat : m <= Len(log) /\ stream.todo = stream.at + 1..m
    /\ stream.phase \in {"reset", "replay"} => stream.todo \subseteq 1..stream.at

LEMMA CursorAtOK ==
    ASSUME FeedOK, NEW n \in Nat, n <= Len(log)
    PROVE  /\ CursorOK(CursorAt(n), Len(log), epoch) /\ CursorAt(n) # NoCursor
           /\ CursorAt(n).epoch = epoch /\ CursorAt(n).pos = n /\ CursorAt(n) \in Cursor
<1>1. CursorAt(n) \in Cursor /\ CursorAt(n).epoch = epoch /\ CursorAt(n).pos = n
    BY DEF FeedOK, CursorAt, Cursor
<1> QED BY <1>1, FeedAssumption DEF CursorOK, Cursor, FeedOK

LEMMA OpenStreamOK ==
    ASSUME FeedOK, NEW c, CursorOK(c, Len(log), epoch), NEW s, s = OpenStream(c)
    PROVE  /\ s \in StreamState
           /\ Resumable(c) => /\ s.phase = "resume" /\ s.todo = c.pos + 1..Len(log)
                              /\ s.at = c.pos /\ c = CursorAt(s.at)
           /\ ~Resumable(c) => /\ s.phase = "reset" /\ s.todo = SnapshotAt(Len(log))
                               /\ s.at = Len(log)
           /\ s.at <= Len(log)
<1>1. CASE Resumable(c)
    <2>1. c \in Cursor /\ c.pos \in Nat /\ c.epoch = epoch /\ c.pos <= Len(log)
        BY <1>1 DEF Resumable, CursorOK, Cursor
    <2>2. s = [phase |-> "resume", todo |-> c.pos + 1..Len(log), at |-> c.pos]
        BY <1>1 DEF OpenStream
    <2>3. c = CursorAt(c.pos)
        BY <2>1 DEF Cursor, CursorAt
    <2>4. Len(log) \in Nat
        BY DEF FeedOK
    <2>5. c.pos + 1..Len(log) \in SUBSET Nat
        BY <2>1, <2>4
    <2>6. s \in StreamState
        BY <2>1, <2>2, <2>5 DEF StreamState
    <2> QED BY <1>1, <2>1, <2>2, <2>3, <2>6
<1>2. CASE ~Resumable(c)
    <2>1. s = [phase |-> "reset", todo |-> SnapshotAt(Len(log)), at |-> Len(log)]
        BY <1>2 DEF OpenStream
    <2>2. Len(log) \in Nat
        BY DEF FeedOK
    <2>3. SnapshotAt(Len(log)) \in SUBSET Nat
        BY <2>2 DEF SnapshotAt
    <2> QED BY <1>2, <2>1, <2>2, <2>3 DEF StreamState
<1> QED BY <1>1, <1>2

LEMMA OpenStreamIsOK ==
    ASSUME FeedOK, NEW c, CursorOK(c, Len(log), epoch), NEW s, s = OpenStream(c)
    PROVE  /\ s.phase = "resume" =>
                  \E m \in Nat : m <= Len(log) /\ s.todo = s.at + 1..m
           /\ s.phase \in {"reset", "replay"} => s.todo \subseteq 1..s.at
<1>1. Len(log) \in Nat
    BY DEF FeedOK
<1>2. SnapshotAt(Len(log)) \subseteq 1..Len(log)
    BY DEF SnapshotAt
<1>3. CASE Resumable(c)
    BY <1>1, <1>3, OpenStreamOK
<1>4. CASE ~Resumable(c)
    BY <1>2, <1>4, OpenStreamOK
<1> QED BY <1>3, <1>4

\* The change that a stream delivers, and the stream after it.
LEMMA ChangeTaken ==
    ASSUME FeedOK, StreamOK, HasChange, NEW s, s = AfterChange
    PROVE  /\ NextChange \in 1..Len(log) /\ s \in StreamState /\ s.phase = stream.phase
           /\ stream.phase \in {"resume", "live", "replay"}
           /\ stream.phase \in {"resume", "live"} =>
                 /\ NextChange = stream.at + 1 /\ s.at = NextChange
                 /\ ChangeCursor = CursorAt(NextChange) /\ stream.at >= floor
           /\ stream.phase = "replay" =>
                 /\ NextChange \in stream.todo /\ s.at = stream.at
                 /\ ChangeCursor = NoCursor
           /\ s.todo = IF stream.phase = "live" THEN stream.todo ELSE stream.todo \ {NextChange}
           /\ s.at <= Len(log)
<1>1. Len(log) \in Nat /\ stream.at \in Nat /\ stream.todo \in SUBSET Nat /\ floor \in Nat
    BY DEF FeedOK, StreamState
<1>2. CASE stream.phase = "live"
    <2>1. NextChange = stream.at + 1 /\ s = [stream EXCEPT !.at = @ + 1] /\ stream.at < Len(log)
        BY <1>2 DEF HasChange, NextChange, AfterChange
    <2>2. s \in StreamState /\ s.at = stream.at + 1 /\ s.phase = stream.phase /\ s.todo = stream.todo
        BY <1>1, <2>1 DEF FeedOK, StreamState
    <2>3. stream.at >= floor /\ ChangeCursor = CursorAt(NextChange)
        BY <1>1, <1>2 DEF HasChange, Overrun, ChangeCursor
    <2> QED BY <1>1, <1>2, <2>1, <2>2, <2>3
<1>3. CASE stream.phase = "resume"
    <2>1. stream.todo # {} /\ NextChange = Min(stream.todo)
        BY <1>3 DEF HasChange, NextChange
    <2>2. NextChange \in stream.todo /\ \A y \in stream.todo : NextChange <= y
        BY <1>1, <2>1, MinIs
    <2>3. PICK m \in Nat : m <= Len(log) /\ stream.todo = stream.at + 1..m
        BY <1>3 DEF StreamOK
    <2>4. NextChange = stream.at + 1 /\ NextChange <= Len(log)
        <3>1. NextChange \in Nat /\ stream.at + 1 <= NextChange /\ NextChange <= m
            BY <1>1, <2>2, <2>3
        <3>2. stream.at + 1 \in stream.todo
            BY <1>1, <2>3, <3>1
        <3> QED BY <1>1, <2>2, <2>3, <3>1, <3>2
    <2>5. s = [stream EXCEPT !.at = @ + 1, !.todo = @ \ {NextChange}]
        BY <1>3 DEF AfterChange
    <2>6. s \in StreamState /\ s.at = stream.at + 1 /\ s.phase = stream.phase
          /\ s.todo = stream.todo \ {NextChange}
        <3>1. s = [phase |-> stream.phase, todo |-> stream.todo \ {NextChange}, at |-> stream.at + 1]
            BY <2>5 DEF FeedOK, StreamState
        <3>2. stream.todo \ {NextChange} \in SUBSET Nat /\ stream.at + 1 \in Nat
            BY <1>1
        <3> QED BY <3>1, <3>2, <1>3 DEF StreamState
    <2>7. stream.at >= floor /\ ChangeCursor = CursorAt(NextChange)
        BY <1>1, <1>3 DEF HasChange, Overrun, ChangeCursor
    <2> QED BY <1>1, <1>3, <2>4, <2>6, <2>7
<1>4. CASE stream.phase = "replay"
    <2>1. stream.todo # {} /\ NextChange = Min(stream.todo)
        BY <1>4 DEF HasChange, NextChange
    <2>2. NextChange \in stream.todo
        BY <1>1, <2>1, MinIs
    <2>3. s = [stream EXCEPT !.todo = @ \ {NextChange}]
        BY <1>4 DEF AfterChange
    <2>4. s \in StreamState /\ s.at = stream.at /\ s.phase = stream.phase
          /\ s.todo = stream.todo \ {NextChange}
        BY <1>1, <2>3 DEF FeedOK, StreamState
    <2>5. NextChange \in 1..stream.at /\ stream.at <= Len(log)
        BY <1>4, <2>2 DEF StreamOK, FeedOK
    <2>6. ChangeCursor = NoCursor
        BY <1>4 DEF ChangeCursor
    <2> QED BY <1>1, <1>4, <2>2, <2>4, <2>5, <2>6
<1>5. stream.phase \in {"live", "resume", "replay"}
    BY DEF HasChange
<1> QED BY <1>2, <1>3, <1>4, <1>5

LEMMA ChangeTakenOK ==
    ASSUME FeedOK, StreamOK, HasChange, stream' = AfterChange, log' = log,
           floor' = floor, epoch' = epoch, faults' \in Nat
    PROVE  FeedOK' /\ StreamOK'
<1> DEFINE s == AfterChange
<1>1. Len(log) \in Nat /\ stream.at \in Nat /\ stream.todo \in SUBSET Nat /\ floor \in Nat
    BY DEF FeedOK, StreamState
<1>2. /\ s \in StreamState /\ s.phase = stream.phase /\ s.at <= Len(log)
      /\ stream.phase \in {"resume", "live"} => NextChange = stream.at + 1 /\ s.at = NextChange
      /\ stream.phase = "replay" => s.at = stream.at
      /\ s.todo = IF stream.phase = "live" THEN stream.todo ELSE stream.todo \ {NextChange}
      /\ stream.phase \in {"resume", "live", "replay"}
    BY ChangeTaken
<1> HIDE DEF s
<1>3. stream' = s
    BY DEF s
<1>4. FeedOK'
    BY <1>2, <1>3 DEF FeedOK
<1>5. ASSUME s.phase = "resume" PROVE \E m \in Nat : m <= Len(log) /\ s.todo = s.at + 1..m
    <2>1. PICK m \in Nat : m <= Len(log) /\ stream.todo = stream.at + 1..m
        BY <1>2, <1>5 DEF StreamOK
    <2>2. s.todo = (stream.at + 1..m) \ {stream.at + 1} /\ s.at = stream.at + 1
        BY <1>2, <1>5, <2>1
    <2>3. s.todo = s.at + 1..m
        BY <1>1, <2>2
    <2> QED BY <2>1, <2>3
<1>6. ASSUME s.phase \in {"reset", "replay"} PROVE s.todo \subseteq 1..s.at
    BY <1>2, <1>6 DEF StreamOK
<1>7. StreamOK'
    BY <1>3, <1>5, <1>6 DEF StreamOK
<1> QED BY <1>4, <1>7

\* Reset and Synced, and a stream that ends or is closed.
LEMMA MarkTaken ==
    ASSUME FeedOK, StreamOK, NEW s
    PROVE  /\ s = AfterReset =>
                  s \in StreamState /\ s.phase = "replay" /\ s.todo = stream.todo /\ s.at = stream.at
           /\ s = AfterSynced =>
                  s \in StreamState /\ s.phase = "live" /\ s.todo = stream.todo /\ s.at = stream.at
           /\ s = Off =>
                  s \in StreamState /\ s.phase = "off" /\ s.todo = {} /\ s.at = 0
<1>1. s = AfterReset =>
          s \in StreamState /\ s.phase = "replay" /\ s.todo = stream.todo /\ s.at = stream.at
    BY DEF AfterReset, FeedOK, StreamState
<1>2. s = AfterSynced =>
          s \in StreamState /\ s.phase = "live" /\ s.todo = stream.todo /\ s.at = stream.at
    BY DEF AfterSynced, FeedOK, StreamState
<1>3. s = Off => s \in StreamState /\ s.phase = "off" /\ s.todo = {} /\ s.at = 0
    BY DEF Off, StreamState
<1> QED BY <1>1, <1>2, <1>3

LEMMA MarkTakenOK ==
    ASSUME FeedOK, StreamOK, log' = log, floor' = floor, epoch' = epoch, faults' \in Nat,
           \/ IsReset /\ stream' = AfterReset
           \/ stream' = AfterSynced
           \/ stream' = Off
           \/ stream' = stream
    PROVE  FeedOK' /\ StreamOK'
<1>0. Len(log) \in Nat
    BY DEF FeedOK
<1>1. CASE IsReset /\ stream' = AfterReset
    <2>1. stream' \in StreamState /\ stream'.phase = "replay" /\ stream'.todo = stream.todo
          /\ stream'.at = stream.at
        BY <1>1, MarkTaken
    <2> QED BY <1>1, <2>1 DEF FeedOK, StreamOK, IsReset
<1>2. CASE stream' = AfterSynced
    <2>1. stream' \in StreamState /\ stream'.phase = "live" /\ stream'.at = stream.at
        BY <1>2, MarkTaken
    <2> QED BY <2>1 DEF FeedOK, StreamOK
<1>3. CASE stream' = Off
    <2>1. stream' \in StreamState /\ stream'.phase = "off" /\ stream'.at = 0
        BY <1>3, MarkTaken
    <2> QED BY <1>0, <2>1 DEF FeedOK, StreamOK
<1>4. CASE stream' = stream
    BY <1>4 DEF FeedOK, StreamOK
<1> QED BY <1>1, <1>2, <1>3, <1>4

LEMMA OpenedOK ==
    ASSUME FeedOK, log' = log, floor' = floor, epoch' = epoch, faults' = faults,
           NEW c, CursorOK(c, Len(log), epoch), stream' = OpenStream(c)
    PROVE  FeedOK' /\ StreamOK'
<1>1. stream' \in StreamState /\ stream'.at <= Len(log)
    BY OpenStreamOK
<1>2. /\ stream'.phase = "resume" =>
            \E m \in Nat : m <= Len(log) /\ stream'.todo = stream'.at + 1..m
      /\ stream'.phase \in {"reset", "replay"} => stream'.todo \subseteq 1..stream'.at
    BY OpenStreamIsOK
<1> QED BY <1>1, <1>2 DEF FeedOK, StreamOK

\* What the source does on its own.
LEMMA FeedStepOK ==
    ASSUME FeedOK, StreamOK, FeedNext
    PROVE  /\ FeedOK' /\ StreamOK' /\ consumer' = consumer /\ settled' = settled
           /\ faults' = faults /\ epoch' >= epoch /\ floor' >= floor
           /\ \/ log' = log
              \/ /\ \E e \in ChangeRecord : log' = Append(log, e)
                 /\ Len(log') = Len(log) + 1 /\ stream' = stream
                 /\ epoch' = epoch /\ floor' = floor
           /\ stream'.todo = stream.todo /\ stream'.at = stream.at
           /\ stream'.phase = stream.phase \/ stream'.phase = "closed"
           /\ stream.phase = "off" => stream'.phase = "off"
           /\ epoch' = epoch => stream'.phase = stream.phase
<1>0. Len(log) \in Nat /\ floor \in Nat /\ epoch \in Nat /\ floor <= Len(log)
    BY DEF FeedOK
<1>1. ASSUME NEW k \in Keys, NEW v \in Contents, Change(k, v)
      PROVE  /\ FeedOK' /\ StreamOK'
             /\ \E e \in ChangeRecord : log' = Append(log, e)
             /\ Len(log') = Len(log) + 1
    <2>1. k \in Key
        BY FeedAssumption DEF Keys
    <2>2. v \in Content
        BY DEF Content, Contents
    <2>3. [key |-> k, val |-> v] \in ChangeRecord
        BY <2>1, <2>2 DEF ChangeRecord
    <2>4. log' = Append(log, [key |-> k, val |-> v])
          /\ UNCHANGED <<consumer, floor, epoch, stream, settled, faults>>
        BY <1>1 DEF Change
    <2>5. log' \in Seq(ChangeRecord) /\ Len(log') = Len(log) + 1
        BY <2>3, <2>4 DEF FeedOK
    <2>6. FeedOK'
        BY <1>0, <2>4, <2>5 DEF FeedOK, StreamState
    <2>7. StreamOK'
        BY <1>0, <2>4, <2>5 DEF StreamOK
    <2> QED BY <2>3, <2>4, <2>5, <2>6, <2>7
<1>2. ASSUME NEW n \in 1..MaxChange, Prune(n)
      PROVE  FeedOK' /\ StreamOK' /\ floor' >= floor
    <2>1. floor' \in floor + 1..Len(log)
          /\ UNCHANGED <<consumer, log, epoch, stream, settled, faults>>
        BY <1>2 DEF Prune
    <2>2. floor' \in Nat /\ floor' <= Len(log) /\ floor' >= floor
        BY <1>0, <2>1
    <2> QED BY <2>1, <2>2 DEF FeedOK, StreamOK
<1>3. ASSUME SourceRestart
      PROVE  /\ FeedOK' /\ StreamOK' /\ epoch' = epoch + 1
             /\ stream'.todo = stream.todo /\ stream'.at = stream.at
             /\ stream'.phase = IF stream.phase = "off" THEN "off" ELSE "closed"
    <2>1. epoch' = epoch + 1 /\ UNCHANGED <<consumer, log, floor, settled, faults>>
        BY <1>3 DEF SourceRestart
    <2>2. stream' \in StreamState /\ stream'.todo = stream.todo /\ stream'.at = stream.at
          /\ stream'.phase = IF stream.phase = "off" THEN "off" ELSE "closed"
        BY <1>3 DEF SourceRestart, StreamState, FeedOK
    <2> QED BY <1>0, <2>1, <2>2 DEF FeedOK, StreamOK
<1>4. CASE \E k \in Keys, v \in Contents : Change(k, v)
    <2>1. PICK k \in Keys, v \in Contents : Change(k, v)
        BY <1>4
    <2> QED BY <1>0, <1>1, <2>1 DEF Change
<1>5. CASE \E n \in 1..MaxChange : Prune(n)
    <2>1. PICK n \in 1..MaxChange : Prune(n)
        BY <1>5
    <2> QED BY <1>0, <1>2, <2>1 DEF Prune
<1>6. CASE SourceRestart
    BY <1>0, <1>3, <1>6 DEF SourceRestart
<1> QED BY <1>4, <1>5, <1>6 DEF FeedNext

\* A cursor once given out stays one, and one that is refused stays refused.
LEMMA CursorKept ==
    ASSUME FeedOK, FeedOK', NEW c, CursorOK(c, Len(log), epoch),
           Len(log') >= Len(log), epoch' >= epoch, floor' >= floor
    PROVE  CursorOK(c, Len(log'), epoch') /\ (Resumable(c)' => Resumable(c))
<1>1. Len(log) \in Nat /\ Len(log') \in Nat /\ epoch \in Nat /\ epoch' \in Nat
      /\ floor \in Nat /\ floor' \in Nat
    BY DEF FeedOK
<1>2. CASE c = NoCursor
    BY <1>2 DEF CursorOK, Resumable
<1>3. CASE c # NoCursor
    <2>1. c \in Cursor /\ c.pos \in Nat /\ c.epoch \in Nat /\ c.pos <= Len(log) /\ c.epoch <= epoch
        BY <1>3 DEF CursorOK, Cursor
    <2> QED BY <1>1, <1>3, <2>1 DEF CursorOK, Resumable
<1> QED BY <1>2, <1>3

-----------------------------------------------------------------------------
(***************************************************************************)
(* The replicator.  A row r of key k shows the first r.pos changes of the  *)
(* log l; it is current up to n when no later change up to n wrote k.      *)
(***************************************************************************)
RowShows(l, k, r) ==
    \/ \E i \in 1..r.pos :
          l[i].key = k /\ l[i].val = r.val /\ \A j \in i + 1..r.pos : l[j].key # k
    \/ r.val = NoRow /\ \A j \in 1..r.pos : l[j].key # k
CurrentTo(l, k, r, n) == RowShows(l, k, r) /\ \A j \in r.pos + 1..n : l[j].key # k

\* The live rows after n changes: the snapshot of a table.
LiveAt(l, n) ==
    {i \in 1..n : l[i].val # NoRow /\ \A j \in i + 1..n : l[j].key # l[i].key}

LEMMA RowAtIs ==
    ASSUME FeedOK, NEW k \in Key, NEW n \in Nat, n <= Len(log)
    PROVE  /\ \A i \in 1..n : (log[i].key = k /\ \A j \in i + 1..n : log[j].key # k)
                                  => RowAt(k, n) = log[i].val
           /\ (\A j \in 1..n : log[j].key # k) => RowAt(k, n) = NoRow
           /\ (\E i \in 1..n : log[i].key = k) =>
                 \E i \in 1..n : /\ log[i].key = k /\ RowAt(k, n) = log[i].val
                                 /\ \A j \in i + 1..n : log[j].key # k
<1> DEFINE w == {i \in 1..n : log[i].key = k}
<1>1. RowAt(k, n) = IF w = {} THEN NoRow ELSE log[Max(w)].val
    BY DEF RowAt
<1>2. w \in SUBSET Nat /\ \A x \in w : x <= n
    OBVIOUS
<1>3. w # {} => Max(w) \in w /\ \A y \in w : y <= Max(w)
    BY <1>2, MaxIs
<1>4. ASSUME NEW i \in 1..n, log[i].key = k, \A j \in i + 1..n : log[j].key # k
      PROVE  RowAt(k, n) = log[i].val
    <2>1. i \in w
        BY <1>4
    <2>2. Max(w) \in 1..n /\ i <= Max(w) /\ log[Max(w)].key = k
        BY <1>3, <2>1
    <2> HIDE DEF w
    <2>3. Max(w) = i
        BY <1>4, <2>2
    <2> QED BY <1>1, <2>1, <2>3
<1>5. ASSUME \E i \in 1..n : log[i].key = k
      PROVE  \E i \in 1..n : /\ log[i].key = k /\ RowAt(k, n) = log[i].val
                             /\ \A j \in i + 1..n : log[j].key # k
    <2>1. w # {}
        BY <1>5
    <2>2. Max(w) \in 1..n /\ log[Max(w)].key = k
        BY <1>3, <2>1
    <2>3. \A j \in Max(w) + 1..n : log[j].key # k
        <3> SUFFICES ASSUME NEW j \in Max(w) + 1..n, log[j].key = k PROVE FALSE
            OBVIOUS
        <3>1. j \in w
            BY <2>2
        <3>2. j <= Max(w)
            BY <1>3, <3>1
        <3> HIDE DEF w
        <3> QED BY <2>2, <3>2
    <2> QED BY <1>1, <2>1, <2>2, <2>3
<1>6. (\A j \in 1..n : log[j].key # k) => RowAt(k, n) = NoRow
    BY <1>1
<1> QED BY <1>4, <1>5, <1>6

LEMMA LastWrite ==
    ASSUME FeedOK, NEW k \in Key, NEW n \in Nat, n <= Len(log), \E i \in 1..n : log[i].key = k
    PROVE  \E i \in 1..n : log[i].key = k /\ \A j \in i + 1..n : log[j].key # k
<1>1. \E i \in 1..n : log[i].key = k /\ RowAt(k, n) = log[i].val /\ \A j \in i + 1..n : log[j].key # k
    BY RowAtIs
<1> QED BY <1>1

\* A change that is appended disturbs neither.
AgreesUpTo(l, m) ==
    /\ \A k \in Key, r \in [val : Content, pos : Nat], n \in Nat :
          r.pos <= Len(l) /\ n <= Len(l) /\ CurrentTo(l, k, r, n) => CurrentTo(m, k, r, n)
    /\ \A n \in Nat : n <= Len(l) => LiveAt(m, n) = LiveAt(l, n)
    /\ \A i \in 1..Len(l) : m[i] = l[i]

LEMMA AppendKeeps ==
    ASSUME NEW l \in Seq(ChangeRecord), NEW e \in ChangeRecord, NEW m, m = Append(l, e)
    PROVE  AgreesUpTo(l, m)
<1>1. \A i \in 1..Len(l) : m[i] = l[i]
    OBVIOUS
<1>2. ASSUME NEW k \in Key, NEW r \in [val : Content, pos : Nat], NEW n \in Nat,
             r.pos <= Len(l), n <= Len(l), CurrentTo(l, k, r, n)
      PROVE  CurrentTo(m, k, r, n)
    <2>1. Len(l) \in Nat /\ r.pos \in Nat
        OBVIOUS
    <2>2. \A j \in r.pos + 1..n : m[j].key # k
        BY <1>1, <1>2, <2>1 DEF CurrentTo
    <2>3. RowShows(l, k, r)
        BY <1>2 DEF CurrentTo
    <2>4. \A i \in 1..r.pos : m[i] = l[i]
        BY <1>1, <1>2, <2>1
    <2>5. RowShows(m, k, r)
        <3>1. CASE \E i \in 1..r.pos :
                      l[i].key = k /\ l[i].val = r.val /\ \A j \in i + 1..r.pos : l[j].key # k
            <4>1. PICK i \in 1..r.pos :
                      l[i].key = k /\ l[i].val = r.val /\ \A j \in i + 1..r.pos : l[j].key # k
                BY <3>1
            <4>2. \A j \in i + 1..r.pos : j \in 1..r.pos
                BY <2>1
            <4>3. m[i].key = k /\ m[i].val = r.val /\ \A j \in i + 1..r.pos : m[j].key # k
                BY <2>4, <4>1, <4>2
            <4> QED BY <4>3 DEF RowShows
        <3>2. CASE r.val = NoRow /\ \A j \in 1..r.pos : l[j].key # k
            BY <2>4, <3>2 DEF RowShows
        <3> QED BY <2>3, <3>1, <3>2 DEF RowShows
    <2> QED BY <2>2, <2>5 DEF CurrentTo
<1>3. ASSUME NEW n \in Nat, n <= Len(l) PROVE LiveAt(m, n) = LiveAt(l, n)
    <2>1. \A i \in 1..n : m[i] = l[i]
        BY <1>1, <1>3
    <2>2. \A i \in 1..n : \A j \in i + 1..n : j \in 1..n
        OBVIOUS
    <2>3. \A i \in 1..n : \A j \in i + 1..n : m[j] = l[j]
        BY <2>1, <2>2
    <2> QED BY <2>1, <2>3 DEF LiveAt
<1> QED BY <1>1, <1>2, <1>3 DEF AgreesUpTo

LEMMA SnapshotIsLive ==
    ASSUME consumer = "replicator", NEW n \in Nat
    PROVE  SnapshotAt(n) = LiveAt(log, n)
BY DEF SnapshotAt, LiveAt, IsArchive

-----------------------------------------------------------------------------
ReplicatorTypeOK ==
    /\ local \in [Key -> [val : Content, pos : Nat]]
    /\ rcur \in [cursor : Cursor \cup {NoCursor}, dirty : BOOLEAN]
    /\ CursorOK(rcur.cursor, Len(log), epoch) /\ CursorOK(rdisk, Len(log), epoch)
    /\ rup \in {"down", "up", "session"}
    /\ \A k \in Key : local[k].pos <= Len(log)

\* The cursor in memory is where the stream is, and refused from a Reset until
\* the replay is Synced.
CursorFollows ==
    /\ rup = "session" \/ stream.phase = "off"
    /\ stream.phase \in {"resume", "live"} => rcur.cursor = CursorAt(stream.at)
    /\ stream.phase = "reset" => ~Resumable(rcur.cursor)
    /\ stream.phase = "replay" => rcur.cursor = NoCursor

\* Rows that a cursor stands for.  The cursor file may be older than memory,
\* and the rows may be newer than either.
RowsCurrent ==
    Resumable(rcur.cursor) => \A k \in Key : CurrentTo(log, k, local[k], rcur.cursor.pos)
DiskBehind ==
    Resumable(rdisk) => Resumable(rcur.cursor) /\ rdisk.pos <= rcur.cursor.pos

\* A replay: every live row is here or still to come, and no other is here.
ReplayShows ==
    /\ stream.phase \in {"reset", "replay"} => stream.todo \subseteq LiveAt(log, stream.at)
    /\ stream.phase = "reset" => stream.todo = LiveAt(log, stream.at)
    /\ stream.phase = "replay" =>
          /\ \A i \in LiveAt(log, stream.at) \ stream.todo :
                local[log[i].key] = [val |-> log[i].val, pos |-> i]
          /\ \A k \in Key : local[k].val # NoRow =>
                /\ local[k].pos \in LiveAt(log, stream.at) /\ log[local[k].pos].key = k
                /\ log[local[k].pos].val = local[k].val

ReplicatorInv ==
    /\ FeedOK /\ StreamOK /\ consumer = "replicator"
    /\ ReplicatorTypeOK /\ settled = Shown(local)
    /\ CursorFollows /\ RowsCurrent /\ DiskBehind /\ ReplayShows

LEMMA LogRecord ==
    ASSUME FeedOK, NEW i \in 1..Len(log)
    PROVE  log[i] \in ChangeRecord /\ log[i].key \in Key /\ log[i].val \in Content
<1>1. log[i] \in ChangeRecord
    BY DEF FeedOK
<1> QED BY <1>1 DEF ChangeRecord

LEMMA CurrentIsShown ==
    ASSUME FeedOK, NEW l \in [Key -> [val : Content, pos : Nat]], NEW n \in Nat, n <= Len(log),
           \A k \in Key : CurrentTo(log, k, l[k], n)
    PROVE  1..n \subseteq Shown(l)
<1> SUFFICES ASSUME NEW j \in 1..n PROVE l[log[j].key].pos >= j
    BY DEF Shown, FeedOK
<1> DEFINE k == log[j].key
<1>1. k \in Key
    <2>1. j \in 1..Len(log)
        BY DEF FeedOK
    <2> QED BY <2>1, LogRecord
<1>2. l[k].pos \in Nat
    BY <1>1
<1>3. \A i \in l[k].pos + 1..n : log[i].key # k
    BY <1>1 DEF CurrentTo
<1> HIDE DEF k
<1>4. log[j].key = k
    BY DEF k
<1>5. ~(l[k].pos < j)
    BY <1>2, <1>3, <1>4
<1> QED BY <1>2, <1>4, <1>5

\* A row that is current up to the end of the log is the row.
LEMMA CurrentRow ==
    ASSUME FeedOK, NEW k \in Key, NEW r, r.pos \in Nat, r.pos <= Len(log),
           CurrentTo(log, k, r, Len(log))
    PROVE  r.val = RowAt(k, Len(log))
<1> DEFINE n == Len(log)
<1>1. n \in Nat /\ r.pos \in Nat /\ r.pos <= n
    BY DEF FeedOK
<1>2. RowShows(log, k, r) /\ \A j \in r.pos + 1..n : log[j].key # k
    BY DEF CurrentTo
<1> HIDE DEF n
<1>3. CASE \E i \in 1..r.pos :
              log[i].key = k /\ log[i].val = r.val /\ \A j \in i + 1..r.pos : log[j].key # k
    <2>1. PICK i \in 1..r.pos :
              log[i].key = k /\ log[i].val = r.val /\ \A j \in i + 1..r.pos : log[j].key # k
        BY <1>3
    <2>2. i \in 1..n
        BY <1>1
    <2>3. ASSUME NEW j \in i + 1..n PROVE log[j].key # k
        <3>1. j \in i + 1..r.pos \/ j \in r.pos + 1..n
            BY <1>1
        <3> QED BY <1>2, <2>1, <3>1
    <2>4. RowAt(k, n) = log[i].val
        BY <1>1, <2>1, <2>2, <2>3, RowAtIs DEF n
    <2> QED BY <2>1, <2>4 DEF n
<1>4. CASE r.val = NoRow /\ \A j \in 1..r.pos : log[j].key # k
    <2>1. ASSUME NEW j \in 1..n PROVE log[j].key # k
        <3>1. j \in 1..r.pos \/ j \in r.pos + 1..n
            BY <1>1
        <3> QED BY <1>2, <1>4, <3>1
    <2>2. RowAt(k, n) = NoRow
        BY <1>1, <2>1, RowAtIs DEF n
    <2> QED BY <1>4, <2>2 DEF n
<1> QED BY <1>2, <1>3, <1>4 DEF RowShows

LEMMA ReplicatorInitOK == Init /\ consumer = "replicator" => ReplicatorInv
<1> SUFFICES ASSUME Init, consumer = "replicator" PROVE ReplicatorInv
    OBVIOUS
<1> USE FeedAssumption DEF Init, FeedInit, ReplicatorInit
<1>1. FeedOK /\ StreamOK
    BY DEF FeedOK, StreamOK, StreamState, Off
<1>2. local \in [Key -> [val : Content, pos : Nat]] /\ \A k \in Key : local[k].pos = 0
    BY DEF Empty, Content
<1>3. ReplicatorTypeOK
    BY <1>2 DEF ReplicatorTypeOK, CursorOK
<1>4. settled = Shown(local)
    BY DEF Shown
<1>5. CursorFollows /\ RowsCurrent /\ DiskBehind /\ ReplayShows
    BY DEF CursorFollows, RowsCurrent, DiskBehind, ReplayShows, Resumable, Off
<1> QED BY <1>1, <1>3, <1>4, <1>5 DEF ReplicatorInv

\* NewReplicator: the rows may be newer than the cursor file, and are current to
\* it all the same.
LEMMA ReplicatorBootKeeps ==
    ASSUME ReplicatorInv, ReplicatorBoot
    PROVE  ReplicatorInv' /\ settled' = settled /\ log' = log
<1>1. /\ UNCHANGED feedVars /\ local' = local /\ rdisk' = rdisk
      /\ rcur' = [cursor |-> rdisk, dirty |-> FALSE] /\ rup = "down" /\ rup' = "up"
    BY DEF ReplicatorBoot
<1>2. UNCHANGED <<consumer, log, floor, epoch, stream, settled, faults>>
    BY <1>1 DEF feedVars
<1>3. FeedOK' /\ StreamOK' /\ consumer' = "replicator" /\ settled' = Shown(local)'
    BY <1>1, <1>2 DEF ReplicatorInv, FeedOK, StreamOK, Shown
<1>4. rcur' \in [cursor : Cursor \cup {NoCursor}, dirty : BOOLEAN] /\ rcur'.cursor = rdisk
    BY <1>1 DEF ReplicatorInv, ReplicatorTypeOK, CursorOK
<1>5. ReplicatorTypeOK'
    BY <1>1, <1>2, <1>4 DEF ReplicatorInv, ReplicatorTypeOK
<1>6. stream.phase = "off"
    BY <1>1 DEF ReplicatorInv, CursorFollows
<1>7. CursorFollows' /\ ReplayShows'
    BY <1>2, <1>6 DEF CursorFollows, ReplayShows
<1>8. DiskBehind'
    <2>1. rdisk # NoCursor => rdisk.pos \in Nat
        BY DEF ReplicatorInv, ReplicatorTypeOK, CursorOK, Cursor
    <2> QED BY <1>1, <1>2, <1>4, <2>1 DEF DiskBehind, Resumable
<1>9. RowsCurrent'
    <2> SUFFICES ASSUME Resumable(rdisk), NEW k \in Key
                 PROVE  CurrentTo(log, k, local[k], rdisk.pos)
        BY <1>1, <1>2, <1>4 DEF RowsCurrent, Resumable
    <2>1. Resumable(rcur.cursor) /\ rdisk.pos <= rcur.cursor.pos
        BY DEF ReplicatorInv, DiskBehind
    <2>2. rdisk.pos \in Nat /\ rcur.cursor.pos \in Nat
        BY <2>1 DEF ReplicatorInv, ReplicatorTypeOK, CursorOK, Cursor, Resumable
    <2>3. CurrentTo(log, k, local[k], rcur.cursor.pos)
        BY <2>1 DEF ReplicatorInv, RowsCurrent
    <2>4. local[k].pos \in Nat
        BY DEF ReplicatorInv, ReplicatorTypeOK
    <2> QED BY <2>1, <2>2, <2>3, <2>4 DEF CurrentTo
<1> QED BY <1>2, <1>3, <1>5, <1>7, <1>8, <1>9 DEF ReplicatorInv

LEMMA ReplicatorStartKeeps ==
    ASSUME ReplicatorInv, ReplicatorStart
    PROVE  ReplicatorInv' /\ settled' = settled /\ log' = log
<1>1. /\ UNCHANGED <<consumer, log, floor, epoch, settled, faults, local, rcur, rdisk>>
      /\ rup' = "session" /\ stream' = OpenStream(rcur.cursor)
    BY DEF ReplicatorStart
<1>2. FeedOK /\ CursorOK(rcur.cursor, Len(log), epoch)
    BY DEF ReplicatorInv, ReplicatorTypeOK
<1>3. FeedOK' /\ StreamOK'
    BY <1>1, <1>2, OpenedOK
<1>4. consumer' = "replicator" /\ ReplicatorTypeOK' /\ settled' = Shown(local)'
    BY <1>1 DEF ReplicatorInv, ReplicatorTypeOK, Shown
<1>5. /\ Resumable(rcur.cursor) => stream'.phase = "resume" /\ rcur.cursor = CursorAt(stream'.at)
      /\ ~Resumable(rcur.cursor) => /\ stream'.phase = "reset" /\ stream'.at = Len(log)
                                    /\ stream'.todo = SnapshotAt(Len(log))
    BY <1>1, <1>2, OpenStreamOK
<1>6. CursorFollows'
    BY <1>1, <1>5 DEF CursorFollows, CursorAt, Resumable
<1>7. RowsCurrent' /\ DiskBehind'
    BY <1>1 DEF ReplicatorInv, RowsCurrent, DiskBehind, Resumable
<1>8. SnapshotAt(Len(log)) = LiveAt(log, Len(log))
    BY <1>2, SnapshotIsLive DEF ReplicatorInv, FeedOK
<1>9. ReplayShows'
    BY <1>1, <1>5, <1>8 DEF ReplayShows
<1> QED BY <1>1, <1>3, <1>4, <1>6, <1>7, <1>9 DEF ReplicatorInv

\* The stream goes, the cursor and the rows stay (ReplicatorEnd, ReplicatorCrash).
LEMMA ReplicatorEndKeeps ==
    ASSUME ReplicatorInv, ReplicatorEnd \/ ReplicatorCrash
    PROVE  ReplicatorInv' /\ settled' = settled /\ log' = log
<1>1. /\ UNCHANGED <<consumer, log, floor, epoch, settled, local, rcur, rdisk>>
      /\ stream' = Off /\ rup' \in {"down", "up"} /\ faults' \in Nat
    BY DEF ReplicatorEnd, ReplicatorCrash, ReplicatorInv, FeedOK
<1>2. FeedOK' /\ StreamOK'
    BY <1>1, MarkTakenOK DEF ReplicatorInv
<1>3. consumer' = "replicator" /\ ReplicatorTypeOK' /\ settled' = Shown(local)'
    BY <1>1 DEF ReplicatorInv, ReplicatorTypeOK, Shown
<1>4. CursorFollows' /\ ReplayShows'
    BY <1>1 DEF CursorFollows, ReplayShows, Off
<1>5. RowsCurrent' /\ DiskBehind'
    BY <1>1 DEF ReplicatorInv, RowsCurrent, DiskBehind, Resumable
<1> QED BY <1>1, <1>2, <1>3, <1>4, <1>5 DEF ReplicatorInv

LEMMA ReplicatorFlushKeeps ==
    ASSUME ReplicatorInv, ReplicatorFlush
    PROVE  ReplicatorInv' /\ settled' = settled /\ log' = log
<1>1. /\ UNCHANGED <<consumer, log, floor, epoch, stream, settled, local, rup>>
      /\ rcur' = [rcur EXCEPT !.dirty = FALSE] /\ rdisk' \in {rdisk, rcur.cursor} /\ faults' \in Nat
    BY DEF ReplicatorFlush, ReplicatorInv, FeedOK
<1>2. FeedOK' /\ StreamOK'
    BY <1>1, MarkTakenOK DEF ReplicatorInv
<1>3. rcur' \in [cursor : Cursor \cup {NoCursor}, dirty : BOOLEAN] /\ rcur'.cursor = rcur.cursor
    BY <1>1 DEF ReplicatorInv, ReplicatorTypeOK
<1>4. consumer' = "replicator" /\ ReplicatorTypeOK' /\ settled' = Shown(local)'
    BY <1>1, <1>3 DEF ReplicatorInv, ReplicatorTypeOK, Shown
<1>5. CursorFollows' /\ RowsCurrent' /\ ReplayShows'
    BY <1>1, <1>3 DEF ReplicatorInv, CursorFollows, RowsCurrent, ReplayShows, Resumable, CursorAt
<1>6. rcur.cursor # NoCursor => rcur.cursor.pos \in Nat
    BY DEF ReplicatorInv, ReplicatorTypeOK, CursorOK, Cursor
<1>7. DiskBehind'
    BY <1>1, <1>3, <1>6 DEF ReplicatorInv, DiskBehind, Resumable
<1> QED BY <1>1, <1>2, <1>4, <1>5, <1>7 DEF ReplicatorInv

\* clearTable empties the table, and the cursor goes with it.
LEMMA ReplicatorResetKeeps ==
    ASSUME ReplicatorInv, ReplicatorReset
    PROVE  ReplicatorInv' /\ log' = log /\ UNCHANGED <<floor, epoch, rdisk>>
<1>1. /\ UNCHANGED <<consumer, log, floor, epoch, faults, rdisk, rup>> /\ rup = "session" /\ IsReset
      /\ local' = Empty /\ settled' = Shown(Empty) /\ stream' = AfterReset
      /\ rcur' = [cursor |-> NoCursor, dirty |-> TRUE]
    BY DEF ReplicatorReset, Applied, Cleared
<1>2. FeedOK' /\ StreamOK'
    BY <1>1, MarkTakenOK DEF ReplicatorInv, FeedOK
<1>3. local' \in [Key -> [val : Content, pos : Nat]]
      /\ \A k \in Key : local'[k].pos = 0 /\ local'[k].val = NoRow
    BY <1>1 DEF Empty, Content
<1>4. rcur' \in [cursor : Cursor \cup {NoCursor}, dirty : BOOLEAN] /\ rcur'.cursor = NoCursor
    BY <1>1
<1>5. ReplicatorTypeOK'
    BY <1>1, <1>2, <1>3, <1>4 DEF ReplicatorInv, ReplicatorTypeOK, CursorOK, FeedOK
<1>6. consumer' = "replicator" /\ settled' = Shown(local)'
    BY <1>1 DEF ReplicatorInv, Shown
<1>7. stream.phase = "reset" /\ ~Resumable(rcur.cursor) /\ stream.todo = LiveAt(log, stream.at)
    BY <1>1 DEF IsReset, ReplicatorInv, CursorFollows, ReplayShows
<1>8. stream'.phase = "replay" /\ stream'.todo = stream.todo /\ stream'.at = stream.at
    BY <1>1, MarkTaken DEF ReplicatorInv
<1>9. CursorFollows' /\ RowsCurrent'
    BY <1>1, <1>4, <1>8 DEF CursorFollows, RowsCurrent, Resumable
<1>10. DiskBehind'
    BY <1>1, <1>7 DEF ReplicatorInv, DiskBehind, Resumable
<1>11. ReplayShows'
    BY <1>1, <1>3, <1>7, <1>8 DEF ReplayShows
<1> QED BY <1>1, <1>2, <1>5, <1>6, <1>9, <1>10, <1>11 DEF ReplicatorInv

\* A row is written: past the cursor it becomes current to the change that came
\* with it; in a replay it is one row of the snapshot.
LEMMA ReplicatorUpsertKeeps ==
    ASSUME ReplicatorInv, ReplicatorUpsert
    PROVE  ReplicatorInv' /\ log' = log /\ UNCHANGED <<floor, epoch, rdisk>>
<1> DEFINE i == NextChange
           e == log[NextChange]
           row == [val |-> e.val, pos |-> NextChange]
<1>1. /\ UNCHANGED <<consumer, log, floor, epoch, faults, rdisk, rup>> /\ rup = "session" /\ HasChange
      /\ local' = [local EXCEPT ![e.key] = row] /\ settled' = Shown(local') /\ stream' = AfterChange
      /\ rcur' = [cursor |-> ChangeCursor, dirty |-> TRUE]
    BY DEF ReplicatorUpsert, Applied
<1>2. FeedOK' /\ StreamOK'
    BY <1>1, ChangeTakenOK DEF ReplicatorInv, FeedOK
<1>3. /\ i \in 1..Len(log) /\ stream'.phase = stream.phase
      /\ stream.phase \in {"resume", "live", "replay"}
      /\ stream.phase \in {"resume", "live"} =>
            /\ i = stream.at + 1 /\ stream'.at = i
            /\ ChangeCursor = CursorAt(i) /\ stream.at >= floor
      /\ stream.phase = "replay" =>
            /\ i \in stream.todo /\ stream'.at = stream.at /\ ChangeCursor = NoCursor
            /\ stream'.todo = stream.todo \ {i}
    BY <1>1, ChangeTaken DEF ReplicatorInv
<1>4. e \in ChangeRecord /\ e.key \in Key /\ e.val \in Content
    BY <1>3, LogRecord DEF ReplicatorInv
<1>5. Len(log) \in Nat /\ i \in Nat /\ stream.at \in Nat /\ floor \in Nat /\ epoch \in Nat
    BY <1>3 DEF ReplicatorInv, FeedOK, StreamState
<1>6. row \in [val : Content, pos : Nat] /\ row.val = e.val /\ row.pos = i
    BY <1>4, <1>5
<1>7. local \in [Key -> [val : Content, pos : Nat]]
    BY DEF ReplicatorInv, ReplicatorTypeOK
<1> HIDE DEF i, row
<1>8. /\ local' \in [Key -> [val : Content, pos : Nat]] /\ local'[e.key] = row
      /\ \A k \in Key : k # e.key => local'[k] = local[k]
    BY <1>1, <1>4, <1>6, <1>7
<1>9. CursorAt(i) # NoCursor /\ CursorAt(i) \in Cursor /\ CursorAt(i).pos = i
      /\ CursorAt(i).epoch = epoch /\ CursorOK(CursorAt(i), Len(log), epoch)
    BY <1>3, <1>5, CursorAtOK DEF ReplicatorInv
<1>10. ChangeCursor \in {NoCursor, CursorAt(i)}
    BY <1>3
<1>11. ReplicatorTypeOK'
    <2>1. rcur' \in [cursor : Cursor \cup {NoCursor}, dirty : BOOLEAN] /\ rcur'.cursor = ChangeCursor
        BY <1>1, <1>9, <1>10
    <2>2. CursorOK(ChangeCursor, Len(log), epoch)
        BY <1>9, <1>10 DEF CursorOK
    <2>3. \A k \in Key : local'[k].pos <= Len(log)
        BY <1>3, <1>6, <1>8 DEF ReplicatorInv, ReplicatorTypeOK
    <2> QED BY <1>1, <1>8, <2>1, <2>2, <2>3 DEF ReplicatorInv, ReplicatorTypeOK
<1>12. consumer' = "replicator" /\ settled' = Shown(local)'
    BY <1>1 DEF ReplicatorInv, Shown
<1>13. rcur'.cursor = ChangeCursor
    BY <1>1
<1>14. CursorFollows'
    BY <1>1, <1>3, <1>13 DEF CursorFollows, CursorAt
<1>15. CASE stream.phase \in {"resume", "live"}
    <2>1. rcur.cursor = CursorAt(stream.at) /\ i = stream.at + 1 /\ ChangeCursor = CursorAt(i)
        BY <1>3, <1>15 DEF ReplicatorInv, CursorFollows
    <2>2. rcur.cursor # NoCursor /\ rcur.cursor.epoch = epoch /\ rcur.cursor.pos = stream.at
        BY <1>5, <2>1, CursorAtOK DEF ReplicatorInv, FeedOK
    <2>3. Resumable(rcur.cursor) /\ Resumable(ChangeCursor)
        BY <1>3, <1>5, <1>9, <1>15, <2>1, <2>2 DEF Resumable
    <2>4. DiskBehind'
        <3>1. rdisk # NoCursor => rdisk.pos \in Nat
            BY DEF ReplicatorInv, ReplicatorTypeOK, CursorOK, Cursor
        <3>2. Resumable(rdisk) => rdisk.pos <= stream.at
            BY <2>2 DEF ReplicatorInv, DiskBehind
        <3>3. Resumable(rdisk) => rdisk.pos <= i
            BY <1>5, <2>1, <3>1, <3>2 DEF Resumable
        <3>4. Resumable(rdisk)' = Resumable(rdisk) /\ Resumable(rcur.cursor)'
            BY <1>1, <1>13, <2>3 DEF Resumable
        <3> QED BY <1>1, <1>9, <1>13, <2>1, <3>3, <3>4 DEF DiskBehind
    <2>5. ASSUME NEW k \in Key PROVE CurrentTo(log, k, local'[k], i)
        <3>1. CurrentTo(log, k, local[k], stream.at)
            BY <2>2, <2>3 DEF ReplicatorInv, RowsCurrent
        <3>2. CASE k = e.key
            <4>1. RowShows(log, k, row)
                BY <1>3, <1>5, <1>6, <3>2 DEF RowShows, i
            <4> QED BY <1>5, <1>6, <1>8, <3>2, <4>1 DEF CurrentTo
        <3>3. CASE k # e.key
            <4>1. log[i].key # k
                BY <3>3 DEF i
            <4>2. local'[k] = local[k] /\ local[k].pos \in Nat
                BY <1>7, <1>8, <3>3
            <4>3. \A j \in local[k].pos + 1..i : j = i \/ j \in local[k].pos + 1..stream.at
                BY <1>5, <2>1, <4>2
            <4> QED BY <3>1, <4>1, <4>2, <4>3 DEF CurrentTo
        <3> QED BY <3>2, <3>3
    <2>6. RowsCurrent'
        BY <1>1, <1>9, <1>13, <2>1, <2>5 DEF RowsCurrent
    <2>7. ReplayShows'
        BY <1>3, <1>15 DEF ReplayShows
    <2> QED BY <1>1, <1>2, <1>11, <1>12, <1>14, <2>4, <2>6, <2>7 DEF ReplicatorInv
<1>16. CASE stream.phase = "replay"
    <2>1. rcur.cursor = NoCursor /\ ChangeCursor = NoCursor
        BY <1>3, <1>16 DEF ReplicatorInv, CursorFollows
    <2>2. RowsCurrent' /\ DiskBehind'
        BY <1>1, <1>13, <2>1 DEF ReplicatorInv, RowsCurrent, DiskBehind, Resumable
    <2>3. i \in LiveAt(log, stream.at)
        BY <1>3, <1>16 DEF ReplicatorInv, ReplayShows
    <2>4. ASSUME NEW x \in LiveAt(log, stream.at) \ (stream.todo \ {i})
          PROVE  local'[log[x].key] = [val |-> log[x].val, pos |-> x]
        <3>1. CASE x = i
            BY <1>8, <3>1 DEF row, i
        <3>2. CASE x # i
            <4>1. x \in 1..stream.at /\ \A j \in x + 1..stream.at : log[j].key # log[x].key
                BY DEF LiveAt
            <4>2. i \in 1..stream.at /\ \A j \in i + 1..stream.at : log[j].key # log[i].key
                BY <2>3 DEF LiveAt
            <4>3. x < i \/ i < x
                BY <3>2, <4>1, <4>2
            <4>4. log[x].key # log[i].key
                BY <1>5, <4>1, <4>2, <4>3
            <4>5. local[log[x].key] = [val |-> log[x].val, pos |-> x]
                BY <1>16, <3>2 DEF ReplicatorInv, ReplayShows
            <4>6. x \in 1..Len(log)
                BY <1>5, <4>1 DEF ReplicatorInv, FeedOK
            <4>7. log[x].key \in Key
                BY <4>6, LogRecord DEF ReplicatorInv
            <4> QED BY <1>8, <4>4, <4>5, <4>7 DEF i
        <3> QED BY <3>1, <3>2
    <2>5. ASSUME NEW k \in Key, local'[k].val # NoRow
          PROVE  /\ local'[k].pos \in LiveAt(log, stream.at) /\ log[local'[k].pos].key = k
                 /\ log[local'[k].pos].val = local'[k].val
        <3>1. CASE k = e.key
            BY <1>6, <1>8, <2>3, <3>1 DEF i
        <3>2. CASE k # e.key
            BY <1>8, <1>16, <2>5, <3>2 DEF ReplicatorInv, ReplayShows
        <3> QED BY <3>1, <3>2
    <2>6. stream.todo \ {i} \subseteq LiveAt(log, stream.at)
        BY <1>16 DEF ReplicatorInv, ReplayShows
    <2>7. ReplayShows'
        BY <1>1, <1>3, <1>16, <2>4, <2>5, <2>6 DEF ReplayShows
    <2> QED BY <1>1, <1>2, <1>11, <1>12, <1>14, <2>2, <2>7 DEF ReplicatorInv
<1> QED BY <1>1, <1>3, <1>15, <1>16

\* Synced: after a replay the rows that are here are the live ones, and a key
\* without a row is known to be gone.
LEMMA ReplicatorSyncedKeeps ==
    ASSUME ReplicatorInv, ReplicatorSynced
    PROVE  ReplicatorInv' /\ log' = log /\ UNCHANGED <<floor, epoch, rdisk>>
<1> DEFINE n == stream.at
           swept == [k \in Key |-> IF local[k].val = NoRow
                                     THEN [local[k] EXCEPT !.pos = stream.at] ELSE local[k]]
<1>1. /\ UNCHANGED <<consumer, log, floor, epoch, faults, rdisk, rup>> /\ rup = "session" /\ IsSynced
      /\ local' = IF stream.phase = "replay" THEN swept ELSE local
      /\ settled' = Shown(local') /\ stream' = AfterSynced
      /\ rcur' = [cursor |-> CursorAt(n), dirty |-> TRUE]
    BY DEF ReplicatorSynced, Applied
<1>2. FeedOK' /\ StreamOK'
    BY <1>1, MarkTakenOK DEF ReplicatorInv, FeedOK
<1>3. Len(log) \in Nat /\ n \in Nat /\ n <= Len(log) /\ floor \in Nat /\ epoch \in Nat
    BY DEF ReplicatorInv, FeedOK, StreamState
<1>4. local \in [Key -> [val : Content, pos : Nat]] /\ \A k \in Key : local[k].pos <= Len(log)
    BY DEF ReplicatorInv, ReplicatorTypeOK
<1>5. /\ swept \in [Key -> [val : Content, pos : Nat]]
      /\ \A k \in Key : /\ local[k].val # NoRow => swept[k] = local[k]
                        /\ local[k].val = NoRow => swept[k].val = NoRow /\ swept[k].pos = n
    <2>1. ASSUME NEW k \in Key PROVE [local[k] EXCEPT !.pos = stream.at] \in [val : Content, pos : Nat]
        BY <1>3, <1>4
    <2>2. \A k \in Key : swept[k] \in [val : Content, pos : Nat]
        BY <1>4, <2>1
    <2>3. \A k \in Key : local[k].val = NoRow => swept[k].val = NoRow /\ swept[k].pos = n
        BY <1>4
    <2> QED BY <2>2, <2>3
<1>6. stream'.phase = "live" /\ stream'.at = n
    BY <1>1, MarkTaken DEF ReplicatorInv
<1>7. CursorAt(n) # NoCursor /\ CursorAt(n) \in Cursor /\ CursorAt(n).pos = n
      /\ CursorAt(n).epoch = epoch /\ CursorOK(CursorAt(n), Len(log), epoch)
    BY <1>3, CursorAtOK DEF ReplicatorInv
<1> HIDE DEF swept
<1>8. ReplicatorTypeOK'
    <2>1. rcur' \in [cursor : Cursor \cup {NoCursor}, dirty : BOOLEAN] /\ rcur'.cursor = CursorAt(n)
        BY <1>1, <1>7
    <2>2. local' \in [Key -> [val : Content, pos : Nat]] /\ \A k \in Key : local'[k].pos <= Len(log)
        BY <1>1, <1>3, <1>4, <1>5
    <2> QED BY <1>1, <1>7, <2>1, <2>2 DEF ReplicatorInv, ReplicatorTypeOK
<1>9. consumer' = "replicator" /\ settled' = Shown(local)'
    BY <1>1 DEF ReplicatorInv, Shown
<1>10. rcur'.cursor = CursorAt(n)
    BY <1>1
<1>11. CursorFollows' /\ ReplayShows'
    BY <1>1, <1>6, <1>10 DEF CursorFollows, ReplayShows, CursorAt
<1>12. stream.phase \in {"resume", "replay"} /\ stream.todo = {}
    BY <1>1 DEF IsSynced
<1>13. CASE stream.phase = "resume"
    <2>1. rcur.cursor = CursorAt(n) /\ local' = local
        BY <1>1, <1>13 DEF ReplicatorInv, CursorFollows
    <2>2. RowsCurrent' /\ DiskBehind'
        BY <1>1, <1>10, <2>1 DEF ReplicatorInv, RowsCurrent, DiskBehind, Resumable
    <2> QED BY <1>1, <1>2, <1>8, <1>9, <1>11, <2>2 DEF ReplicatorInv
<1>14. CASE stream.phase = "replay"
    <2>1. ~Resumable(rdisk)
        BY <1>14 DEF ReplicatorInv, CursorFollows, DiskBehind, Resumable
    <2>2. DiskBehind'
        BY <1>1, <2>1 DEF DiskBehind, Resumable
    <2>3. ASSUME NEW k \in Key PROVE CurrentTo(log, k, swept[k], n)
        <3>1. CASE local[k].val # NoRow
            <4>1. /\ local[k].pos \in LiveAt(log, n) /\ log[local[k].pos].key = k
                  /\ log[local[k].pos].val = local[k].val
                BY <1>14, <3>1 DEF ReplicatorInv, ReplayShows
            <4>2. local[k].pos \in 1..n /\ \A j \in local[k].pos + 1..n : log[j].key # k
                BY <4>1 DEF LiveAt
            <4>3. RowShows(log, k, local[k])
                BY <4>1, <4>2 DEF RowShows
            <4> QED BY <1>5, <3>1, <4>2, <4>3 DEF CurrentTo
        <3>2. CASE local[k].val = NoRow
            <4>1. swept[k].val = NoRow /\ swept[k].pos = n
                BY <1>5, <3>2
            <4>2. CASE \A j \in 1..n : log[j].key # k
                BY <1>3, <4>1, <4>2 DEF CurrentTo, RowShows
            <4>3. CASE \E j \in 1..n : log[j].key = k
                <5>1. PICK i \in 1..n : log[i].key = k /\ \A j \in i + 1..n : log[j].key # k
                    <6>1. FeedOK /\ n \in Nat /\ n <= Len(log)
                        BY <1>3 DEF ReplicatorInv
                    <6> HIDE DEF n
                    <6> QED BY <4>3, <6>1, LastWrite
                <5>2. log[i].val = NoRow
                    <6> SUFFICES ASSUME log[i].val # NoRow PROVE FALSE
                        OBVIOUS
                    <6>1. i \in LiveAt(log, n)
                        BY <5>1 DEF LiveAt
                    <6>2. local[k] = [val |-> log[i].val, pos |-> i]
                        BY <1>12, <1>14, <5>1, <6>1 DEF ReplicatorInv, ReplayShows
                    <6> QED BY <3>2, <6>2
                <5> QED BY <1>3, <4>1, <5>1, <5>2 DEF CurrentTo, RowShows
            <4> QED BY <4>2, <4>3
        <3> QED BY <3>1, <3>2
    <2>4. local' = swept
        BY <1>1, <1>14
    <2>5. RowsCurrent'
        BY <1>1, <1>7, <1>10, <2>3, <2>4 DEF RowsCurrent
    <2> QED BY <1>1, <1>2, <1>8, <1>9, <1>11, <2>2, <2>5 DEF ReplicatorInv
<1> QED BY <1>1, <1>12, <1>13, <1>14

LEMMA ReplicatorFeedKeeps ==
    ASSUME ReplicatorInv, FeedNext, UNCHANGED replvars
    PROVE  ReplicatorInv' /\ settled' = settled
<1>1. /\ FeedOK' /\ StreamOK' /\ consumer' = "replicator" /\ settled' = settled
      /\ faults' = faults /\ epoch' >= epoch /\ floor' >= floor
      /\ \/ log' = log
         \/ /\ \E e \in ChangeRecord : log' = Append(log, e)
            /\ Len(log') = Len(log) + 1 /\ stream' = stream
            /\ epoch' = epoch /\ floor' = floor
      /\ stream'.todo = stream.todo /\ stream'.at = stream.at
      /\ stream'.phase = stream.phase \/ stream'.phase = "closed"
      /\ stream.phase = "off" => stream'.phase = "off"
      /\ epoch' = epoch => stream'.phase = stream.phase
    BY FeedStepOK DEF ReplicatorInv
<1>2. UNCHANGED <<local, rcur, rdisk, rup>>
    BY DEF replvars
<1>3. Len(log) \in Nat /\ Len(log') \in Nat /\ Len(log') >= Len(log) /\ stream.at \in Nat
      /\ stream.at <= Len(log) /\ epoch \in Nat /\ epoch' \in Nat
    BY <1>1 DEF ReplicatorInv, FeedOK, StreamState
<1>4. FeedOK /\ CursorOK(rcur.cursor, Len(log), epoch) /\ CursorOK(rdisk, Len(log), epoch)
    BY DEF ReplicatorInv, ReplicatorTypeOK
<1>5. /\ CursorOK(rcur.cursor, Len(log'), epoch') /\ (Resumable(rcur.cursor)' => Resumable(rcur.cursor))
      /\ CursorOK(rdisk, Len(log'), epoch') /\ (Resumable(rdisk)' => Resumable(rdisk))
    <2> DEFINE c == rcur.cursor
               d == rdisk
    <2>1. c' = c /\ d' = d
        BY <1>2
    <2>2. CursorOK(c, Len(log'), epoch')
          /\ ((c # NoCursor /\ c.epoch = epoch' /\ c.pos >= floor') => Resumable(c))
        BY <1>1, <1>3, <1>4, CursorKept DEF Resumable
    <2>3. CursorOK(d, Len(log'), epoch')
          /\ ((d # NoCursor /\ d.epoch = epoch' /\ d.pos >= floor') => Resumable(d))
        BY <1>1, <1>3, <1>4, CursorKept DEF Resumable
    <2> QED BY <2>1, <2>2, <2>3 DEF Resumable
<1>6. local \in [Key -> [val : Content, pos : Nat]] /\ \A k \in Key : local[k].pos <= Len(log)
    BY DEF ReplicatorInv, ReplicatorTypeOK
<1>7. ReplicatorTypeOK'
    BY <1>2, <1>3, <1>5, <1>6 DEF ReplicatorInv, ReplicatorTypeOK
<1>8. /\ \A i \in 1..Len(log) : log'[i] = log[i]
      /\ \A n \in Nat : n <= Len(log) => LiveAt(log', n) = LiveAt(log, n)
      /\ \A k \in Key, n \in Nat :
            n <= Len(log) /\ CurrentTo(log, k, local[k], n) => CurrentTo(log', k, local[k], n)
    <2>1. CASE log' = log
        BY <2>1
    <2>2. CASE \E e \in ChangeRecord : log' = Append(log, e)
        <3>1. PICK e \in ChangeRecord : log' = Append(log, e)
            BY <2>2
        <3>2. log \in Seq(ChangeRecord)
            BY <1>4 DEF FeedOK
        <3>3. AgreesUpTo(log, log')
            BY <3>1, <3>2, AppendKeeps
        <3> QED BY <1>6, <3>3 DEF AgreesUpTo
    <2> QED BY <1>1, <2>1, <2>2
<1>9. settled' = Shown(local)'
    <2>1. settled = Shown(local) /\ settled' = settled
        BY <1>1 DEF ReplicatorInv
    <2>2. CASE log' = log
        BY <1>2, <2>1, <2>2 DEF Shown
    <2>3. CASE Len(log') = Len(log) + 1 /\ \E e \in ChangeRecord : log' = Append(log, e)
        <3>1. log'[Len(log')].key \in Key
            BY <1>1, <1>3, <2>3 DEF FeedOK, ChangeRecord
        <3>2. ~(local[log'[Len(log')].key].pos >= Len(log'))
            BY <1>3, <1>6, <2>3, <3>1
        <3>3. \A j \in 1..Len(log') : j = Len(log') \/ j \in 1..Len(log)
            BY <1>3, <2>3
        <3>4. \A j \in 1..Len(log) : j \in 1..Len(log')
            BY <1>3
        <3>5. Shown(local)' = {j \in 1..Len(log') : local[log'[j].key].pos >= j}
            BY <1>2 DEF Shown
        <3> QED BY <1>8, <2>1, <3>2, <3>3, <3>4, <3>5 DEF Shown
    <2> QED BY <1>1, <2>2, <2>3
<1>10. CursorFollows'
    <2>1. (stream.phase \in {"resume", "live"} /\ stream'.phase = stream.phase) => epoch' = epoch
        <3> SUFFICES ASSUME epoch' # epoch, stream.phase \in {"resume", "live"}, stream'.phase = stream.phase
                     PROVE FALSE
            OBVIOUS
        <3>1. SourceRestart
            BY <1>1 DEF FeedNext, Change, Prune
        <3> QED BY <3>1 DEF SourceRestart, ReplicatorInv, FeedOK, StreamState
    <2> QED BY <1>1, <1>2, <1>5, <2>1 DEF ReplicatorInv, CursorFollows, CursorAt
<1>11. RowsCurrent'
    <2> SUFFICES ASSUME Resumable(rcur.cursor)', NEW k \in Key
                 PROVE  CurrentTo(log', k, local[k], rcur.cursor.pos)
        BY <1>2 DEF RowsCurrent
    <2>1. Resumable(rcur.cursor)
        BY <1>5
    <2>2. rcur.cursor.pos \in Nat /\ rcur.cursor.pos <= Len(log)
        BY <1>4, <2>1 DEF CursorOK, Cursor, Resumable
    <2> QED BY <1>8, <2>1, <2>2 DEF ReplicatorInv, RowsCurrent
<1>12. DiskBehind'
    <2> SUFFICES ASSUME Resumable(rdisk)'
                 PROVE  Resumable(rcur.cursor)' /\ rdisk.pos <= rcur.cursor.pos
        BY <1>2 DEF DiskBehind
    <2>1. Resumable(rdisk) /\ Resumable(rcur.cursor) /\ rdisk.pos <= rcur.cursor.pos
        BY <1>5 DEF ReplicatorInv, DiskBehind
    <2>2. rdisk.pos \in Nat /\ rcur.cursor.pos \in Nat /\ floor' \in Nat
        BY <1>1, <1>4, <2>1 DEF CursorOK, Cursor, Resumable, FeedOK
    <2>3. rdisk.epoch = epoch' /\ rdisk.pos >= floor' /\ rdisk.epoch = epoch
        BY <1>2, <2>1 DEF Resumable
    <2>4. rcur.cursor # NoCursor /\ rcur.cursor.epoch = epoch' /\ rcur.cursor.pos >= floor'
        BY <2>1, <2>2, <2>3 DEF Resumable
    <2> QED BY <1>2, <2>1, <2>4 DEF Resumable
<1>13. ReplayShows'
    <2>1. LiveAt(log', stream.at) = LiveAt(log, stream.at)
        BY <1>3, <1>8
    <2>2. \A i \in LiveAt(log, stream.at) : i \in 1..Len(log)
        BY <1>3 DEF LiveAt
    <2>3. \A i \in LiveAt(log, stream.at) : log'[i] = log[i]
        BY <1>8, <2>2
    <2> QED BY <1>1, <1>2, <2>1, <2>3 DEF ReplicatorInv, ReplayShows
<1> QED BY <1>1, <1>7, <1>9, <1>10, <1>11, <1>12, <1>13 DEF ReplicatorInv

\* Every step of the replicator keeps the invariant and is a step of Delivery.
DeliveredOK ==
    Durable \in 0..Len(log) /\ 1..Durable \subseteq settled /\ settled \subseteq 1..Len(log)
FollowerPosition == Durable = IF Resumable(rdisk) THEN rdisk.pos ELSE 0

LEMMA ReplicatorDurable == ReplicatorInv => DeliveredOK /\ FollowerPosition
<1> SUFFICES ASSUME ReplicatorInv
             PROVE  /\ Durable = IF Resumable(rdisk) THEN rdisk.pos ELSE 0
                    /\ Durable \in 0..Len(log) /\ 1..Durable \subseteq settled
                    /\ settled \subseteq 1..Len(log)
    BY DEF DeliveredOK, FollowerPosition
<1>1. Durable = IF Resumable(rdisk) THEN rdisk.pos ELSE 0
    BY DEF ReplicatorInv, Durable
<1>2. Len(log) \in Nat /\ settled \subseteq 1..Len(log)
    BY DEF ReplicatorInv, FeedOK, Shown
<1>3. CASE Resumable(rdisk)
    <2>1. rdisk.pos \in Nat /\ rdisk.pos <= Len(log) /\ Resumable(rcur.cursor)
          /\ rdisk.pos <= rcur.cursor.pos
        BY <1>3 DEF ReplicatorInv, ReplicatorTypeOK, CursorOK, Cursor, Resumable, DiskBehind
    <2>2. rcur.cursor.pos \in Nat /\ rcur.cursor.pos <= Len(log)
        BY <2>1 DEF ReplicatorInv, ReplicatorTypeOK, CursorOK, Cursor, Resumable
    <2>3. 1..rcur.cursor.pos \subseteq Shown(local)
        BY <2>1, <2>2, CurrentIsShown DEF ReplicatorInv, RowsCurrent, ReplicatorTypeOK
    <2>4. 1..rdisk.pos \subseteq 1..rcur.cursor.pos
        BY <2>1, <2>2
    <2> QED BY <1>1, <1>2, <1>3, <2>1, <2>3, <2>4 DEF ReplicatorInv
<1>4. CASE ~Resumable(rdisk)
    BY <1>1, <1>2, <1>4
<1> QED BY <1>1, <1>2, <1>3, <1>4

\* A step of the consumer: what Delivery asks of it.
LEMMA IsConsume ==
    ASSUME log' = log, DeliveredOK', settled \cap 1..Durable \subseteq settled'
    PROVE  D!DConsume
BY DEF D!DConsume, DeliveredOK

LEMMA ReplicatorKeeps ==
    ASSUME ReplicatorInv, ReplicatorNext
    PROVE  ReplicatorInv' /\ (D!DChange \/ D!DConsume \/ UNCHANGED D!dvars)
<1>0. DeliveredOK /\ FollowerPosition /\ (ReplicatorInv' => DeliveredOK' /\ FollowerPosition')
    BY ReplicatorDurable, PTL
<1>1. CASE ReplicatorBoot \/ ReplicatorStart \/ ReplicatorEnd \/ ReplicatorCrash \/ ReplicatorFlush
    <2>1. ReplicatorInv' /\ settled' = settled /\ log' = log
        BY <1>1, ReplicatorBootKeeps, ReplicatorStartKeeps, ReplicatorEndKeeps, ReplicatorFlushKeeps
    <2>2. D!DConsume
        BY <2>1, <1>0, IsConsume DEF DeliveredOK
    <2> QED BY <2>1, <2>2
<1>2. CASE ReplicatorReset \/ ReplicatorUpsert \/ ReplicatorSynced
    <2>1. ReplicatorInv' /\ log' = log /\ UNCHANGED <<floor, epoch, rdisk>>
        BY <1>2, ReplicatorResetKeeps, ReplicatorUpsertKeeps, ReplicatorSyncedKeeps
    <2>2. Durable' = Durable
        BY <2>1, <1>0 DEF FollowerPosition, Resumable
    <2>3. D!DConsume
        BY <2>1, <2>2, <1>0, IsConsume DEF DeliveredOK
    <2> QED BY <2>1, <2>3
<1>3. CASE FeedNext /\ UNCHANGED replvars
    <2>1. ReplicatorInv' /\ settled' = settled
        BY <1>3, ReplicatorFeedKeeps
    <2>2. CASE log' = log
        BY <2>1, <2>2, <1>0, IsConsume DEF DeliveredOK
    <2>3. CASE log' # log
        <3>1. Len(log') = Len(log) + 1 /\ epoch' = epoch /\ floor' = floor
            BY <1>3, <2>3, FeedStepOK DEF ReplicatorInv
        <3>2. Durable' = Durable
            BY <1>3, <2>1, <3>1, <1>0 DEF FollowerPosition, Resumable, replvars
        <3>3. D!DChange
            BY <2>1, <3>1, <3>2 DEF D!DChange
        <3> QED BY <2>1, <3>3
    <2> QED BY <2>1, <2>2, <2>3
<1> QED BY <1>1, <1>2, <1>3 DEF ReplicatorNext, ReplicatorStep

-----------------------------------------------------------------------------
(***************************************************************************)
(* The OpenSearch exporter.  Batches complete in any order and one may     *)
(* fail for good.  A batch's cursor stands for what it and the batches     *)
(* before it hold, unless one of those has failed: the failure leaves a    *)
(* hole in the sequence numbers that ackSeq never passes.                  *)
(***************************************************************************)
CursorsTo(n, e) == {c \in Cursor : c.pos <= n /\ c.epoch <= e} \cup {NoCursor}
Covers(c, S) == c # NoCursor => 1..c.pos \subseteq S

BulkBatch(n, e) == [seq : Nat, docs : SUBSET (1..n), cur : CursorsTo(n, e)]
UploaderState(n, e) ==
    [flying : SUBSET BulkBatch(n, e), done : SUBSET BulkBatch(n, e), submitSeq : Nat, ackSeq : Nat,
     committed : CursorsTo(n, e), fatal : BOOLEAN]

DocsOf(B) == UNION {b.docs : b \in B}
Unfinished(u) == u.flying \cup u.done
HoleBefore(u, b) == \E n \in u.ackSeq..b.seq : \A x \in Unfinished(u) : x.seq # n

UploaderInv(u, S) ==
    /\ u.ackSeq <= u.submitSeq
    /\ \A b \in Unfinished(u) : u.ackSeq <= b.seq /\ b.seq < u.submitSeq
    /\ \A a, b \in Unfinished(u) : a.seq = b.seq => a = b
    /\ \A f \in u.flying, d \in u.done : f # d
    /\ \A b \in Unfinished(u) :
          HoleBefore(u, b) \/ Covers(b.cur, S \cup DocsOf({f \in u.flying : f.seq <= b.seq}))
    /\ Covers(u.committed, S)

LEMMA UploaderGrows ==
    ASSUME NEW u, NEW S, NEW T, S \subseteq T, UploaderInv(u, S)
    PROVE  UploaderInv(u, T)
BY DEF UploaderInv, Covers

LEMMA NewUploaderOK ==
    ASSUME NEW n \in Nat, NEW e \in Nat, NEW S
    PROVE  NewUploader \in UploaderState(n, e) /\ UploaderInv(NewUploader, S)
<1>1. /\ NewUploader.flying = {} /\ NewUploader.done = {} /\ NewUploader.submitSeq = 0
      /\ NewUploader.ackSeq = 0 /\ NewUploader.committed = NoCursor
    BY DEF NewUploader
<1>2. NoCursor \in CursorsTo(n, e)
    BY DEF CursorsTo
<1>3. NewUploader \in UploaderState(n, e)
    BY <1>2 DEF NewUploader, UploaderState
<1>4. Unfinished(NewUploader) = {}
    BY <1>1 DEF Unfinished
<1> QED BY <1>1, <1>3, <1>4 DEF UploaderInv, Covers

\* Uploader.run: a batch is acknowledged.
LEMMA AckedKeeps ==
    ASSUME NEW n \in Nat, NEW e \in Nat, NEW u \in UploaderState(n, e), NEW S, UploaderInv(u, S),
           NEW b \in u.flying, NEW v, v = Acked(u, b)
    PROVE  /\ v \in UploaderState(n, e) /\ UploaderInv(v, S \cup b.docs)
           /\ v.flying = u.flying \ {b} /\ (v.fatal <=> u.fatal)
<1> DEFINE done == u.done \cup {b}
           free == {m \in u.ackSeq..u.submitSeq : \A d \in done : d.seq # m}
           ack == Min(free)
           passed == {d \in done : d.seq < ack /\ d.cur # NoCursor}
           last == CHOOSE d \in passed : \A x \in passed : x.seq <= d.seq
           com == IF passed = {} THEN u.committed ELSE last.cur
<1>1. /\ u.flying \in SUBSET BulkBatch(n, e) /\ u.done \in SUBSET BulkBatch(n, e)
      /\ u.submitSeq \in Nat /\ u.ackSeq \in Nat /\ u.committed \in CursorsTo(n, e)
      /\ u.fatal \in BOOLEAN
    BY DEF UploaderState
<1>2. b \in BulkBatch(n, e) /\ done \in SUBSET BulkBatch(n, e)
    BY <1>1
<1>3. \A d \in BulkBatch(n, e) : d.seq \in Nat /\ d.cur \in CursorsTo(n, e)
    BY DEF BulkBatch
<1>4. b \in Unfinished(u) /\ done \subseteq Unfinished(u)
    BY DEF Unfinished
<1>5. u.ackSeq <= u.submitSeq /\ \A d \in Unfinished(u) : u.ackSeq <= d.seq /\ d.seq < u.submitSeq
    BY DEF UploaderInv
<1>6. u.submitSeq \in free
    BY <1>1, <1>2, <1>3, <1>4, <1>5
<1>7. free \in SUBSET Nat
    BY <1>1
<1>8. ack \in free /\ \A m \in free : ack <= m
    BY <1>6, <1>7, MinIs
<1>9. ack \in Nat /\ u.ackSeq <= ack /\ ack <= u.submitSeq
    BY <1>1, <1>8
<1>10. v = [u EXCEPT !.flying = @ \ {b}, !.ackSeq = ack, !.done = {d \in done : d.seq >= ack},
                     !.committed = IF passed = {} THEN @ ELSE last.cur]
    BY DEF Acked
<1> HIDE DEF ack
<1>11. com \in CursorsTo(n, e) /\ (passed # {} => last \in passed)
    <2>1. CASE passed = {}
        BY <1>1, <2>1
    <2>2. CASE passed # {}
        <3> DEFINE seqs == {d.seq : d \in passed}
        <3>0. passed \subseteq done /\ \A d \in passed : d.seq \in Nat /\ d.seq <= ack
            BY <1>2, <1>3, <1>9
        <3>1. seqs \in SUBSET Nat /\ seqs # {} /\ \A x \in seqs : x <= ack
            BY <2>2, <3>0
        <3>2. Max(seqs) \in seqs /\ \A x \in seqs : x <= Max(seqs)
            BY <1>9, <3>1, MaxIs
        <3>3. \E d \in passed : \A x \in passed : x.seq <= d.seq
            BY <3>2
        <3>4. last \in passed
            BY <3>3
        <3> QED BY <1>2, <1>3, <2>2, <3>0, <3>4
    <2> QED BY <2>1, <2>2
<1> HIDE DEF last
<1>12. v = [flying |-> u.flying \ {b}, done |-> {d \in done : d.seq >= ack}, submitSeq |-> u.submitSeq,
            ackSeq |-> ack, committed |-> com, fatal |-> u.fatal]
    BY <1>10 DEF UploaderState
<1>13. v \in UploaderState(n, e)
    <2>1. u.flying \ {b} \in SUBSET BulkBatch(n, e) /\ {d \in done : d.seq >= ack} \in SUBSET BulkBatch(n, e)
        BY <1>1, <1>2
    <2> HIDE DEF done, com
    <2> QED BY <1>1, <1>9, <1>11, <1>12, <2>1 DEF UploaderState
<1>14. /\ v.flying = u.flying \ {b} /\ v.done = {d \in done : d.seq >= ack} /\ v.ackSeq = ack
       /\ v.submitSeq = u.submitSeq /\ v.committed = com /\ v.fatal = u.fatal
    BY <1>12
<1>15. \A m \in u.ackSeq..ack - 1 : \E d \in done : d.seq = m
    <2> SUFFICES ASSUME NEW m \in u.ackSeq..ack - 1, \A d \in done : d.seq # m PROVE FALSE
        OBVIOUS
    <2>1. m \in free
        BY <1>1, <1>9
    <2> QED BY <1>1, <1>8, <1>9, <2>1
<1>16. \A f \in v.flying : f.seq >= ack
    <2> SUFFICES ASSUME NEW f \in v.flying, f.seq < ack PROVE FALSE
        BY <1>1, <1>3, <1>9, <1>14
    <2>1. f \in u.flying /\ f # b /\ f \in Unfinished(u) /\ f.seq \in Nat /\ u.ackSeq <= f.seq
        BY <1>1, <1>3, <1>5, <1>14 DEF Unfinished
    <2>2. PICK d \in done : d.seq = f.seq
        BY <1>1, <1>9, <1>15, <2>1
    <2>3. d = f
        BY <1>4, <2>1, <2>2 DEF UploaderInv
    <2> QED BY <2>1, <2>2, <2>3 DEF UploaderInv
<1>17. Unfinished(v) \subseteq Unfinished(u) /\ \A x \in Unfinished(v) : x.seq >= ack /\ x.seq \in Nat
    BY <1>1, <1>2, <1>3, <1>4, <1>14, <1>16 DEF Unfinished
<1>18. \A x \in Unfinished(u) : x.seq >= ack => x \in Unfinished(v)
    BY <1>14 DEF Unfinished
<1>19. ASSUME NEW x \in Unfinished(u), HoleBefore(u, x) PROVE \E m \in ack..x.seq : \A y \in Unfinished(u) : y.seq # m
    <2>1. PICK m \in u.ackSeq..x.seq : \A y \in Unfinished(u) : y.seq # m
        BY <1>19 DEF HoleBefore
    <2>2. x.seq \in Nat /\ x.seq < u.submitSeq
        BY <1>1, <1>3, <1>5 DEF Unfinished
    <2>3. m \in free
        BY <1>1, <1>4, <2>1, <2>2
    <2>4. ack <= m
        BY <1>8, <2>3
    <2> QED BY <1>1, <1>9, <2>1, <2>2, <2>4
<1>20. ASSUME NEW x \in Unfinished(v)
       PROVE  HoleBefore(v, x) \/ Covers(x.cur, (S \cup b.docs) \cup DocsOf({f \in v.flying : f.seq <= x.seq}))
    <2>1. x \in Unfinished(u)
        BY <1>17
    <2>2. CASE HoleBefore(u, x)
        BY <1>14, <1>17, <1>19, <2>1, <2>2 DEF HoleBefore
    <2>3. CASE Covers(x.cur, S \cup DocsOf({f \in u.flying : f.seq <= x.seq}))
        <3>1. DocsOf({f \in u.flying : f.seq <= x.seq})
                \subseteq b.docs \cup DocsOf({f \in v.flying : f.seq <= x.seq})
            BY <1>14 DEF DocsOf
        <3> QED BY <2>3, <3>1 DEF Covers
    <2> QED BY <2>1, <2>2, <2>3 DEF UploaderInv
<1>21. Covers(com, S \cup b.docs)
    <2>1. CASE passed = {}
        BY <2>1 DEF UploaderInv, Covers
    <2>2. CASE passed # {}
        <3>1. last \in done /\ last.seq < ack /\ com = last.cur
            BY <1>11, <2>2
        <3>2. last \in Unfinished(u) /\ last.seq \in Nat
            BY <1>2, <1>3, <1>4, <3>1
        <3>3. ~HoleBefore(u, last)
            BY <1>9, <1>19, <3>1, <3>2
        <3>4. Covers(com, S \cup DocsOf({f \in u.flying : f.seq <= last.seq}))
            BY <3>1, <3>2, <3>3 DEF UploaderInv
        <3>5. \A f \in u.flying : f.seq <= last.seq => f = b
            BY <1>1, <1>3, <1>9, <1>14, <1>16, <3>1, <3>2
        <3>6. DocsOf({f \in u.flying : f.seq <= last.seq}) \subseteq b.docs
            BY <3>5 DEF DocsOf
        <3> QED BY <3>4, <3>6 DEF Covers
    <2> QED BY <2>1, <2>2
<1>22. \A f \in v.flying, d \in v.done : f # d
    BY <1>14 DEF UploaderInv
<1>23. \A x \in Unfinished(v) : v.ackSeq <= x.seq /\ x.seq < v.submitSeq
    BY <1>5, <1>9, <1>14, <1>17
<1>24. \A x, y \in Unfinished(v) : x.seq = y.seq => x = y
    BY <1>17 DEF UploaderInv
<1>25. v.ackSeq <= v.submitSeq /\ v.committed = com
    BY <1>9, <1>14
<1>26. UploaderInv(v, S \cup b.docs)
    BY <1>20, <1>21, <1>22, <1>23, <1>24, <1>25 DEF UploaderInv
<1> QED BY <1>13, <1>14, <1>26

\* A batch whose retries are used up leaves a hole.
WithoutBatch(u, b) == [u EXCEPT !.flying = @ \ {b}, !.fatal = TRUE]

LEMMA FailedKeeps ==
    ASSUME NEW n \in Nat, NEW e \in Nat, NEW u \in UploaderState(n, e), NEW S, UploaderInv(u, S),
           NEW b \in u.flying, NEW v, v = WithoutBatch(u, b)
    PROVE  /\ v \in UploaderState(n, e) /\ UploaderInv(v, S)
           /\ v.flying = u.flying \ {b}
<1>1. /\ u.flying \in SUBSET BulkBatch(n, e) /\ u.done \in SUBSET BulkBatch(n, e)
      /\ u.submitSeq \in Nat /\ u.ackSeq \in Nat /\ u.committed \in CursorsTo(n, e)
    BY DEF UploaderState
<1>2. v = [flying |-> u.flying \ {b}, done |-> u.done, submitSeq |-> u.submitSeq,
           ackSeq |-> u.ackSeq, committed |-> u.committed, fatal |-> TRUE]
    BY DEF UploaderState, WithoutBatch
<1>3. v \in UploaderState(n, e)
    BY <1>1, <1>2 DEF UploaderState
<1>4. /\ v.flying = u.flying \ {b} /\ v.done = u.done /\ v.submitSeq = u.submitSeq
      /\ v.ackSeq = u.ackSeq /\ v.committed = u.committed /\ v.fatal
    BY <1>2
<1>5. \A d \in BulkBatch(n, e) : d.seq \in Nat
    BY DEF BulkBatch
<1>6. Unfinished(v) \subseteq Unfinished(u) /\ b \in Unfinished(u) /\ b.seq \in Nat
    BY <1>1, <1>4, <1>5 DEF Unfinished
<1>7. \A x \in Unfinished(v) : x.seq # b.seq
    <2> SUFFICES ASSUME NEW x \in Unfinished(v), x.seq = b.seq PROVE FALSE
        OBVIOUS
    <2>1. x = b
        BY <1>6 DEF UploaderInv
    <2> QED BY <1>4, <2>1 DEF Unfinished, UploaderInv
<1>8. ASSUME NEW x \in Unfinished(v)
      PROVE  HoleBefore(v, x) \/ Covers(x.cur, S \cup DocsOf({f \in v.flying : f.seq <= x.seq}))
    <2>1. x \in Unfinished(u) /\ x.seq \in Nat /\ u.ackSeq <= b.seq
        BY <1>1, <1>5, <1>6 DEF Unfinished, UploaderInv
    <2>2. CASE HoleBefore(u, x)
        BY <1>4, <1>6, <2>2 DEF HoleBefore
    <2>3. CASE b.seq <= x.seq
        BY <1>1, <1>4, <1>6, <1>7, <2>1, <2>3 DEF HoleBefore
    <2>4. CASE ~(b.seq <= x.seq) /\ Covers(x.cur, S \cup DocsOf({f \in u.flying : f.seq <= x.seq}))
        <3>1. DocsOf({f \in u.flying : f.seq <= x.seq}) \subseteq DocsOf({f \in v.flying : f.seq <= x.seq})
            BY <1>4, <2>4 DEF DocsOf
        <3> QED BY <2>4, <3>1 DEF Covers
    <2> QED BY <2>1, <2>2, <2>3, <2>4 DEF UploaderInv
<1>9. UploaderInv(v, S)
    BY <1>4, <1>6, <1>8 DEF UploaderInv
<1> QED BY <1>3, <1>4, <1>9

\* Uploader.Submit: the new batch comes after all others.
WithBatch(u, docs, c) ==
    [u EXCEPT !.submitSeq = @ + 1,
              !.flying = @ \cup {[seq |-> u.submitSeq, docs |-> docs, cur |-> c]}]

LEMMA SubmittedKeeps ==
    ASSUME NEW n \in Nat, NEW e \in Nat, NEW u \in UploaderState(n, e), NEW S, UploaderInv(u, S),
           NEW docs \in SUBSET (1..n), NEW c \in CursorsTo(n, e),
           Covers(c, S \cup docs \cup DocsOf(u.flying)), NEW v, v = WithBatch(u, docs, c)
    PROVE  /\ v \in UploaderState(n, e) /\ UploaderInv(v, S)
           /\ DocsOf(v.flying) = DocsOf(u.flying) \cup docs
<1> DEFINE b == [seq |-> u.submitSeq, docs |-> docs, cur |-> c]
<1>1. /\ u.flying \in SUBSET BulkBatch(n, e) /\ u.done \in SUBSET BulkBatch(n, e)
      /\ u.submitSeq \in Nat /\ u.ackSeq \in Nat /\ u.committed \in CursorsTo(n, e)
      /\ u.fatal \in BOOLEAN
    BY DEF UploaderState
<1>2. b \in BulkBatch(n, e) /\ b.seq = u.submitSeq /\ b.docs = docs /\ b.cur = c
    BY <1>1 DEF BulkBatch
<1>3. v = [flying |-> u.flying \cup {b}, done |-> u.done, submitSeq |-> u.submitSeq + 1,
           ackSeq |-> u.ackSeq, committed |-> u.committed, fatal |-> u.fatal]
    BY DEF UploaderState, WithBatch
<1> HIDE DEF b
<1>4. u.flying \cup {b} \in SUBSET BulkBatch(n, e) /\ u.submitSeq + 1 \in Nat
    BY <1>1, <1>2
<1>5. v \in UploaderState(n, e)
    BY <1>1, <1>3, <1>4 DEF UploaderState
<1>6. /\ v.flying = u.flying \cup {b} /\ v.done = u.done /\ v.submitSeq = u.submitSeq + 1
      /\ v.ackSeq = u.ackSeq /\ v.committed = u.committed /\ v.fatal = u.fatal
    BY <1>3
<1>7. \A d \in BulkBatch(n, e) : d.seq \in Nat
    BY DEF BulkBatch
<1>8. Unfinished(v) = Unfinished(u) \cup {b} /\ Unfinished(u) \subseteq BulkBatch(n, e)
    BY <1>1, <1>6 DEF Unfinished
<1>9. \A x \in Unfinished(u) : x.seq \in Nat /\ u.ackSeq <= x.seq /\ x.seq < u.submitSeq
    BY <1>7, <1>8 DEF UploaderInv
<1>10. \A x \in Unfinished(v) : v.ackSeq <= x.seq /\ x.seq < v.submitSeq
    BY <1>1, <1>2, <1>6, <1>8, <1>9 DEF UploaderInv
<1>11. \A x, y \in Unfinished(v) : x.seq = y.seq => x = y
    <2>1. \A x \in Unfinished(u) : x.seq # b.seq
        BY <1>1, <1>2, <1>9
    <2> QED BY <1>8, <2>1 DEF UploaderInv
<1>12. \A f \in v.flying, d \in v.done : f # d
    <2>1. \A d \in u.done : d # b
        BY <1>1, <1>2, <1>9 DEF Unfinished
    <2> QED BY <1>6, <2>1 DEF UploaderInv
<1>13. ASSUME NEW x \in Unfinished(v)
       PROVE  HoleBefore(v, x) \/ Covers(x.cur, S \cup DocsOf({f \in v.flying : f.seq <= x.seq}))
    <2>1. CASE x = b
        <3>1. \A f \in v.flying : f.seq <= x.seq
            BY <1>1, <1>2, <1>6, <1>9, <2>1 DEF Unfinished
        <3>2. {f \in v.flying : f.seq <= x.seq} = u.flying \cup {b}
            BY <1>6, <3>1
        <3>3. DocsOf(u.flying \cup {b}) = DocsOf(u.flying) \cup docs
            BY <1>2 DEF DocsOf
        <3> QED BY <1>2, <2>1, <3>2, <3>3 DEF Covers
    <2>2. CASE x \in Unfinished(u) /\ HoleBefore(u, x)
        <3>1. PICK m \in u.ackSeq..x.seq : \A y \in Unfinished(u) : y.seq # m
            BY <2>2 DEF HoleBefore
        <3>2. b.seq # m
            BY <1>1, <1>2, <1>9, <2>2, <3>1
        <3> QED BY <1>6, <1>8, <3>1, <3>2 DEF HoleBefore
    <2>3. CASE x \in Unfinished(u) /\ Covers(x.cur, S \cup DocsOf({f \in u.flying : f.seq <= x.seq}))
        <3>1. DocsOf({f \in u.flying : f.seq <= x.seq}) \subseteq DocsOf({f \in v.flying : f.seq <= x.seq})
            BY <1>6 DEF DocsOf
        <3> QED BY <2>3, <3>1 DEF Covers
    <2> QED BY <1>8, <2>1, <2>2, <2>3 DEF UploaderInv
<1>14. v.ackSeq <= v.submitSeq /\ Covers(v.committed, S)
    BY <1>1, <1>6 DEF UploaderInv
<1>15. UploaderInv(v, S)
    BY <1>10, <1>11, <1>12, <1>13, <1>14 DEF UploaderInv
<1>16. DocsOf(v.flying) = DocsOf(u.flying) \cup docs
    BY <1>2, <1>6 DEF DocsOf
<1> QED BY <1>5, <1>6, <1>15, <1>16

(***************************************************************************)
(* The session: what it was sent is settled, pending or in flight, unless  *)
(* an upload has failed for good; then the session is about to end.        *)
(***************************************************************************)
HandlerStep(o, c) == [op |-> o, cur |-> c]
HandlerSteps(C) ==
    {<<>>, <<HandlerStep("committed", NoCursor)>>, <<HandlerStep("last", NoCursor)>>,
     <<HandlerStep("drainAny", NoCursor), HandlerStep("last", NoCursor)>>}
      \cup {<<HandlerStep("submit", c)>> : c \in C}
      \cup {SyncedSteps(c) : c \in C}
      \cup {<<HandlerStep("drain", c), HandlerStep("write", c)>> : c \in C}
      \cup {<<HandlerStep("write", c)>> : c \in C}
      \cup {<<HandlerStep("submit", c), HandlerStep("committed", NoCursor)>> : c \in C}
      \cup {<<HandlerStep("submit", c), HandlerStep("drainAny", NoCursor),
              HandlerStep("last", NoCursor)>> : c \in C}

BulkSession(n, e) ==
    [on : {TRUE}, pending : SUBSET (1..n), last : CursorsTo(n, e), steps : HandlerSteps(CursorsTo(n, e))]

Received(s, u, S) == S \cup s.pending \cup DocsOf(u.flying)

HeadClaim(s, u, S, h) ==
    /\ h.op = "submit" => u.fatal \/ Covers(h.cur, Received(s, u, S))
    /\ h.op = "drain" => s.pending = {} /\ (u.fatal \/ Covers(h.cur, S \cup DocsOf(u.flying)))
    /\ h.op = "write" => u.flying = {} /\ ~u.fatal /\ Covers(h.cur, S)

StreamClaim(s, u, S, st, fl) ==
    /\ st.phase \in {"resume", "live"} => u.fatal \/ 1..st.at \subseteq Received(s, u, S)
    /\ st.phase = "replay" => u.fatal \/ 1..st.at \subseteq Received(s, u, S) \cup st.todo
    /\ st.phase = "reset" => 1..st.at \subseteq st.todo \cup 1..fl /\ s.last = NoCursor

SessionInv(s, u, S, st, fl) ==
    /\ u.fatal \/ Covers(s.last, Received(s, u, S))
    /\ StreamClaim(s, u, S, st, fl)
    /\ s.steps # <<>> => HeadClaim(s, u, S, Head(s.steps))

OpenSearchInv ==
    /\ FeedOK /\ StreamOK /\ consumer = "opensearch"
    /\ settled \subseteq 1..Len(log)
    /\ odur \in CursorsTo(Len(log), epoch) /\ Covers(odur, settled)
    /\ osess \in BulkSession(Len(log), epoch) \cup {OIdle}
    /\ upl \in UploaderState(Len(log), epoch) /\ UploaderInv(upl, settled)
    /\ osess.on => SessionInv(osess, upl, settled, stream, floor)

LEMMA StepsPop ==
    ASSUME NEW n, NEW e, NEW s \in HandlerSteps(CursorsTo(n, e)), s # <<>>
    PROVE  /\ Tail(s) \in HandlerSteps(CursorsTo(n, e)) /\ Head(s).cur \in CursorsTo(n, e)
           /\ Tail(s) # <<>> =>
                 /\ Head(Tail(s)).op # "submit"
                 /\ Head(Tail(s)).op = "drain" =>
                       Head(s).op = "submit" /\ Head(Tail(s)).cur = Head(s).cur
                 /\ Head(Tail(s)).op = "write" =>
                       Head(s).op = "drain" /\ Head(Tail(s)).cur = Head(s).cur
<1> DEFINE C == CursorsTo(n, e)
<1>0. NoCursor \in C
    BY DEF CursorsTo
<1> HIDE DEF C
<1>1. CASE s \in {<<HandlerStep("committed", NoCursor)>>, <<HandlerStep("last", NoCursor)>>}
    BY <1>0, <1>1 DEF HandlerSteps, HandlerStep, C
<1>2. CASE s = <<HandlerStep("drainAny", NoCursor), HandlerStep("last", NoCursor)>>
    <2>1. Head(s).cur = NoCursor /\ Tail(s) = <<HandlerStep("last", NoCursor)>>
          /\ Head(Tail(s)).op = "last"
        BY <1>2 DEF HandlerStep
    <2> QED BY <1>0, <2>1 DEF HandlerSteps, C
<1>3. ASSUME NEW c \in C, s = <<HandlerStep("submit", c)>> \/ s = <<HandlerStep("write", c)>>
      PROVE  Tail(s) = <<>> /\ Head(s).cur \in C
    BY <1>3 DEF HandlerStep
<1>4. ASSUME NEW c \in C, s = SyncedSteps(c)
      PROVE  /\ Tail(s) = <<HandlerStep("drain", c), HandlerStep("write", c)>> /\ Head(s).cur = c
             /\ Head(s).op = "submit" /\ Head(Tail(s)).op = "drain" /\ Head(Tail(s)).cur = c
    BY <1>4 DEF HandlerStep, SyncedSteps
<1>5. ASSUME NEW c \in C, s = <<HandlerStep("drain", c), HandlerStep("write", c)>>
      PROVE  /\ Tail(s) = <<HandlerStep("write", c)>> /\ Head(s).cur = c /\ Head(s).op = "drain"
             /\ Head(Tail(s)).op = "write" /\ Head(Tail(s)).cur = c
    BY <1>5 DEF HandlerStep
<1>6. ASSUME NEW c \in C, s = <<HandlerStep("submit", c), HandlerStep("committed", NoCursor)>>
      PROVE  /\ Tail(s) = <<HandlerStep("committed", NoCursor)>> /\ Head(s).cur = c
             /\ Head(Tail(s)).op = "committed"
    BY <1>6 DEF HandlerStep
<1>7. ASSUME NEW c \in C, s = <<HandlerStep("submit", c), HandlerStep("drainAny", NoCursor),
                                HandlerStep("last", NoCursor)>>
      PROVE  /\ Tail(s) = <<HandlerStep("drainAny", NoCursor), HandlerStep("last", NoCursor)>>
             /\ Head(s).cur = c /\ Head(Tail(s)).op = "drainAny"
    BY <1>7 DEF HandlerStep
<1>8. CASE \E c \in C : s = <<HandlerStep("submit", c)>> \/ s = <<HandlerStep("write", c)>>
    BY <1>3, <1>8 DEF HandlerSteps, C
<1>9. CASE \E c \in C : s = SyncedSteps(c)
    BY <1>4, <1>9 DEF HandlerSteps, C
<1>10. CASE \E c \in C : s = <<HandlerStep("drain", c), HandlerStep("write", c)>>
    BY <1>5, <1>10 DEF HandlerSteps, C
<1>11. CASE \E c \in C : s = <<HandlerStep("submit", c), HandlerStep("committed", NoCursor)>>
    BY <1>6, <1>11 DEF HandlerSteps, C
<1>12. CASE \E c \in C : s = <<HandlerStep("submit", c), HandlerStep("drainAny", NoCursor),
                               HandlerStep("last", NoCursor)>>
    BY <1>7, <1>12 DEF HandlerSteps, C
<1>13. \/ s \in {<<HandlerStep("committed", NoCursor)>>, <<HandlerStep("last", NoCursor)>>}
       \/ s = <<HandlerStep("drainAny", NoCursor), HandlerStep("last", NoCursor)>>
       \/ \E c \in C : s = <<HandlerStep("submit", c)>> \/ s = <<HandlerStep("write", c)>>
       \/ \E c \in C : s = SyncedSteps(c)
       \/ \E c \in C : s = <<HandlerStep("drain", c), HandlerStep("write", c)>>
       \/ \E c \in C : s = <<HandlerStep("submit", c), HandlerStep("committed", NoCursor)>>
       \/ \E c \in C : s = <<HandlerStep("submit", c), HandlerStep("drainAny", NoCursor),
                             HandlerStep("last", NoCursor)>>
    BY DEF HandlerSteps, C
<1> QED BY <1>1, <1>2, <1>8, <1>9, <1>10, <1>11, <1>12, <1>13

\* Everything is typed by how far the source has come, and stays so.
LEMMA BulkTypesGrow ==
    ASSUME NEW n \in Nat, NEW m \in Nat, NEW d \in Nat, NEW e \in Nat, n <= m, d <= e
    PROVE  /\ CursorsTo(n, d) \subseteq CursorsTo(m, e)
           /\ UploaderState(n, d) \subseteq UploaderState(m, e)
           /\ BulkSession(n, d) \subseteq BulkSession(m, e)
<1>1. CursorsTo(n, d) \subseteq CursorsTo(m, e)
    BY DEF CursorsTo, Cursor
<1>2. 1..n \subseteq 1..m
    OBVIOUS
<1>3. BulkBatch(n, d) \subseteq BulkBatch(m, e)
    BY <1>1, <1>2 DEF BulkBatch
<1>4. UploaderState(n, d) \subseteq UploaderState(m, e)
    BY <1>1, <1>3 DEF UploaderState
<1>5. HandlerSteps(CursorsTo(n, d)) \subseteq HandlerSteps(CursorsTo(m, e))
    BY <1>1 DEF HandlerSteps
<1>6. BulkSession(n, d) \subseteq BulkSession(m, e)
    BY <1>1, <1>2, <1>5 DEF BulkSession
<1> QED BY <1>1, <1>4, <1>6

LEMMA CursorSets ==
    ASSUME NEW c, NEW n, NEW e
    PROVE  c \in CursorsTo(n, e) <=> CursorOK(c, n, e)
BY DEF CursorsTo, CursorOK

LEMMA OpenSearchInitOK == Init /\ consumer = "opensearch" => OpenSearchInv
<1> SUFFICES ASSUME Init, consumer = "opensearch" PROVE OpenSearchInv
    OBVIOUS
<1> USE FeedAssumption DEF Init, FeedInit, OpenSearchInit
<1>1. FeedOK /\ StreamOK
    BY DEF FeedOK, StreamOK, StreamState, Off
<1>2. Len(log) \in Nat /\ epoch \in Nat
    BY <1>1 DEF FeedOK
<1>3. upl \in UploaderState(Len(log), epoch) /\ UploaderInv(upl, settled)
    BY <1>2, NewUploaderOK
<1>4. ~osess.on
    BY DEF OIdle
<1> QED BY <1>1, <1>3, <1>4 DEF OpenSearchInv, CursorsTo, Covers

LEMMA BulkFacts ==
    ASSUME OpenSearchInv
    PROVE  /\ Len(log) \in Nat /\ epoch \in Nat /\ floor \in Nat /\ FeedOK /\ StreamOK
           /\ osess.on =>
                 /\ osess \in BulkSession(Len(log), epoch) /\ osess.pending \in SUBSET (1..Len(log))
                 /\ osess.last \in CursorsTo(Len(log), epoch)
                 /\ osess.steps \in HandlerSteps(CursorsTo(Len(log), epoch))
                 /\ SessionInv(osess, upl, settled, stream, floor)
           /\ DocsOf(upl.flying) \subseteq 1..Len(log) /\ upl.fatal \in BOOLEAN
<1>1. Len(log) \in Nat /\ epoch \in Nat /\ floor \in Nat /\ FeedOK /\ StreamOK
    BY DEF OpenSearchInv, FeedOK
<1>2. osess.on => osess \in BulkSession(Len(log), epoch)
    BY DEF OpenSearchInv, OIdle
<1>3. upl.flying \in SUBSET BulkBatch(Len(log), epoch) /\ upl.fatal \in BOOLEAN
    BY DEF OpenSearchInv, UploaderState
<1>4. DocsOf(upl.flying) \subseteq 1..Len(log)
    BY <1>3 DEF DocsOf, BulkBatch
<1> QED BY <1>1, <1>2, <1>3, <1>4 DEF BulkSession, OpenSearchInv

\* The session ends; uploads under way may still land.
LEMMA OEndKeeps ==
    ASSUME OpenSearchInv, OEnd, UNCHANGED <<consumer, log, floor, epoch>>, faults' \in Nat,
           odur' \in CursorsTo(Len(log), epoch), Covers(odur', settled)
    PROVE  OpenSearchInv' /\ settled \subseteq settled'
<1>1. PICK S \in SUBSET upl.flying : settled' = settled \cup UNION {b.docs : b \in S}
    BY DEF OEnd
<1>2. UNION {b.docs : b \in S} \subseteq DocsOf(upl.flying)
    BY DEF DocsOf
<1>3. settled \subseteq settled' /\ settled' \subseteq 1..Len(log)
    BY <1>1, <1>2, BulkFacts DEF OpenSearchInv
<1>4. FeedOK' /\ StreamOK'
    BY BulkFacts, MarkTakenOK DEF OEnd
<1>5. upl' \in UploaderState(Len(log), epoch) /\ UploaderInv(upl', settled')
    BY BulkFacts, NewUploaderOK DEF OEnd
<1>6. osess' = OIdle /\ ~osess'.on
    BY DEF OEnd, OIdle
<1> QED BY <1>3, <1>4, <1>5, <1>6 DEF OpenSearchInv, Covers

LEMMA OpenSearchStartKeeps ==
    ASSUME OpenSearchInv, OpenSearchStart
    PROVE  OpenSearchInv' /\ settled \subseteq settled' /\ log' = log
<1>1. /\ UNCHANGED <<consumer, log, floor, epoch, settled, faults, odur>>
      /\ stream' = OpenStream(odur) /\ upl' = NewUploader
      /\ osess' = [on |-> TRUE, pending |-> {}, last |-> NoCursor, steps |-> <<>>]
    BY DEF OpenSearchStart
<1>2. CursorOK(odur, Len(log), epoch) /\ Len(log) \in Nat /\ epoch \in Nat /\ FeedOK
    BY BulkFacts, CursorSets DEF OpenSearchInv
<1>3. FeedOK' /\ StreamOK'
    BY <1>1, <1>2, OpenedOK
<1>4. upl' \in UploaderState(Len(log), epoch) /\ UploaderInv(upl', settled') /\ upl'.flying = {}
    BY <1>1, <1>2, NewUploaderOK DEF NewUploader
<1>5. osess' \in BulkSession(Len(log), epoch)
    BY <1>1 DEF BulkSession, CursorsTo, HandlerSteps
<1>6. osess'.last = NoCursor /\ osess'.steps = <<>> /\ osess'.pending = {}
    BY <1>1
<1>7. Received(osess', upl', settled') = settled
    BY <1>1, <1>4, <1>6 DEF Received, DocsOf
<1>8. CASE Resumable(odur)
    <2>1. stream'.phase = "resume" /\ stream'.at = odur.pos
        BY <1>1, <1>2, <1>8, OpenStreamOK
    <2>2. 1..stream'.at \subseteq settled
        BY <1>8, <2>1 DEF OpenSearchInv, Covers, Resumable
    <2> QED BY <1>1, <1>3, <1>4, <1>5, <1>6, <1>7, <2>1, <2>2
            DEF OpenSearchInv, SessionInv, StreamClaim, Covers
<1>9. CASE ~Resumable(odur)
    <2>1. stream'.phase = "reset" /\ stream'.at = Len(log) /\ stream'.todo = SnapshotAt(Len(log))
        BY <1>1, <1>2, <1>9, OpenStreamOK
    <2>2. 1..Len(log) \subseteq SnapshotAt(Len(log)) \cup 1..floor
        BY <1>2, BulkFacts DEF SnapshotAt, IsArchive, OpenSearchInv
    <2> QED BY <1>1, <1>3, <1>4, <1>5, <1>6, <1>7, <2>1, <2>2
            DEF OpenSearchInv, SessionInv, StreamClaim, Covers
<1> QED BY <1>1, <1>8, <1>9

\* A handler has changed the session and the stream; uploads went on as before.
LEMMA HandledKeeps ==
    ASSUME OpenSearchInv, UNCHANGED <<consumer, log, floor, epoch, odur, upl>>, FeedOK', StreamOK',
           osess' \in BulkSession(Len(log), epoch), settled \subseteq settled',
           settled' \subseteq 1..Len(log), SessionInv(osess', upl, settled', stream', floor)
    PROVE  OpenSearchInv'
<1>1. UploaderInv(upl, settled') /\ Covers(odur, settled')
    BY UploaderGrows DEF OpenSearchInv, Covers
<1> QED BY <1>1 DEF OpenSearchInv

LEMMA OpenSearchUpsertKeeps ==
    ASSUME OpenSearchInv, OpenSearchUpsert
    PROVE  OpenSearchInv' /\ settled \subseteq settled' /\ log' = log
<1> DEFINE i == NextChange
           skip == log[i].val \in Opaque
           p == IF skip THEN osess.pending ELSE osess.pending \cup {i}
           st == IF Cardinality(p) >= OBatch THEN <<HandlerStep("submit", ChangeCursor)>> ELSE <<>>
<1>1. /\ UNCHANGED <<consumer, log, floor, epoch, faults, odur, upl>>
      /\ osess.on /\ osess.steps = <<>> /\ HasChange /\ stream' = AfterChange
      /\ osess' = [osess EXCEPT !.pending = p, !.last = NewestCursor, !.steps = st]
      /\ settled' = IF skip THEN settled \cup {i} ELSE settled
    BY DEF OpenSearchUpsert, Handle, Idle, HandlerStep
<1>2. FeedOK' /\ StreamOK'
    BY <1>1, BulkFacts, ChangeTakenOK DEF FeedOK
<1>3. /\ i \in 1..Len(log) /\ stream'.phase = stream.phase
      /\ stream.phase \in {"resume", "live", "replay"}
      /\ stream.phase \in {"resume", "live"} =>
            i = stream.at + 1 /\ stream'.at = i /\ ChangeCursor = CursorAt(i)
      /\ stream.phase = "replay" =>
            /\ stream'.at = stream.at /\ ChangeCursor = NoCursor
            /\ stream'.todo = stream.todo \ {i}
    BY <1>1, BulkFacts, ChangeTaken
<1>4. /\ osess \in BulkSession(Len(log), epoch) /\ osess.pending \in SUBSET (1..Len(log))
      /\ osess.last \in CursorsTo(Len(log), epoch) /\ Len(log) \in Nat /\ stream.at \in Nat
      /\ SessionInv(osess, upl, settled, stream, floor)
    BY <1>1, BulkFacts DEF FeedOK, StreamState
<1> HIDE DEF i, p, st, skip
<1>5. CursorAt(i) # NoCursor /\ CursorAt(i).pos = i /\ CursorAt(i) \in CursorsTo(Len(log), epoch)
    BY <1>3, <1>4, CursorAtOK, CursorSets, BulkFacts
<1>6. p \in SUBSET (1..Len(log)) /\ osess.pending \subseteq p /\ (skip \/ i \in p)
    BY <1>3, <1>4 DEF p
<1>7. ChangeCursor \in CursorsTo(Len(log), epoch) /\ NewestCursor \in CursorsTo(Len(log), epoch)
    BY <1>3, <1>4, <1>5 DEF NewestCursor, CursorsTo
<1>8. st \in HandlerSteps(CursorsTo(Len(log), epoch))
    BY <1>7 DEF HandlerSteps, st
<1>9. /\ osess' \in BulkSession(Len(log), epoch) /\ osess'.pending = p /\ osess'.last = NewestCursor
      /\ osess'.steps = st
    BY <1>1, <1>4, <1>6, <1>7, <1>8 DEF BulkSession
<1>10. settled \subseteq settled' /\ settled' \subseteq 1..Len(log)
    BY <1>1, <1>3 DEF OpenSearchInv
<1>11. Received(osess, upl, settled) \cup {i} \subseteq Received(osess', upl, settled')
    BY <1>1, <1>6, <1>9, <1>10 DEF Received
<1>12. stream.phase \in {"resume", "live"} => upl.fatal \/ 1..i \subseteq Received(osess', upl, settled')
    <2> SUFFICES ASSUME stream.phase \in {"resume", "live"}, ~upl.fatal
                 PROVE  1..i \subseteq Received(osess', upl, settled')
        OBVIOUS
    <2>1. 1..stream.at \subseteq Received(osess, upl, settled)
        BY <1>4 DEF SessionInv, StreamClaim
    <2>2. 1..i = 1..stream.at \cup {i}
        BY <1>3, <1>4
    <2> QED BY <1>11, <2>1, <2>2
<1>13. upl.fatal \/ Covers(ChangeCursor, Received(osess', upl, settled'))
    BY <1>3, <1>5, <1>12 DEF Covers
<1>14. upl.fatal \/ Covers(NewestCursor, Received(osess', upl, settled'))
    BY <1>4, <1>11, <1>13 DEF NewestCursor, SessionInv, Covers
<1>15. StreamClaim(osess', upl, settled', stream', floor)
    <2>1. stream.phase = "replay" =>
              upl.fatal \/ 1..stream.at \subseteq Received(osess', upl, settled') \cup stream'.todo
        BY <1>3, <1>4, <1>11 DEF SessionInv, StreamClaim
    <2> QED BY <1>3, <1>12, <2>1 DEF StreamClaim
<1>16. osess'.steps # <<>> => HeadClaim(osess', upl, settled', Head(osess'.steps))
    <2> SUFFICES ASSUME st # <<>> PROVE HeadClaim(osess', upl, settled', Head(st))
        BY <1>9
    <2>1. st = <<HandlerStep("submit", ChangeCursor)>>
        BY DEF st
    <2>2. Head(st).op = "submit" /\ Head(st).cur = ChangeCursor
        BY <2>1 DEF HandlerStep
    <2> QED BY <1>13, <2>2 DEF HeadClaim
<1>17. SessionInv(osess', upl, settled', stream', floor)
    BY <1>9, <1>14, <1>15, <1>16 DEF SessionInv
<1> QED BY <1>1, <1>2, <1>9, <1>10, <1>17, HandledKeeps

LEMMA OpenSearchResetKeeps ==
    ASSUME OpenSearchInv, OpenSearchReset
    PROVE  OpenSearchInv' /\ settled \subseteq settled' /\ log' = log
<1>1. /\ UNCHANGED <<consumer, log, floor, epoch, faults, odur, upl>>
      /\ osess.on /\ IsReset /\ stream' = AfterReset /\ settled' = settled \cup 1..floor
      /\ osess' = [osess EXCEPT !.pending = {}, !.last = osess.last, !.steps = <<>>]
    BY DEF OpenSearchReset, Handle, Idle
<1>2. FeedOK' /\ StreamOK'
    BY <1>1, BulkFacts, MarkTakenOK DEF FeedOK
<1>3. /\ osess \in BulkSession(Len(log), epoch) /\ osess.last \in CursorsTo(Len(log), epoch)
      /\ SessionInv(osess, upl, settled, stream, floor) /\ stream.phase = "reset"
    BY <1>1, BulkFacts DEF IsReset
<1>4. osess' \in BulkSession(Len(log), epoch) /\ osess'.pending = {} /\ osess'.last = osess.last
      /\ osess'.steps = <<>>
    BY <1>1, <1>3 DEF BulkSession, HandlerSteps
<1>5. stream'.phase = "replay" /\ stream'.todo = stream.todo /\ stream'.at = stream.at
    BY <1>1, MarkTaken, BulkFacts
<1>6. osess.last = NoCursor /\ 1..stream.at \subseteq stream.todo \cup 1..floor
    BY <1>3 DEF SessionInv, StreamClaim
<1>7. settled \subseteq settled' /\ settled' \subseteq 1..Len(log)
    BY <1>1, BulkFacts DEF OpenSearchInv, FeedOK
<1>8. SessionInv(osess', upl, settled', stream', floor)
    BY <1>1, <1>4, <1>5, <1>6 DEF SessionInv, StreamClaim, Covers, Received
<1> QED BY <1>1, <1>2, <1>4, <1>7, <1>8, HandledKeeps

LEMMA OpenSearchSyncedKeeps ==
    ASSUME OpenSearchInv, OpenSearchSynced
    PROVE  OpenSearchInv' /\ settled \subseteq settled' /\ log' = log
<1> DEFINE c == CursorAt(stream.at)
<1>1. /\ UNCHANGED <<consumer, log, floor, epoch, faults, odur, upl, settled>>
      /\ osess.on /\ IsSynced /\ stream' = AfterSynced
      /\ osess' = [osess EXCEPT !.pending = osess.pending, !.last = c, !.steps = SyncedSteps(c)]
    BY DEF OpenSearchSynced, Handle, Idle
<1>2. FeedOK' /\ StreamOK'
    BY <1>1, BulkFacts, MarkTakenOK DEF FeedOK
<1>3. /\ osess \in BulkSession(Len(log), epoch) /\ osess.pending \in SUBSET (1..Len(log))
      /\ SessionInv(osess, upl, settled, stream, floor)
      /\ stream.phase \in {"resume", "replay"} /\ stream.todo = {}
      /\ stream.at \in Nat /\ stream.at <= Len(log)
    BY <1>1, BulkFacts DEF IsSynced, FeedOK, StreamState
<1>4. c # NoCursor /\ c.pos = stream.at /\ c \in CursorsTo(Len(log), epoch)
    BY <1>3, CursorAtOK, CursorSets, BulkFacts
<1> HIDE DEF c
<1>5. SyncedSteps(c) \in HandlerSteps(CursorsTo(Len(log), epoch))
    BY <1>4 DEF HandlerSteps
<1>6. osess' \in BulkSession(Len(log), epoch) /\ osess'.pending = osess.pending /\ osess'.last = c
      /\ osess'.steps = SyncedSteps(c)
    BY <1>1, <1>3, <1>4, <1>5 DEF BulkSession
<1>7. stream'.phase = "live" /\ stream'.at = stream.at
    BY <1>1, MarkTaken, BulkFacts
<1>8. upl.fatal \/ 1..stream.at \subseteq Received(osess, upl, settled)
    BY <1>3 DEF SessionInv, StreamClaim
<1>9. Received(osess', upl, settled') = Received(osess, upl, settled)
    BY <1>1, <1>6 DEF Received
<1>10. Head(SyncedSteps(c)).op = "submit" /\ Head(SyncedSteps(c)).cur = c
    BY DEF SyncedSteps
<1>11. SessionInv(osess', upl, settled', stream', floor)
    <2>1. upl.fatal \/ Covers(c, Received(osess', upl, settled'))
        BY <1>4, <1>8, <1>9 DEF Covers
    <2>2. StreamClaim(osess', upl, settled', stream', floor)
        BY <1>7, <1>8, <1>9 DEF StreamClaim
    <2>3. HeadClaim(osess', upl, settled', Head(osess'.steps))
        BY <1>6, <1>10, <2>1 DEF HeadClaim
    <2> QED BY <1>6, <2>1, <2>2, <2>3 DEF SessionInv
<1>12. settled \subseteq settled' /\ settled' \subseteq 1..Len(log)
    BY <1>1 DEF OpenSearchInv
<1> QED BY <1>1, <1>2, <1>6, <1>11, <1>12, HandledKeeps

\* The ticker, and the end of the stream: the handler starts by submitting.
LEMMA OpenSearchTickKeeps ==
    ASSUME OpenSearchInv, OpenSearchTick \/ OpenSearchClosed
    PROVE  OpenSearchInv' /\ settled \subseteq settled' /\ log' = log
<1> DEFINE tick == <<HandlerStep("submit", osess.last), HandlerStep("committed", NoCursor)>>
           close == <<HandlerStep("submit", osess.last), HandlerStep("drainAny", NoCursor),
                      HandlerStep("last", NoCursor)>>
<1>1. PICK st \in {tick, close} :
      /\ UNCHANGED <<consumer, log, floor, epoch, stream, odur, upl, settled>>
      /\ osess.on /\ faults' \in Nat
      /\ osess' = [osess EXCEPT !.pending = osess.pending, !.last = osess.last, !.steps = st]
    <2>1. CASE OpenSearchTick
        BY <2>1, BulkFacts DEF OpenSearchTick, Handle, Idle, HandlerStep, FeedOK
    <2>2. CASE OpenSearchClosed
        <3>1. /\ UNCHANGED <<consumer, log, floor, epoch, stream, odur, upl, settled>>
              /\ osess.on /\ faults' \in Nat /\ osess' = [osess EXCEPT !.steps = close]
            BY <2>2, BulkFacts DEF OpenSearchClosed, Idle, HandlerStep, FeedOK
        <3>2. osess \in BulkSession(Len(log), epoch)
            BY <3>1, BulkFacts
        <3>3. osess' = [osess EXCEPT !.pending = osess.pending, !.last = osess.last, !.steps = close]
            BY <3>1, <3>2 DEF BulkSession
        <3> QED BY <3>1, <3>3
    <2> QED BY <2>1, <2>2
<1>2. FeedOK' /\ StreamOK'
    BY <1>1, BulkFacts, MarkTakenOK
<1>3. /\ osess \in BulkSession(Len(log), epoch) /\ osess.pending \in SUBSET (1..Len(log))
      /\ osess.last \in CursorsTo(Len(log), epoch)
      /\ SessionInv(osess, upl, settled, stream, floor)
    BY <1>1, BulkFacts
<1>4. st \in HandlerSteps(CursorsTo(Len(log), epoch)) /\ Head(st).op = "submit"
      /\ Head(st).cur = osess.last
    BY <1>3 DEF HandlerSteps, HandlerStep
<1> HIDE DEF tick, close
<1>5. osess' \in BulkSession(Len(log), epoch) /\ osess'.pending = osess.pending
      /\ osess'.last = osess.last /\ osess'.steps = st
    BY <1>1, <1>3, <1>4 DEF BulkSession
<1>6. SessionInv(osess', upl, settled', stream', floor)
    <2>1. Received(osess', upl, settled') = Received(osess, upl, settled)
        BY <1>1, <1>5 DEF Received
    <2>2. upl.fatal \/ Covers(osess.last, Received(osess, upl, settled))
        BY <1>3 DEF SessionInv
    <2>3. StreamClaim(osess', upl, settled', stream', floor)
        BY <1>1, <1>3, <1>5, <2>1 DEF SessionInv, StreamClaim
    <2>4. HeadClaim(osess', upl, settled', Head(st))
        BY <1>4, <2>1, <2>2 DEF HeadClaim
    <2> QED BY <1>5, <2>1, <2>2, <2>3, <2>4 DEF SessionInv
<1>7. settled \subseteq settled' /\ settled' \subseteq 1..Len(log)
    BY <1>1 DEF OpenSearchInv
<1> QED BY <1>1, <1>2, <1>5, <1>6, <1>7, HandledKeeps

\* A step of the handler is done.
LEMMA PoppedSession ==
    ASSUME OpenSearchInv, osess.on, osess.steps # <<>>, NEW p \in SUBSET (1..Len(log)), NEW s,
           s = [osess EXCEPT !.steps = Tail(@), !.pending = p]
    PROVE  /\ s \in BulkSession(Len(log), epoch) /\ s.pending = p /\ s.last = osess.last
           /\ s.steps = Tail(osess.steps) /\ s.on
<1>1. /\ osess \in BulkSession(Len(log), epoch)
      /\ osess.steps \in HandlerSteps(CursorsTo(Len(log), epoch))
    BY BulkFacts
<1>2. Tail(osess.steps) \in HandlerSteps(CursorsTo(Len(log), epoch))
    BY <1>1, StepsPop
<1> QED BY <1>1, <1>2 DEF BulkSession

LEMMA OpenSearchSubmitKeeps ==
    ASSUME OpenSearchInv, OpenSearchSubmit
    PROVE  OpenSearchInv' /\ settled \subseteq settled' /\ log' = log
<1> DEFINE h == Head(osess.steps)
           t == Tail(osess.steps)
<1>1. /\ UNCHANGED <<consumer, log, floor, epoch, stream, settled, faults, odur>>
      /\ osess.on /\ osess.steps # <<>> /\ h.op = "submit"
    BY DEF OpenSearchSubmit, Op
<1>2. FeedOK' /\ StreamOK'
    BY <1>1, BulkFacts, MarkTakenOK DEF FeedOK
<1>3. /\ osess \in BulkSession(Len(log), epoch) /\ osess.pending \in SUBSET (1..Len(log))
      /\ osess.steps \in HandlerSteps(CursorsTo(Len(log), epoch))
      /\ SessionInv(osess, upl, settled, stream, floor) /\ Len(log) \in Nat /\ epoch \in Nat
    BY <1>1, BulkFacts
<1>4. /\ h.cur \in CursorsTo(Len(log), epoch)
      /\ t # <<>> => /\ Head(t).op # "submit" /\ Head(t).op # "write"
                     /\ Head(t).op = "drain" => Head(t).cur = h.cur
    <2> HIDE DEF h, t
    <2>1. /\ h.cur \in CursorsTo(Len(log), epoch)
          /\ t # <<>> =>
                /\ Head(t).op # "submit"
                /\ Head(t).op = "drain" => h.op = "submit" /\ Head(t).cur = h.cur
                /\ Head(t).op = "write" => h.op = "drain" /\ Head(t).cur = h.cur
        BY <1>1, <1>3, StepsPop DEF h, t
    <2>2. h.op = "submit"
        BY <1>1
    <2> QED BY <2>1, <2>2
<1>5. upl.fatal \/ Covers(h.cur, Received(osess, upl, settled))
    BY <1>1, <1>3 DEF SessionInv, HeadClaim
<1>6. /\ osess' \in BulkSession(Len(log), epoch) /\ osess'.pending = {} /\ osess'.last = osess.last
      /\ osess'.steps = t
      /\ upl' \in UploaderState(Len(log), epoch) /\ UploaderInv(upl', settled)
      /\ Received(osess', upl', settled) = Received(osess, upl, settled) /\ upl'.fatal = upl.fatal
    <2>1. CASE osess.pending = {} /\ StepDone /\ UNCHANGED upl
        <3>1. osess' = [osess EXCEPT !.steps = Tail(@), !.pending = {}]
            BY <1>3, <2>1 DEF StepDone, BulkSession
        <3>2. /\ osess' \in BulkSession(Len(log), epoch) /\ osess'.pending = {}
              /\ osess'.last = osess.last /\ osess'.steps = t
            BY <1>1, <3>1, PoppedSession
        <3> QED BY <2>1, <3>2 DEF OpenSearchInv, Received
    <2>2. CASE /\ ~upl.fatal
               /\ upl' = [upl EXCEPT !.submitSeq = @ + 1,
                             !.flying = @ \cup {[seq |-> upl.submitSeq, docs |-> osess.pending,
                                                 cur |-> Head(osess.steps).cur]}]
               /\ osess' = [osess EXCEPT !.steps = Tail(@), !.pending = {}]
        <3>1. /\ osess' \in BulkSession(Len(log), epoch) /\ osess'.pending = {}
              /\ osess'.last = osess.last /\ osess'.steps = t
            BY <1>1, <2>2, PoppedSession
        <3>2. Covers(h.cur, settled \cup osess.pending \cup DocsOf(upl.flying))
            BY <1>5, <2>2 DEF Received
        <3>3. /\ upl' \in UploaderState(Len(log), epoch) /\ UploaderInv(upl', settled)
              /\ DocsOf(upl'.flying) = DocsOf(upl.flying) \cup osess.pending /\ upl'.fatal = upl.fatal
            <4>1. upl' = WithBatch(upl, osess.pending, h.cur)
                BY <2>2 DEF WithBatch
            <4>2. upl \in UploaderState(Len(log), epoch) /\ UploaderInv(upl, settled)
                BY DEF OpenSearchInv
            <4>3. Len(log) \in Nat /\ epoch \in Nat /\ osess.pending \in SUBSET (1..Len(log))
                BY <1>3
            <4>4. h.cur \in CursorsTo(Len(log), epoch)
                BY <1>4
            <4> HIDE DEF h
            <4>5. upl' \in UploaderState(Len(log), epoch) /\ UploaderInv(upl', settled)
                BY <3>2, <4>1, <4>2, <4>3, <4>4, SubmittedKeeps
            <4>6. DocsOf(upl'.flying) = DocsOf(upl.flying) \cup osess.pending
                <5> DEFINE b == [seq |-> upl.submitSeq, docs |-> osess.pending, cur |-> h.cur]
                <5>1. upl'.flying = upl.flying \cup {b}
                    BY <4>1, <4>2 DEF WithBatch, UploaderState
                <5>2. b.docs = osess.pending
                    OBVIOUS
                <5> HIDE DEF b
                <5> QED BY <5>1, <5>2 DEF DocsOf
            <4>7. upl'.fatal = upl.fatal
                BY <4>1, <4>2 DEF WithBatch, UploaderState
            <4> QED BY <4>5, <4>6, <4>7
        <3> QED BY <3>1, <3>3 DEF Received
    <2> QED BY <2>1, <2>2 DEF OpenSearchSubmit
<1> HIDE DEF h, t
<1>7. StreamClaim(osess', upl', settled, stream, floor)
    BY <1>3, <1>6 DEF SessionInv, StreamClaim
<1>8. t # <<>> => HeadClaim(osess', upl', settled, Head(t))
    <2>1. Received(osess, upl, settled) = settled \cup DocsOf(upl'.flying)
        BY <1>6 DEF Received
    <2> QED BY <1>4, <1>5, <1>6, <2>1 DEF HeadClaim
<1>9. SessionInv(osess', upl', settled, stream, floor)
    BY <1>3, <1>6, <1>7, <1>8 DEF SessionInv
<1> QED BY <1>1, <1>2, <1>6, <1>9 DEF OpenSearchInv

LEMMA OpenSearchDrainKeeps ==
    ASSUME OpenSearchInv, OpenSearchDrain
    PROVE  OpenSearchInv' /\ settled \subseteq settled' /\ log' = log
<1> DEFINE h == Head(osess.steps)
           t == Tail(osess.steps)
<1>1. /\ UNCHANGED <<consumer, log, floor, epoch, stream, settled, faults, odur, upl>>
      /\ osess.on /\ osess.steps # <<>> /\ h.op \in {"drain", "drainAny"} /\ StepDone
      /\ h.op = "drain" => upl.flying = {} /\ ~upl.fatal
    BY DEF OpenSearchDrain, Op
<1>2. FeedOK' /\ StreamOK'
    BY <1>1, BulkFacts, MarkTakenOK DEF FeedOK
<1>3. /\ osess \in BulkSession(Len(log), epoch) /\ osess.pending \in SUBSET (1..Len(log))
      /\ osess.steps \in HandlerSteps(CursorsTo(Len(log), epoch))
      /\ SessionInv(osess, upl, settled, stream, floor)
    BY <1>1, BulkFacts
<1>4. osess' = [osess EXCEPT !.steps = Tail(@), !.pending = osess.pending]
    BY <1>1, <1>3 DEF StepDone, BulkSession
<1>5. /\ osess' \in BulkSession(Len(log), epoch) /\ osess'.pending = osess.pending
      /\ osess'.last = osess.last /\ osess'.steps = t
    BY <1>1, <1>3, <1>4, PoppedSession
<1>6. t # <<>> =>
         /\ Head(t).op # "submit"
         /\ Head(t).op = "drain" => h.op = "submit" /\ Head(t).cur = h.cur
         /\ Head(t).op = "write" => h.op = "drain" /\ Head(t).cur = h.cur
    BY <1>1, <1>3, StepsPop
<1>7. HeadClaim(osess, upl, settled, h)
    BY <1>1, <1>3 DEF SessionInv
<1> HIDE DEF h, t
<1>8. t # <<>> => HeadClaim(osess', upl, settled, Head(t))
    <2>1. h.op = "drain" => upl.flying = {} /\ ~upl.fatal /\ Covers(h.cur, settled)
        BY <1>1, <1>7 DEF HeadClaim, DocsOf
    <2> QED BY <1>1, <1>6, <2>1 DEF HeadClaim
<1>9. Received(osess', upl, settled) = Received(osess, upl, settled)
    BY <1>5 DEF Received
<1>10. SessionInv(osess', upl, settled', stream', floor)
    BY <1>1, <1>3, <1>5, <1>8, <1>9 DEF SessionInv, StreamClaim
<1>11. settled \subseteq settled' /\ settled' \subseteq 1..Len(log)
    BY <1>1 DEF OpenSearchInv
<1> QED BY <1>1, <1>2, <1>5, <1>10, <1>11, HandledKeeps

\* writeState: what is written is the synced cursor after a drain, or the
\* uploader's committed cursor.
LEMMA OpenSearchWriteKeeps ==
    ASSUME OpenSearchInv, OpenSearchWrite
    PROVE  OpenSearchInv' /\ settled \subseteq settled' /\ log' = log
<1> DEFINE h == Head(osess.steps)
           t == Tail(osess.steps)
           w == Written(IF h.op = "write" THEN h.cur ELSE upl.committed)
<1>1. /\ UNCHANGED <<consumer, log, floor, epoch>>
      /\ osess.on /\ osess.steps # <<>> /\ h.op \in {"write", "committed", "last"}
      /\ \/ odur' = w /\ StepDone /\ UNCHANGED <<stream, settled, faults, upl>>
         \/ odur' = w /\ OEnd /\ UNCHANGED faults
         \/ faults > 0 /\ faults' = faults - 1 /\ odur' \in {odur, w} /\ OEnd
    BY DEF OpenSearchWrite, Op
<1>2. /\ osess \in BulkSession(Len(log), epoch) /\ osess.pending \in SUBSET (1..Len(log))
      /\ osess.steps \in HandlerSteps(CursorsTo(Len(log), epoch))
      /\ SessionInv(osess, upl, settled, stream, floor)
    BY <1>1, BulkFacts
<1>3. HeadClaim(osess, upl, settled, h)
    BY <1>1, <1>2 DEF SessionInv
<1>4. h.cur \in CursorsTo(Len(log), epoch)
    BY <1>1, <1>2, StepsPop
<1>5. upl.committed \in CursorsTo(Len(log), epoch) /\ Covers(upl.committed, settled)
    BY DEF OpenSearchInv, UploaderState, UploaderInv
<1>6. odur \in CursorsTo(Len(log), epoch) /\ Covers(odur, settled)
    BY DEF OpenSearchInv
<1>7. w \in CursorsTo(Len(log), epoch) /\ Covers(w, settled)
    BY <1>3, <1>4, <1>5, <1>6 DEF Written, HeadClaim
<1>8. t # <<>> => Head(t).op # "submit" /\ Head(t).op # "drain" /\ Head(t).op # "write"
    <2> HIDE DEF h, t
    <2>1. t # <<>> =>
             /\ Head(t).op # "submit"
             /\ Head(t).op = "drain" => h.op = "submit"
             /\ Head(t).op = "write" => h.op = "drain"
        BY <1>1, <1>2, StepsPop DEF h, t
    <2> QED BY <1>1, <2>1
<1> HIDE DEF h, t, w
<1>9. CASE odur' = w /\ StepDone /\ UNCHANGED <<stream, settled, faults, upl>>
    <2>1. FeedOK' /\ StreamOK'
        BY <1>1, <1>9, BulkFacts, MarkTakenOK DEF FeedOK
    <2>2. osess' = [osess EXCEPT !.steps = Tail(@), !.pending = osess.pending]
        BY <1>2, <1>9 DEF StepDone, BulkSession
    <2>3. /\ osess' \in BulkSession(Len(log), epoch) /\ osess'.pending = osess.pending
          /\ osess'.last = osess.last /\ osess'.steps = t
        BY <1>1, <1>2, <2>2, PoppedSession DEF t
    <2>4. Received(osess', upl, settled) = Received(osess, upl, settled)
        BY <2>3 DEF Received
    <2>5. t # <<>> => HeadClaim(osess', upl, settled, Head(t))
        BY <1>8 DEF HeadClaim
    <2>6. SessionInv(osess', upl, settled, stream, floor)
        BY <1>2, <2>3, <2>4, <2>5 DEF SessionInv, StreamClaim
    <2> QED BY <1>1, <1>7, <1>9, <2>1, <2>3, <2>6 DEF OpenSearchInv
<1>10. CASE odur' \in {odur, w} /\ OEnd /\ faults' \in Nat
    <2>1. odur' \in CursorsTo(Len(log), epoch) /\ Covers(odur', settled)
        BY <1>6, <1>7, <1>10
    <2> QED BY <1>1, <1>10, <2>1, OEndKeeps
<1>11. faults \in Nat
    BY BulkFacts DEF FeedOK
<1> QED BY <1>1, <1>9, <1>10, <1>11

LEMMA OpenSearchUploadedKeeps ==
    ASSUME OpenSearchInv, OpenSearchUploaded
    PROVE  OpenSearchInv' /\ settled \subseteq settled' /\ log' = log
<1>1. PICK b \in upl.flying :
        \/ upl' = Acked(upl, b) /\ settled' = settled \cup b.docs /\ UNCHANGED faults
        \/ /\ faults > 0 /\ faults' = faults - 1 /\ UNCHANGED settled
           /\ upl' = [upl EXCEPT !.flying = @ \ {b}, !.fatal = TRUE]
    BY DEF OpenSearchUploaded
<1>2. UNCHANGED <<consumer, log, floor, epoch, stream, odur, osess>> /\ osess.on
    BY DEF OpenSearchUploaded
<1>3. faults' \in Nat
    BY <1>1, BulkFacts DEF FeedOK
<1>4. FeedOK' /\ StreamOK'
    BY <1>2, <1>3, BulkFacts, MarkTakenOK
<1>5. /\ Len(log) \in Nat /\ epoch \in Nat /\ SessionInv(osess, upl, settled, stream, floor)
      /\ upl \in UploaderState(Len(log), epoch) /\ UploaderInv(upl, settled)
    BY <1>2, BulkFacts DEF OpenSearchInv
<1>6. b.docs \subseteq DocsOf(upl.flying) /\ b.docs \subseteq 1..Len(log)
    BY BulkFacts DEF DocsOf
<1>7. ~(osess.steps # <<>> /\ Head(osess.steps).op = "write")
    BY <1>1, <1>5 DEF SessionInv, HeadClaim
<1>8. CASE upl' = Acked(upl, b) /\ settled' = settled \cup b.docs
    <2>1. /\ upl' \in UploaderState(Len(log), epoch) /\ UploaderInv(upl', settled')
          /\ upl'.flying = upl.flying \ {b} /\ (upl'.fatal <=> upl.fatal)
        BY <1>5, <1>8, AckedKeeps
    <2>2. Received(osess, upl', settled') = Received(osess, upl, settled)
          /\ settled' \cup DocsOf(upl'.flying) = settled \cup DocsOf(upl.flying)
        BY <1>8, <2>1 DEF Received, DocsOf
    <2>3. SessionInv(osess, upl', settled', stream, floor)
        <3>1. osess.steps # <<>> => HeadClaim(osess, upl', settled', Head(osess.steps))
            BY <1>5, <1>7, <2>1, <2>2 DEF SessionInv, HeadClaim
        <3> QED BY <1>5, <2>1, <2>2, <3>1 DEF SessionInv, StreamClaim
    <2>4. settled \subseteq settled' /\ settled' \subseteq 1..Len(log)
        BY <1>6, <1>8 DEF OpenSearchInv
    <2>5. Covers(odur, settled')
        BY <2>4 DEF OpenSearchInv, Covers
    <2> QED BY <1>2, <1>4, <2>1, <2>3, <2>4, <2>5 DEF OpenSearchInv
<1>9. CASE upl' = [upl EXCEPT !.flying = @ \ {b}, !.fatal = TRUE] /\ settled' = settled
    <2>1. /\ upl' \in UploaderState(Len(log), epoch) /\ UploaderInv(upl', settled) /\ upl'.fatal
        <3>1. upl' \in UploaderState(Len(log), epoch) /\ UploaderInv(upl', settled)
            <4>1. upl' = WithoutBatch(upl, b)
                BY <1>9 DEF WithoutBatch
            <4> QED BY <1>5, <4>1, FailedKeeps
        <3>2. upl'.fatal
            BY <1>5, <1>9 DEF UploaderState
        <3> QED BY <3>1, <3>2
    <2>2. SessionInv(osess, upl', settled, stream, floor)
        <3>1. osess.steps # <<>> => HeadClaim(osess, upl', settled, Head(osess.steps))
            BY <1>5, <1>7, <2>1 DEF SessionInv, HeadClaim
        <3> QED BY <1>5, <2>1, <3>1 DEF SessionInv, StreamClaim
    <2> QED BY <1>2, <1>4, <1>9, <2>1, <2>2 DEF OpenSearchInv
<1> QED BY <1>1, <1>2, <1>8, <1>9

LEMMA OpenSearchFeedKeeps ==
    ASSUME OpenSearchInv, FeedNext, UNCHANGED ovars
    PROVE  OpenSearchInv' /\ settled' = settled
<1>1. /\ FeedOK' /\ StreamOK' /\ consumer' = consumer /\ settled' = settled
      /\ epoch' >= epoch /\ floor' >= floor
      /\ log' = log \/ Len(log') = Len(log) + 1
      /\ stream'.todo = stream.todo /\ stream'.at = stream.at
      /\ stream'.phase = stream.phase \/ stream'.phase = "closed"
    BY BulkFacts, FeedStepOK
<1>2. UNCHANGED <<odur, osess, upl>>
    BY DEF ovars
<1>3. /\ Len(log) \in Nat /\ Len(log') \in Nat /\ epoch \in Nat /\ epoch' \in Nat /\ floor \in Nat
      /\ floor' \in Nat /\ Len(log) <= Len(log') /\ epoch <= epoch'
    BY <1>1, BulkFacts DEF FeedOK
<1>4. /\ CursorsTo(Len(log), epoch) \subseteq CursorsTo(Len(log'), epoch')
      /\ UploaderState(Len(log), epoch) \subseteq UploaderState(Len(log'), epoch')
      /\ BulkSession(Len(log), epoch) \subseteq BulkSession(Len(log'), epoch')
    BY <1>3, BulkTypesGrow
<1>5. osess.on => SessionInv(osess, upl, settled, stream', floor')
    <2> SUFFICES ASSUME osess.on PROVE SessionInv(osess, upl, settled, stream', floor')
        OBVIOUS
    <2>1. SessionInv(osess, upl, settled, stream, floor)
        BY BulkFacts
    <2>2. 1..floor \subseteq 1..floor'
        BY <1>1, <1>3
    <2>3. StreamClaim(osess, upl, settled, stream', floor')
        BY <1>1, <2>1, <2>2 DEF SessionInv, StreamClaim
    <2> QED BY <2>1, <2>3 DEF SessionInv
<1>6. settled' \subseteq 1..Len(log')
    BY <1>1, <1>3 DEF OpenSearchInv
<1> QED BY <1>1, <1>2, <1>4, <1>5, <1>6 DEF OpenSearchInv

LEMMA OpenSearchDurable == OpenSearchInv => DeliveredOK
<1> SUFFICES ASSUME OpenSearchInv PROVE DeliveredOK
    OBVIOUS
<1>1. Durable = Position(odur)
    BY DEF OpenSearchInv, Durable
<1>2. settled \subseteq 1..Len(log) /\ Len(log) \in Nat
    BY BulkFacts DEF OpenSearchInv
<1>3. CASE odur = NoCursor
    BY <1>1, <1>2, <1>3 DEF Position, DeliveredOK
<1>4. CASE odur # NoCursor
    <2>1. odur.pos \in Nat /\ odur.pos <= Len(log) /\ 1..odur.pos \subseteq settled
        BY <1>4 DEF OpenSearchInv, CursorsTo, Cursor, Covers
    <2> QED BY <1>1, <1>2, <1>4, <2>1 DEF Position, DeliveredOK
<1> QED BY <1>3, <1>4

LEMMA OpenSearchKeeps ==
    ASSUME OpenSearchInv, OpenSearchNext
    PROVE  OpenSearchInv' /\ (D!DChange \/ D!DConsume \/ UNCHANGED D!dvars)
<1>0. OpenSearchInv' => DeliveredOK'
    BY OpenSearchDurable, PTL
<1>1. ASSUME OpenSearchInv', settled \subseteq settled', log' = log PROVE D!DConsume
    BY <1>0, <1>1, IsConsume
<1>2. CASE FeedNext /\ UNCHANGED ovars
    <2>1. OpenSearchInv' /\ settled' = settled
        BY <1>2, OpenSearchFeedKeeps
    <2>2. CASE log' = log
        BY <1>1, <2>1, <2>2
    <2>3. CASE log' # log
        <3>1. Len(log') = Len(log) + 1 /\ consumer' = consumer /\ consumer = "opensearch"
            BY <1>2, <2>3, FeedStepOK DEF OpenSearchInv
        <3>2. Durable' = Durable
            BY <1>2, <3>1 DEF Durable, Position, ovars
        <3>3. D!DChange
            BY <2>1, <3>1, <3>2 DEF D!DChange
        <3> QED BY <2>1, <3>3
    <2> QED BY <2>2, <2>3
<1>3. CASE OpenSearchResync \/ OpenSearchFatal
    <2>1. /\ OEnd /\ UNCHANGED <<consumer, log, floor, epoch>> /\ faults' \in Nat /\ odur' = odur
        BY <1>3, BulkFacts DEF OpenSearchResync, OpenSearchFatal, FeedOK
    <2>2. odur' \in CursorsTo(Len(log), epoch) /\ Covers(odur', settled)
        BY <2>1 DEF OpenSearchInv
    <2>3. OpenSearchInv' /\ settled \subseteq settled'
        BY <2>1, <2>2, OEndKeeps
    <2> QED BY <1>1, <2>1, <2>3
<1>4. CASE \/ OpenSearchStart \/ OpenSearchUpsert \/ OpenSearchReset \/ OpenSearchSynced
           \/ OpenSearchTick \/ OpenSearchClosed \/ OpenSearchSubmit \/ OpenSearchDrain
           \/ OpenSearchWrite \/ OpenSearchUploaded
    <2>1. OpenSearchInv' /\ settled \subseteq settled' /\ log' = log
        BY <1>4, OpenSearchStartKeeps, OpenSearchUpsertKeeps, OpenSearchResetKeeps,
           OpenSearchSyncedKeeps, OpenSearchTickKeeps, OpenSearchSubmitKeeps, OpenSearchDrainKeeps,
           OpenSearchWriteKeeps, OpenSearchUploadedKeeps
    <2> QED BY <1>1, <2>1
<1> QED BY <1>2, <1>3, <1>4 DEF OpenSearchNext, OpenSearchStep

-----------------------------------------------------------------------------
(***************************************************************************)
(* The dropbox exporter.  A tarball may be written again, with other       *)
(* records, by the session after a failed store; those numbered up to the  *)
(* stored sequence number are never touched, and what the stored state     *)
(* stands for is in these, or accounted for.                               *)
(***************************************************************************)
DropState(n, e) == [cursor : CursorsTo(n, e), seq : Nat, lastRec : Nat]
DropSession(n, e) ==
    [on : {TRUE}, st : DropState(n, e), pending : SUBSET (1..n), last : CursorsTo(n, e),
     hadCursor : BOOLEAN, lossStart : Nat \cup {NoLoss}]
TarballOK(x, n) == x.seq \in Nat /\ x.recs \subseteq 1..n

\* A time that was exported: everything up to the record that had it is in K.
Dated(a, K) == a > 0 => \E p \in Nat : RecordTime(p) = a /\ 1..p \subseteq K

Kept(b, t, s) == t \cup UNION {x.recs : x \in {y \in b : y.seq <= s}}

\* What a flush would make durable is complete up to each of its records; a
\* replay owes the records between the last export and the first one it is sent.
DropSessionInv(m, st, K, fl) ==
    /\ Covers(m.last, K \cup m.pending)
    /\ \A p \in m.pending : 1..p \subseteq K \cup m.pending
    /\ m.lossStart # NoLoss => m.pending = {} /\ Dated(m.lossStart, K)
    /\ st.phase \in {"resume", "live"} =>
          1..st.at \subseteq K \cup m.pending /\ m.lossStart = NoLoss
    /\ st.phase = "reset" =>
          /\ m.lossStart = NoLoss /\ m.last = NoCursor
          /\ \E x \in 0..st.at : x <= fl /\ st.todo = x + 1..st.at
    /\ st.phase = "replay" =>
          \E x \in 0..st.at :
             /\ st.todo = x + 1..st.at
             /\ m.lossStart = NoLoss => 1..x \subseteq K \cup m.pending

DropboxInv ==
    /\ FeedOK /\ StreamOK /\ consumer = "dropbox"
    /\ ddur \in DropState(Len(log), epoch)
    /\ dsess \in DropSession(Len(log), epoch) \cup {DIdle}
    /\ \A x \in box : TarballOK(x, Len(log))
    /\ dtaken \subseteq 1..Len(log) /\ settled = Delivered(box, dtaken)
    /\ Covers(ddur.cursor, Kept(box, dtaken, ddur.seq))
    /\ Dated(ddur.lastRec, Kept(box, dtaken, ddur.seq)) /\ TimesOrdered
    /\ dsess.on => /\ dsess.st = ddur
                   /\ DropSessionInv(dsess, stream, Kept(box, dtaken, ddur.seq), floor)

LEMMA DatedGrows ==
    ASSUME NEW a, NEW K, NEW L, K \subseteq L, Dated(a, K)
    PROVE  Dated(a, L)
BY DEF Dated

LEMMA DropboxInitOK ==
    ASSUME TimesOrdered, Init, consumer = "dropbox"
    PROVE  DropboxInv
<1> USE FeedAssumption DEF Init, FeedInit, DropboxInit
<1>1. FeedOK /\ StreamOK
    BY DEF FeedOK, StreamOK, StreamState, Off
<1>2. Len(log) \in Nat
    BY <1>1 DEF FeedOK
<1>3. ddur \in DropState(Len(log), epoch) /\ ddur.cursor = NoCursor /\ ddur.lastRec = 0
    BY <1>2 DEF DropState, CursorsTo
<1>4. ~dsess.on
    BY DEF DIdle
<1>5. settled = Delivered(box, dtaken)
    BY DEF Delivered
<1>6. Dated(ddur.lastRec, Kept(box, dtaken, ddur.seq))
    BY <1>3 DEF Dated
<1> QED BY <1>1, <1>3, <1>4, <1>5, <1>6 DEF DropboxInv, Covers

LEMMA DropFacts ==
    ASSUME DropboxInv
    PROVE  /\ Len(log) \in Nat /\ epoch \in Nat /\ floor \in Nat /\ FeedOK /\ StreamOK
           /\ ddur.seq \in Nat /\ ddur.cursor \in CursorsTo(Len(log), epoch)
           /\ ddur.lastRec \in Nat
           /\ dsess.on =>
                 /\ dsess \in DropSession(Len(log), epoch) /\ dsess.pending \in SUBSET (1..Len(log))
                 /\ dsess.last \in CursorsTo(Len(log), epoch) /\ dsess.lossStart \in Nat \cup {NoLoss}
                 /\ dsess.st = ddur
                 /\ DropSessionInv(dsess, stream, Kept(box, dtaken, ddur.seq), floor)
<1>1. Len(log) \in Nat /\ epoch \in Nat /\ floor \in Nat /\ FeedOK /\ StreamOK
    BY DEF DropboxInv, FeedOK
<1>2. dsess.on => dsess \in DropSession(Len(log), epoch)
    BY DEF DropboxInv, DIdle
<1>3. ddur.seq \in Nat /\ ddur.cursor \in CursorsTo(Len(log), epoch) /\ ddur.lastRec \in Nat
    BY DEF DropboxInv, DropState
<1>5. dsess.on => /\ dsess.pending \in SUBSET (1..Len(log)) /\ dsess.last \in CursorsTo(Len(log), epoch)
                  /\ dsess.lossStart \in Nat \cup {NoLoss}
    BY <1>2 DEF DropSession
<1> QED BY <1>1, <1>2, <1>3, <1>5 DEF DropboxInv

LEMMA KeptIsDelivered ==
    ASSUME NEW b, NEW t, NEW s
    PROVE  /\ Kept(b, t, s) \subseteq Delivered(b, t)
           /\ \A u : t \subseteq u => Kept(b, t, s) \subseteq Kept(b, u, s)
BY DEF Kept, Delivered

\* WriteTarball replaces no tarball of the stored state.
LEMMA TarballKept ==
    ASSUME NEW n \in Nat, NEW b, \A x \in b : TarballOK(x, n), NEW s \in Nat,
           NEW p \in SUBSET (1..n), NEW t \in SUBSET (1..n), NEW c, c = WithTarball(b, s + 1, p)
    PROVE  /\ \A x \in c : TarballOK(x, n)
           /\ Kept(b, t, s) \subseteq Kept(c, t, s)
           /\ Kept(b, t, s) \cup p \subseteq Kept(c, t, s + 1)
<1> DEFINE new == [seq |-> s + 1, first |-> Min(p), recs |-> p]
           old == {x \in b : ~(x.seq = s + 1 /\ x.first = Min(p))}
<1>1. c = old \cup {new}
    BY DEF WithTarball
<1>2. new.seq = s + 1 /\ new.recs = p
    OBVIOUS
<1>3. old \subseteq b /\ \A x \in b : x.seq <= s => x \in old
    BY DEF TarballOK
<1> HIDE DEF new, old
<1>4. \A x \in c : TarballOK(x, n)
    <2>1. TarballOK(new, n)
        <3>1. new.seq \in Nat
            BY <1>2
        <3> QED BY <1>2, <3>1 DEF TarballOK
    <2> QED BY <1>1, <1>3, <2>1
<1>5. Kept(b, t, s) \subseteq Kept(c, t, s)
    BY <1>1, <1>3 DEF Kept
<1>6. Kept(b, t, s) \subseteq Kept(c, t, s + 1)
    <2>1. \A x \in b : x.seq <= s => x.seq <= s + 1
        BY DEF TarballOK
    <2> QED BY <1>1, <1>3, <2>1 DEF Kept
<1>7. p \subseteq Kept(c, t, s + 1)
    <2>1. new \in {y \in c : y.seq <= s + 1}
        BY <1>1, <1>2
    <2> QED BY <1>2, <2>1 DEF Kept
<1> QED BY <1>4, <1>5, <1>6, <1>7

LEMMA KeptGrows ==
    ASSUME NEW b, NEW t, NEW u, NEW s, t \subseteq u
    PROVE  Kept(b, t, s) \subseteq Kept(b, u, s)
BY DEF Kept

LEMMA DGoKeeps ==
    ASSUME DropboxInv, NEW m, NEW s, NEW t, DGo(m, s, t), FeedOK', StreamOK',
           m \in DropSession(Len(log), epoch), m.st = ddur,
           dtaken \subseteq t, t \subseteq 1..Len(log),
           DropSessionInv(m, s, Kept(box, t, ddur.seq), floor)
    PROVE  DropboxInv' /\ Kept(box, dtaken, ddur.seq) \subseteq settled' /\ log' = log
<1>1. /\ dsess' = m /\ stream' = s /\ dtaken' = t /\ settled' = Delivered(box, t)
      /\ UNCHANGED <<consumer, log, floor, epoch, ddur, box>>
    BY DEF DGo
<1>2. Kept(box, dtaken, ddur.seq) \subseteq Kept(box, t, ddur.seq)
    BY KeptGrows
<1>3. Kept(box, t, ddur.seq) \subseteq Delivered(box, t)
    BY KeptIsDelivered
<1>4. Covers(ddur.cursor, Kept(box, t, ddur.seq)) /\ Dated(ddur.lastRec, Kept(box, t, ddur.seq))
    BY <1>2, DatedGrows DEF DropboxInv, Covers
<1> QED BY <1>1, <1>2, <1>3, <1>4 DEF DropboxInv

\* flush: the tarball, then the state.
LEMMA FlushedHolds ==
    ASSUME DropboxInv, NEW m \in DropSession(Len(log), epoch), m.st = ddur,
           NEW cur \in CursorsTo(Len(log), epoch), NEW t \in SUBSET (1..Len(log)), dtaken \subseteq t,
           \A p \in m.pending : 1..p \subseteq Kept(box, t, ddur.seq) \cup m.pending,
           Covers(cur, Kept(box, t, ddur.seq) \cup m.pending),
           NEW b, b = BoxAfter(m), NEW d, d = DFlushed(m, cur)
    PROVE  /\ d \in DropState(Len(log), epoch) /\ \A x \in b : TarballOK(x, Len(log))
           /\ Kept(box, t, ddur.seq) \cup m.pending \subseteq Kept(b, t, d.seq)
           /\ Covers(d.cursor, Kept(b, t, d.seq)) /\ Dated(d.lastRec, Kept(b, t, d.seq))
           /\ Kept(box, t, ddur.seq) \subseteq Kept(b, t, ddur.seq)
<1> DEFINE K == Kept(box, t, ddur.seq)
           P == m.pending
<1>1. /\ Len(log) \in Nat /\ ddur.seq \in Nat /\ ddur.cursor \in CursorsTo(Len(log), epoch)
      /\ ddur.lastRec \in Nat
    BY DropFacts
<1>2. P \in SUBSET (1..Len(log))
    BY DEF DropSession
<1>3. Covers(ddur.cursor, K) /\ Dated(ddur.lastRec, K)
    <2> DEFINE J == Kept(box, dtaken, ddur.seq)
    <2>1. J \subseteq K
        BY KeptGrows
    <2>2. Covers(ddur.cursor, J) /\ Dated(ddur.lastRec, J)
        BY DEF DropboxInv
    <2> HIDE DEF J, K
    <2> QED BY <2>1, <2>2, DatedGrows DEF Covers
<1>4. d = [cursor |-> IF cur = NoCursor THEN ddur.cursor ELSE cur,
           seq |-> IF P = {} THEN ddur.seq ELSE ddur.seq + 1,
           lastRec |-> IF LastTime(m) > 0 THEN LastTime(m) ELSE ddur.lastRec]
    BY DEF DFlushed, DropboxInv, DropState
<1>5. b = IF P = {} THEN box ELSE WithTarball(box, ddur.seq + 1, P)
    BY DEF BoxAfter
<1>6. \A x \in box : TarballOK(x, Len(log))
    BY DEF DropboxInv
<1>7. ASSUME NEW S, K \cup P \subseteq S PROVE Covers(d.cursor, S)
    BY <1>3, <1>4, <1>7 DEF Covers
<1>8. d.cursor \in CursorsTo(Len(log), epoch)
    BY <1>1, <1>4
<1>9. CASE P = {}
    <2>1. b = box /\ d.seq = ddur.seq /\ d.lastRec = ddur.lastRec
        BY <1>4, <1>5, <1>9 DEF LastTime
    <2>2. d \in DropState(Len(log), epoch)
        BY <1>1, <1>4, <1>8, <1>9, <2>1 DEF DropState
    <2> QED BY <1>3, <1>6, <1>7, <1>9, <2>1, <2>2
<1>10. CASE P # {}
    <2>1. b = WithTarball(box, ddur.seq + 1, P) /\ d.seq = ddur.seq + 1
          /\ d.lastRec \in {ddur.lastRec, RecordTime(Max(P))}
        BY <1>4, <1>5, <1>10 DEF LastTime
    <2>2. /\ \A x \in b : TarballOK(x, Len(log))
          /\ K \subseteq Kept(b, t, ddur.seq)
          /\ K \cup P \subseteq Kept(b, t, d.seq)
        <3>1. K \cup P \subseteq Kept(b, t, ddur.seq + 1) /\ K \subseteq Kept(b, t, ddur.seq)
              /\ \A x \in b : TarballOK(x, Len(log))
            <4> DEFINE n == Len(log)
                       q == ddur.seq
            <4>1. n \in Nat /\ q \in Nat /\ P \in SUBSET (1..n) /\ t \in SUBSET (1..n)
                  /\ (\A x \in box : TarballOK(x, n)) /\ b = WithTarball(box, q + 1, P)
                BY <1>1, <1>2, <1>6, <2>1
            <4> HIDE DEF P, n, q
            <4>2. K = Kept(box, t, q)
                BY DEF q
            <4> HIDE DEF K
            <4>3. /\ \A x \in b : TarballOK(x, n)
                  /\ Kept(box, t, q) \subseteq Kept(b, t, q)
                  /\ Kept(box, t, q) \cup P \subseteq Kept(b, t, q + 1)
                BY <4>1, TarballKept
            <4> QED BY <4>2, <4>3 DEF n, q
        <3> QED BY <2>1, <3>1
    <2>3. Max(P) \in P
        <3>1. P \in SUBSET Nat /\ \A x \in P : x <= Len(log)
            BY <1>1, <1>2
        <3> HIDE DEF P
        <3> QED BY <1>1, <1>10, <3>1, MaxIs
    <2>4. Dated(d.lastRec, K \cup P)
        <3>1. Max(P) \in Nat /\ 1..Max(P) \subseteq K \cup P
            BY <1>2, <2>3
        <3>2. Dated(RecordTime(Max(P)), K \cup P)
            BY <3>1 DEF Dated
        <3>3. Dated(ddur.lastRec, K \cup P)
            BY <1>3, DatedGrows
        <3> QED BY <2>1, <3>2, <3>3
    <2>5. d \in DropState(Len(log), epoch)
        <3>1. RecordTime(Max(P)) \in Nat /\ ddur.seq + 1 \in Nat
            BY <1>1, <1>2, <2>3 DEF DropboxInv, TimesOrdered
        <3>2. d.lastRec \in Nat
            BY <1>1, <2>1, <3>1
        <3> QED BY <1>4, <1>8, <1>10, <3>1, <3>2 DEF DropState
    <2>6. Dated(d.lastRec, Kept(b, t, d.seq))
        BY <2>2, <2>4, DatedGrows
    <2> QED BY <1>7, <2>2, <2>5, <2>6
<1> QED BY <1>9, <1>10

LEMMA DFlushKeeps ==
    ASSUME DropboxInv, NEW m, NEW s, NEW cur \in CursorsTo(Len(log), epoch), NEW t, NEW end \in BOOLEAN,
           DFlush(m, s, cur, t, end), FeedOK', StreamOK',
           m \in DropSession(Len(log), epoch), m.st = ddur,
           dtaken \subseteq t, t \subseteq 1..Len(log),
           DropSessionInv(m, s, Kept(box, t, ddur.seq), floor),
           Covers(cur, Kept(box, t, ddur.seq) \cup m.pending)
    PROVE  DropboxInv' /\ Kept(box, dtaken, ddur.seq) \subseteq settled' /\ log' = log
<1> DEFINE K == Kept(box, t, ddur.seq)
           L == Kept(box', t, ddur'.seq)
<1>1. /\ box' = BoxAfter(m) /\ ddur' = DFlushed(m, cur) /\ dtaken' = t /\ settled' = Delivered(box', t)
      /\ dsess' = (IF end THEN DIdle ELSE [m EXCEPT !.st = ddur', !.pending = {}])
      /\ stream' = (IF end THEN Off ELSE s)
      /\ UNCHANGED <<consumer, log, floor, epoch, faults>>
    BY DEF DFlush
<1>2. /\ ddur' \in DropState(Len(log), epoch) /\ \A x \in box' : TarballOK(x, Len(log))
      /\ K \cup m.pending \subseteq L /\ Covers(ddur'.cursor, L) /\ Dated(ddur'.lastRec, L)
    <2>1. \A p \in m.pending : 1..p \subseteq K \cup m.pending
        BY DEF DropSessionInv
    <2> QED BY <1>1, <2>1, FlushedHolds
<1>3. Kept(box, dtaken, ddur.seq) \subseteq K /\ L \subseteq settled'
    BY <1>1, KeptGrows, KeptIsDelivered
<1>4. CASE end
    <2>1. dsess' = DIdle /\ ~dsess'.on
        BY <1>1, <1>4 DEF DIdle
    <2> QED BY <1>1, <1>2, <1>3, <2>1 DEF DropboxInv
<1>5. CASE ~end
    <2>1. stream' = s /\ dsess' = [m EXCEPT !.st = ddur', !.pending = {}]
        BY <1>1, <1>5
    <2>2. dsess' \in DropSession(Len(log), epoch)
        BY <1>2, <2>1 DEF DropSession
    <2>3. /\ dsess'.st = ddur' /\ dsess'.pending = {} /\ dsess'.last = m.last
          /\ dsess'.lossStart = m.lossStart
        BY <2>1 DEF DropSession
    <2> HIDE DEF K, L
    <2>4. DropSessionInv(dsess', s, L, floor)
        <3>1. K \subseteq L /\ (m.lossStart # NoLoss => Dated(m.lossStart, L))
            BY <1>2, DatedGrows DEF DropSessionInv, K
        <3> QED BY <1>2, <2>3, <3>1 DEF DropSessionInv, Covers, K
    <2> QED BY <1>1, <1>2, <1>3, <2>1, <2>2, <2>3, <2>4 DEF DropboxInv, L, K
<1> QED BY <1>4, <1>5

LEMMA DFailKeeps ==
    ASSUME DropboxInv, NEW m, NEW cur \in CursorsTo(Len(log), epoch), NEW t, DFail(m, cur, t),
           m \in DropSession(Len(log), epoch), m.st = ddur,
           dtaken \subseteq t, t \subseteq 1..Len(log),
           \A p \in m.pending : 1..p \subseteq Kept(box, t, ddur.seq) \cup m.pending,
           Covers(cur, Kept(box, t, ddur.seq) \cup m.pending)
    PROVE  DropboxInv' /\ Kept(box, dtaken, ddur.seq) \subseteq settled' /\ log' = log
<1> DEFINE K == Kept(box, t, ddur.seq)
           L == Kept(box', t, ddur'.seq)
<1>1. /\ dtaken' = t /\ settled' = Delivered(box', t) /\ dsess' = DIdle /\ stream' = Off
      /\ UNCHANGED <<consumer, log, floor, epoch>> /\ faults > 0 /\ faults' = faults - 1
      /\ \/ box' = box /\ ddur' = ddur
         \/ box' = BoxAfter(m) /\ ddur' = ddur
         \/ box' = BoxAfter(m) /\ ddur' = DFlushed(m, cur)
    BY DEF DFail
<1>2. FeedOK' /\ StreamOK'
    <2>1. faults' \in Nat
        BY <1>1, DropFacts DEF FeedOK
    <2> QED BY <1>1, <2>1, DropFacts, MarkTakenOK
<1>3. ~dsess'.on
    BY <1>1 DEF DIdle
<1>4. K \subseteq L /\ Kept(box, dtaken, ddur.seq) \subseteq K /\ L \subseteq settled'
      /\ \A x \in box' : TarballOK(x, Len(log))
    <2>1. Kept(box, dtaken, ddur.seq) \subseteq K /\ L \subseteq settled'
        BY <1>1, KeptGrows, KeptIsDelivered
    <2>2. \A x \in box : TarballOK(x, Len(log))
        BY DEF DropboxInv
    <2>3. CASE box' = box /\ ddur' = ddur
        BY <2>1, <2>2, <2>3
    <2>4. CASE box' = BoxAfter(m) /\ ddur' = ddur
        BY <2>1, <2>4, FlushedHolds
    <2>5. CASE box' = BoxAfter(m) /\ ddur' = DFlushed(m, cur)
        BY <2>1, <2>5, FlushedHolds
    <2> QED BY <1>1, <2>1, <2>3, <2>4, <2>5
<1>5. ddur' \in DropState(Len(log), epoch) /\ Covers(ddur'.cursor, L) /\ Dated(ddur'.lastRec, L)
    <2>1. CASE ddur' = ddur
        <3>1. Kept(box, dtaken, ddur.seq) \subseteq L
            BY <1>4
        <3> HIDE DEF L
        <3> QED BY <2>1, <3>1, DatedGrows DEF DropboxInv, Covers
    <2>2. CASE box' = BoxAfter(m) /\ ddur' = DFlushed(m, cur)
        BY <2>2, FlushedHolds
    <2> QED BY <1>1, <2>1, <2>2
<1> HIDE DEF L, K
<1> QED BY <1>1, <1>2, <1>3, <1>4, <1>5 DEF DropboxInv, L

\* The first change of an archive's snapshot follows the last one it dropped.
LEMMA ArchiveSnapshot ==
    ASSUME FeedOK, IsArchive, NEW n \in Nat
    PROVE  SnapshotAt(n) = floor + 1..n
<1>1. floor \in Nat
    BY DEF FeedOK
<1>2. SnapshotAt(n) = {i \in 1..n : i > floor}
    BY DEF SnapshotAt
<1> QED BY <1>1, <1>2

LEMMA DropboxStartKeeps ==
    ASSUME DropboxInv, DropboxStart
    PROVE  DropboxInv' /\ Kept(box, dtaken, ddur.seq) \subseteq settled' /\ log' = log
<1>1. /\ stream' = OpenStream(ddur.cursor)
      /\ dsess' = [on |-> TRUE, st |-> ddur, pending |-> {}, last |-> NoCursor,
                   hadCursor |-> ddur.cursor # NoCursor, lossStart |-> NoLoss]
      /\ UNCHANGED <<consumer, log, floor, epoch, settled, faults, ddur, box, dtaken>>
    BY DEF DropboxStart
<1>2. /\ FeedOK /\ Len(log) \in Nat /\ floor \in Nat /\ floor <= Len(log)
      /\ ddur.cursor \in CursorsTo(Len(log), epoch)
    BY DropFacts DEF FeedOK
<1>3. CursorOK(ddur.cursor, Len(log), epoch)
    BY <1>2 DEF CursorOK, CursorsTo
<1>4. FeedOK' /\ StreamOK'
    BY <1>1, <1>2, <1>3, OpenedOK
<1>5. /\ Resumable(ddur.cursor) => stream'.phase = "resume" /\ stream'.at = ddur.cursor.pos
      /\ ~Resumable(ddur.cursor) => /\ stream'.phase = "reset" /\ stream'.todo = SnapshotAt(Len(log))
                                    /\ stream'.at = Len(log)
    BY <1>1, <1>2, <1>3, OpenStreamOK
<1>6. dsess' \in DropSession(Len(log), epoch)
    <2>1. NoCursor \in CursorsTo(Len(log), epoch) /\ ddur \in DropState(Len(log), epoch)
        BY DEF CursorsTo, DropboxInv
    <2> QED BY <1>1, <2>1 DEF DropSession
<1>7. /\ dsess'.st = ddur /\ dsess'.pending = {} /\ dsess'.last = NoCursor /\ dsess'.lossStart = NoLoss
    BY <1>1
<1>8. DropSessionInv(dsess', stream', Kept(box, dtaken, ddur.seq), floor)
    <2>1. CASE Resumable(ddur.cursor)
        <3>1. 1..stream'.at \subseteq Kept(box, dtaken, ddur.seq)
            BY <1>5, <2>1 DEF DropboxInv, Covers, Resumable
        <3> QED BY <1>5, <1>7, <2>1, <3>1 DEF DropSessionInv, Covers
    <2>2. CASE ~Resumable(ddur.cursor)
        <3>1. IsArchive
            BY DEF IsArchive, DropboxInv
        <3>2. floor \in 0..stream'.at /\ floor <= floor /\ stream'.todo = floor + 1..stream'.at
            BY <1>2, <1>5, <2>2, <3>1, ArchiveSnapshot
        <3>3. \E x \in 0..stream'.at : x <= floor /\ stream'.todo = x + 1..stream'.at
            BY <3>2
        <3> QED BY <1>5, <1>7, <2>2, <3>3 DEF DropSessionInv, Covers
    <2> QED BY <2>1, <2>2
<1>9. Kept(box, dtaken, ddur.seq) \subseteq settled
    BY KeptIsDelivered DEF DropboxInv
<1> QED BY <1>1, <1>4, <1>6, <1>7, <1>8, <1>9 DEF DropboxInv

LEMMA DropboxUndecodableKeeps ==
    ASSUME DropboxInv, DropboxUndecodable
    PROVE  DropboxInv' /\ Kept(box, dtaken, ddur.seq) \subseteq settled' /\ log' = log
<1> DEFINE i == NextChange
           s == AfterChange
           t == dtaken \cup {i}
           m == [dsess EXCEPT !.last = NewestSeen]
           K == Kept(box, dtaken, ddur.seq)
           L == Kept(box, t, ddur.seq)
<1>1. dsess.on /\ HasChange /\ DGo(m, s, t)
    BY DEF DropboxUndecodable
<1>2. /\ FeedOK /\ StreamOK /\ Len(log) \in Nat /\ dsess \in DropSession(Len(log), epoch)
      /\ dsess.st = ddur /\ DropSessionInv(dsess, stream, K, floor)
      /\ dsess.last \in CursorsTo(Len(log), epoch)
    BY <1>1, DropFacts
<1>3. /\ i \in 1..Len(log) /\ s.phase = stream.phase
      /\ stream.phase \in {"resume", "live", "replay"}
      /\ stream.phase \in {"resume", "live"} =>
            i = stream.at + 1 /\ s.at = i /\ ChangeCursor = CursorAt(i)
      /\ stream.phase = "replay" => i \in stream.todo /\ s.at = stream.at /\ ChangeCursor = NoCursor
      /\ s.todo = IF stream.phase = "live" THEN stream.todo ELSE stream.todo \ {i}
    BY <1>1, <1>2, ChangeTaken
<1>4. FeedOK' /\ StreamOK'
    <2>1. stream' = s /\ log' = log /\ floor' = floor /\ epoch' = epoch /\ faults' = faults
        BY <1>1 DEF DGo
    <2> QED BY <1>1, <1>2, <2>1, ChangeTakenOK DEF FeedOK
<1>5. L = K \cup {i} /\ K \subseteq L
    BY DEF Kept
<1>6. stream.at \in Nat
    BY <1>2 DEF FeedOK, StreamState
<1>7. CASE stream.phase \in {"resume", "live"}
    <2>1. i \in Nat /\ i <= Len(log) /\ i = stream.at + 1
        BY <1>2, <1>3, <1>7
    <2>2. NewestSeen = CursorAt(i) /\ CursorAt(i).pos = i /\ CursorAt(i) \in CursorsTo(Len(log), epoch)
        BY <1>2, <1>3, <1>7, <2>1, CursorAtOK DEF NewestSeen, CursorsTo, CursorOK
    <2>3. 1..i \subseteq L \cup dsess.pending
        <3>1. 1..stream.at \subseteq K \cup dsess.pending
            BY <1>2, <1>7 DEF DropSessionInv
        <3>2. 1..i = 1..stream.at \cup {i}
            BY <1>6, <2>1
        <3> HIDE DEF i, K, L
        <3> QED BY <1>5, <3>1, <3>2
    <2>4. m \in DropSession(Len(log), epoch) /\ m.st = ddur /\ m.pending = dsess.pending
          /\ m.last = CursorAt(i) /\ m.lossStart = dsess.lossStart
        BY <1>2, <2>2 DEF DropSession
    <2> HIDE DEF i, s, t, m, K, L
    <2>5. DropSessionInv(m, s, L, floor)
        BY <1>2, <1>3, <1>5, <1>7, <2>2, <2>3, <2>4 DEF DropSessionInv, Covers
    <2>6. dtaken \subseteq t /\ t \subseteq 1..Len(log)
        BY <1>3 DEF DropboxInv, t
    <2> QED BY <1>1, <1>4, <2>4, <2>5, <2>6, DGoKeeps DEF L, K
<1>8. CASE stream.phase = "replay"
    <2>1. m = dsess
        BY <1>2, <1>3, <1>8 DEF NewestSeen, DropSession
    <2>2. PICK x \in 0..stream.at :
            /\ stream.todo = x + 1..stream.at
            /\ dsess.lossStart = NoLoss => 1..x \subseteq K \cup dsess.pending
        <3> HIDE DEF K
        <3> QED BY <1>2, <1>8 DEF DropSessionInv
    <2>3. i = x + 1 /\ x + 1 \in 0..stream.at
        <3>1. i = Min(stream.todo)
            BY <1>8 DEF NextChange
        <3>2. stream.todo \in SUBSET Nat
            BY <1>2 DEF FeedOK, StreamState
        <3>3. \A y \in stream.todo : i <= y
            <4>1. stream.todo # {}
                BY <1>3, <1>8
            <4> QED BY <3>1, <3>2, <4>1, MinIs
        <3>4. i \in x + 1..stream.at
            BY <1>3, <1>8, <2>2
        <3>5. x + 1 \in stream.todo
            BY <1>6, <2>2, <3>4
        <3> QED BY <1>6, <2>2, <3>3, <3>4, <3>5
    <2> HIDE DEF i, s, t, m, K, L
    <2>4. s.todo = x + 1 + 1..s.at /\ s.at = stream.at
        <3>1. s.todo = (x + 1..stream.at) \ {x + 1} /\ s.at = stream.at
            BY <1>3, <1>8, <2>2, <2>3
        <3> QED BY <1>6, <2>3, <3>1
    <2>5. dsess.lossStart = NoLoss => 1..x + 1 \subseteq L \cup dsess.pending
        <3>1. 1..x + 1 = 1..x \cup {i}
            BY <2>2, <2>3
        <3> QED BY <1>5, <2>2, <3>1
    <2>6. \E y \in 0..s.at : /\ s.todo = y + 1..s.at
                             /\ dsess.lossStart = NoLoss => 1..y \subseteq L \cup dsess.pending
        BY <2>3, <2>4, <2>5
    <2>7. DropSessionInv(m, s, L, floor)
        <3>1. dsess.lossStart # NoLoss => dsess.pending = {} /\ Dated(dsess.lossStart, L)
            BY <1>2, <1>5, DatedGrows DEF DropSessionInv
        <3>2. Covers(dsess.last, L \cup dsess.pending)
              /\ \A p \in dsess.pending : 1..p \subseteq L \cup dsess.pending
            BY <1>2, <1>5 DEF DropSessionInv, Covers
        <3> QED BY <1>3, <1>8, <2>1, <2>6, <3>1, <3>2 DEF DropSessionInv
    <2>8. dtaken \subseteq t /\ t \subseteq 1..Len(log)
        BY <1>3 DEF DropboxInv, t
    <2> QED BY <1>1, <1>2, <1>4, <2>1, <2>7, <2>8, DGoKeeps DEF L, K
<1> QED BY <1>3, <1>7, <1>8

\* emitLoss: the report closes the gap before the first record of a replay.
LEMMA ReportedFills ==
    ASSUME TimesOrdered, NEW i \in Nat, i > 0, NEW a \in Nat, NEW K, Dated(a, K)
    PROVE  1..i - 1 \subseteq K \cup Reported(a, i) /\ Reported(a, i) \subseteq 1..i - 1
<1>1. a # NoLoss
    BY DEF NoLoss
<1>2. CASE a > 0 /\ RecordTime(i) > 0 /\ RecordTime(i) <= a
    <2>1. PICK p \in Nat : RecordTime(p) = a /\ 1..p \subseteq K
        BY <1>2 DEF Dated
    <2>2. ~(p < i)
        <3>1. RecordTime(i) \in Nat /\ (p < i /\ RecordTime(p) > 0 /\ RecordTime(i) > 0
                                            => RecordTime(p) < RecordTime(i))
            BY DEF TimesOrdered
        <3> QED BY <1>2, <2>1, <3>1
    <2>3. 1..i - 1 \subseteq 1..p
        BY <2>2
    <2>4. Reported(a, i) = {}
        BY <1>2 DEF Reported
    <2> QED BY <2>1, <2>3, <2>4
<1>3. CASE ~(a > 0 /\ RecordTime(i) > 0 /\ RecordTime(i) <= a)
    <2>1. Reported(a, i) = 1..i - 1
        BY <1>1, <1>3 DEF Reported
    <2> QED BY <2>1
<1> QED BY <1>2, <1>3

LEMMA GapClosed ==
    ASSUME DropboxInv, dsess.on, NEW x \in Nat, x < Len(log) \/ x = Len(log),
           dsess.lossStart = NoLoss => 1..x \subseteq Kept(box, dtaken, ddur.seq) \cup dsess.pending,
           NEW t, \/ t = dtaken \cup Reported(dsess.lossStart, x + 1)
                  \/ t = dtaken \cup (IF dsess.lossStart = NoLoss THEN {} ELSE 1..x)
    PROVE  /\ dtaken \subseteq t /\ t \subseteq 1..Len(log)
           /\ Kept(box, dtaken, ddur.seq) \subseteq Kept(box, t, ddur.seq)
           /\ 1..x \subseteq Kept(box, t, ddur.seq) \cup dsess.pending
<1> DEFINE K == Kept(box, dtaken, ddur.seq)
<1>1. /\ Len(log) \in Nat /\ dsess.lossStart \in Nat \cup {NoLoss} /\ TimesOrdered
      /\ dsess.lossStart # NoLoss => Dated(dsess.lossStart, K)
    BY DropFacts DEF DropSessionInv, DropboxInv
<1>2. dtaken \subseteq 1..Len(log)
    BY DEF DropboxInv
<1>3. x + 1 \in Nat /\ x + 1 > 0 /\ x + 1 - 1 = x /\ 1..x \subseteq 1..Len(log)
    BY <1>1
<1>4. PICK R : /\ t = dtaken \cup R /\ R \subseteq 1..x
               /\ 1..x \subseteq K \cup dsess.pending \cup R
    <2>1. CASE dsess.lossStart = NoLoss
        <3>1. t = dtaken \cup {}
            BY <2>1 DEF Reported
        <3> QED BY <2>1, <3>1
    <2>2. CASE dsess.lossStart # NoLoss /\ t = dtaken \cup Reported(dsess.lossStart, x + 1)
        <3> DEFINE R == Reported(dsess.lossStart, x + 1)
        <3>1. dsess.lossStart \in Nat /\ Dated(dsess.lossStart, K)
            BY <1>1, <2>2
        <3> HIDE DEF K
        <3>2. 1..(x + 1) - 1 \subseteq K \cup R /\ R \subseteq 1..(x + 1) - 1
            BY <1>1, <1>3, <3>1, ReportedFills
        <3> HIDE DEF R
        <3>3. 1..x \subseteq K \cup R /\ R \subseteq 1..x
            BY <1>3, <3>2
        <3>4. t = dtaken \cup R
            BY <2>2 DEF R
        <3> QED BY <3>3, <3>4
    <2>3. CASE dsess.lossStart # NoLoss /\ t = dtaken \cup 1..x
        BY <2>3
    <2> QED BY <2>1, <2>2, <2>3
<1>5. Kept(box, t, ddur.seq) = K \cup R
    BY <1>4 DEF Kept
<1> QED BY <1>2, <1>3, <1>4, <1>5

\* A replay sends an archive's records oldest first.
LEMMA ReplayNext ==
    ASSUME FeedOK, StreamOK, HasChange, stream.phase = "replay", NEW x \in 0..stream.at,
           stream.todo = x + 1..stream.at
    PROVE  /\ NextChange = x + 1 /\ x + 1 \in 0..stream.at
           /\ AfterChange.todo = x + 1 + 1..AfterChange.at
<1> DEFINE i == NextChange
           s == AfterChange
<1>1. /\ stream.at \in Nat /\ i \in stream.todo /\ s.at = stream.at /\ s.todo = stream.todo \ {i}
    BY ChangeTaken DEF FeedOK, StreamState
<1>2. i = Min(stream.todo) /\ stream.todo \in SUBSET Nat
    BY DEF NextChange, FeedOK, StreamState
<1> HIDE DEF i, s
<1>3. \A y \in stream.todo : i <= y
    BY <1>1, <1>2, MinIs
<1>4. i \in x + 1..stream.at /\ x + 1 \in stream.todo
    BY <1>1
<1>5. i = x + 1 /\ x + 1 \in 0..stream.at
    BY <1>1, <1>3, <1>4
<1>6. s.todo = x + 1 + 1..s.at
    BY <1>1, <1>5
<1> QED BY <1>5, <1>6 DEF i, s

LEMMA DropboxUpsertKeeps ==
    ASSUME DropboxInv, DropboxUpsert
    PROVE  DropboxInv' /\ Kept(box, dtaken, ddur.seq) \subseteq settled' /\ log' = log
<1> DEFINE i == NextChange
           s == AfterChange
           t == dtaken \cup Reported(dsess.lossStart, i)
           m == [dsess EXCEPT !.last = NewestSeen, !.lossStart = NoLoss, !.pending = @ \cup {i}]
           K == Kept(box, dtaken, ddur.seq)
           L == Kept(box, t, ddur.seq)
<1>1. /\ dsess.on /\ HasChange
      /\ \/ DGo(m, s, t)
         \/ DFlush(m, s, ChangeCursor, t, FALSE)
         \/ DFail(m, ChangeCursor, t)
         \/ DFail(dsess, NoCursor, dtaken)
    BY DEF DropboxUpsert
<1>2. /\ FeedOK /\ StreamOK /\ Len(log) \in Nat /\ dsess \in DropSession(Len(log), epoch)
      /\ dsess.st = ddur /\ DropSessionInv(dsess, stream, K, floor)
      /\ dsess.last \in CursorsTo(Len(log), epoch) /\ dsess.pending \in SUBSET (1..Len(log))
      /\ stream.at \in Nat /\ stream.at <= Len(log)
    BY <1>1, DropFacts DEF FeedOK, StreamState
<1>3. /\ i \in 1..Len(log) /\ s.phase = stream.phase
      /\ stream.phase \in {"resume", "live", "replay"}
      /\ stream.phase \in {"resume", "live"} =>
            i = stream.at + 1 /\ s.at = i /\ ChangeCursor = CursorAt(i)
      /\ stream.phase = "replay" => i \in stream.todo /\ s.at = stream.at /\ ChangeCursor = NoCursor
    BY <1>1, <1>2, ChangeTaken
<1>4. /\ stream' = s /\ log' = log /\ floor' = floor /\ epoch' = epoch /\ faults' \in Nat
         => FeedOK' /\ StreamOK'
    BY <1>1, <1>2, ChangeTakenOK
<1>5. PICK x \in Nat :
        /\ i = x + 1 /\ x < Len(log)
        /\ dsess.lossStart = NoLoss => 1..x \subseteq K \cup dsess.pending
        /\ stream.phase = "replay" => x + 1 \in 0..s.at /\ s.todo = x + 1 + 1..s.at
    <2>1. CASE stream.phase \in {"resume", "live"}
        <3>1. i = stream.at + 1 /\ stream.at < Len(log)
            BY <1>2, <1>3, <2>1
        <3>2. 1..stream.at \subseteq K \cup dsess.pending
            BY <1>2, <2>1 DEF DropSessionInv
        <3> QED BY <1>2, <2>1, <3>1, <3>2
    <2>2. CASE stream.phase = "replay"
        <3>1. PICK x \in 0..stream.at :
                /\ stream.todo = x + 1..stream.at
                /\ dsess.lossStart = NoLoss => 1..x \subseteq K \cup dsess.pending
            <4> HIDE DEF K
            <4> QED BY <1>2, <2>2 DEF DropSessionInv
        <3>2. i = x + 1 /\ x + 1 \in 0..stream.at /\ s.todo = x + 1 + 1..s.at
            BY <1>1, <1>2, <2>2, <3>1, ReplayNext
        <3>3. x \in Nat /\ x < Len(log) /\ s.at = stream.at
            BY <1>2, <1>3, <2>2, <3>2
        <3> HIDE DEF i, s, K
        <3> QED BY <3>1, <3>2, <3>3
    <2> QED BY <1>3, <2>1, <2>2
<1>6. /\ dtaken \subseteq t /\ t \subseteq 1..Len(log) /\ K \subseteq L
      /\ 1..x \subseteq L \cup dsess.pending
    BY <1>1, <1>5, GapClosed
<1>7. NewestSeen \in CursorsTo(Len(log), epoch) /\ ChangeCursor \in CursorsTo(Len(log), epoch)
      /\ (ChangeCursor # NoCursor => ChangeCursor.pos = i)
      /\ (NewestSeen = dsess.last \/ (NewestSeen # NoCursor /\ NewestSeen.pos = i))
    <2>1. CASE stream.phase \in {"resume", "live"}
        <3>1. i \in Nat /\ i <= Len(log)
            BY <1>2, <1>3
        <3> QED BY <1>2, <1>3, <2>1, <3>1, CursorAtOK DEF NewestSeen, CursorsTo, CursorOK
    <2>2. CASE stream.phase = "replay"
        BY <1>2, <1>3, <2>2 DEF NewestSeen, CursorsTo
    <2> QED BY <1>3, <2>1, <2>2
<1>8. m \in DropSession(Len(log), epoch) /\ m.st = ddur /\ m.pending = dsess.pending \cup {i}
      /\ m.last = NewestSeen /\ m.lossStart = NoLoss
    <2> DEFINE P == dsess.pending \cup {i}
               c == NewestSeen
    <2>1. P \in SUBSET (1..Len(log)) /\ c \in CursorsTo(Len(log), epoch)
        BY <1>2, <1>3, <1>7
    <2>2. m = [[[dsess EXCEPT !.last = c] EXCEPT !.lossStart = NoLoss] EXCEPT !.pending = P]
        BY <1>2 DEF DropSession
    <2> HIDE DEF m, P, c, i
    <2>3. m \in DropSession(Len(log), epoch)
        BY <1>2, <2>1, <2>2 DEF DropSession
    <2>4. m.st = ddur /\ m.pending = P /\ m.last = c /\ m.lossStart = NoLoss
        BY <1>2, <2>2 DEF DropSession
    <2> QED BY <2>3, <2>4 DEF P, c
<1> HIDE DEF i, s, t, m, K, L
<1>9. 1..i \subseteq L \cup m.pending
    <2>1. 1..i = 1..x \cup {i}
        BY <1>5
    <2> QED BY <1>6, <1>8, <2>1
<1>10. Covers(ChangeCursor, L \cup m.pending) /\ Covers(m.last, L \cup m.pending)
    BY <1>2, <1>6, <1>7, <1>8, <1>9 DEF Covers, DropSessionInv
<1>11. \A p \in m.pending : 1..p \subseteq L \cup m.pending
    BY <1>2, <1>6, <1>8, <1>9 DEF DropSessionInv
<1>12. DropSessionInv(m, s, L, floor)
    <2>1. s.phase \in {"resume", "live"} => 1..s.at \subseteq L \cup m.pending
        BY <1>3, <1>9
    <2>2. s.phase = "replay" => \E y \in 0..s.at : /\ s.todo = y + 1..s.at
                                                   /\ 1..y \subseteq L \cup m.pending
        BY <1>3, <1>5, <1>9
    <2>3. s.phase # "reset"
        BY <1>3
    <2> QED BY <1>8, <1>10, <1>11, <2>1, <2>2, <2>3 DEF DropSessionInv
<1>13. CASE DGo(m, s, t)
    <2>1. FeedOK' /\ StreamOK'
        BY <1>2, <1>4, <1>13 DEF DGo, FeedOK
    <2> QED BY <1>6, <1>8, <1>12, <1>13, <2>1, DGoKeeps DEF L, K
<1>14. CASE DFlush(m, s, ChangeCursor, t, FALSE)
    <2>1. FeedOK' /\ StreamOK'
        BY <1>2, <1>4, <1>14 DEF DFlush, FeedOK
    <2> QED BY <1>6, <1>7, <1>8, <1>10, <1>12, <1>14, <2>1, DFlushKeeps DEF L, K
<1>15. CASE DFail(m, ChangeCursor, t)
    BY <1>6, <1>7, <1>8, <1>10, <1>11, <1>15, DFailKeeps DEF L, K
<1>16. CASE DFail(dsess, NoCursor, dtaken)
    <2>1. NoCursor \in CursorsTo(Len(log), epoch) /\ Covers(NoCursor, K \cup dsess.pending)
        BY DEF CursorsTo, Covers
    <2>2. \A p \in dsess.pending : 1..p \subseteq K \cup dsess.pending
        BY <1>2 DEF DropSessionInv
    <2>3. dtaken \subseteq 1..Len(log)
        BY DEF DropboxInv
    <2> QED BY <1>2, <1>16, <2>1, <2>2, <2>3, DFailKeeps DEF K
<1> QED BY <1>1, <1>13, <1>14, <1>15, <1>16

LEMMA DropboxResetKeeps ==
    ASSUME DropboxInv, DropboxReset
    PROVE  DropboxInv' /\ Kept(box, dtaken, ddur.seq) \subseteq settled' /\ log' = log
<1> DEFINE s == AfterReset
           t == IF dsess.hadCursor THEN dtaken ELSE dtaken \cup 1..floor
           a == IF dsess.hadCursor THEN dsess.st.lastRec ELSE dsess.lossStart
           m == [dsess EXCEPT !.pending = {}, !.hadCursor = FALSE, !.lossStart = a]
           K == Kept(box, dtaken, ddur.seq)
           L == Kept(box, t, ddur.seq)
<1>1. /\ dsess.on /\ IsReset /\ stream.phase = "reset"
    BY DEF DropboxReset, IsReset
<1>2. /\ FeedOK /\ StreamOK /\ Len(log) \in Nat /\ dsess \in DropSession(Len(log), epoch)
      /\ dsess.st = ddur /\ DropSessionInv(dsess, stream, K, floor)
      /\ floor \in Nat /\ floor <= Len(log) /\ stream.at \in Nat /\ ddur.lastRec \in Nat
    BY <1>1, DropFacts DEF FeedOK, StreamState
<1>3. DGo(m, s, t)
    <2>1. dsess.lossStart = dsess.lossStart
        OBVIOUS
    <2>2. m = [dsess EXCEPT !.pending = {}, !.hadCursor = FALSE,
                    !.lossStart = IF dsess.hadCursor THEN dsess.st.lastRec ELSE @]
        BY <1>2 DEF DropSession
    <2> QED BY <2>2 DEF DropboxReset
<1>4. FeedOK' /\ StreamOK'
    <2>1. stream' = s /\ log' = log /\ floor' = floor /\ epoch' = epoch /\ faults' = faults
        BY <1>3 DEF DGo
    <2> QED BY <1>1, <1>2, <2>1, MarkTakenOK DEF FeedOK
<1>5. s.phase = "replay" /\ s.todo = stream.todo /\ s.at = stream.at
    BY <1>2, MarkTaken
<1>6. dsess.lossStart = NoLoss /\ dsess.last = NoCursor
    BY <1>1, <1>2 DEF DropSessionInv
<1>7. PICK x \in 0..stream.at : x <= floor /\ stream.todo = x + 1..stream.at
    BY <1>1, <1>2 DEF DropSessionInv
<1>8. a \in Nat \cup {NoLoss}
    BY <1>2, <1>6
<1>9. m \in DropSession(Len(log), epoch) /\ m.st = ddur /\ m.pending = {} /\ m.last = NoCursor
      /\ m.lossStart = a
    <2> HIDE DEF a
    <2>1. {} \in SUBSET (1..Len(log)) /\ FALSE \in BOOLEAN
        OBVIOUS
    <2>2. m \in DropSession(Len(log), epoch)
        BY <1>2, <1>8, <2>1 DEF DropSession
    <2>3. m.st = ddur /\ m.pending = {} /\ m.last = NoCursor /\ m.lossStart = a
        BY <1>2, <1>6 DEF DropSession
    <2> QED BY <2>2, <2>3
<1>10. K \subseteq L /\ dtaken \subseteq t /\ t \subseteq 1..Len(log)
    <2>1. dtaken \subseteq 1..Len(log) /\ 1..floor \subseteq 1..Len(log)
        BY <1>2 DEF DropboxInv
    <2>2. dtaken \subseteq t /\ t \subseteq 1..Len(log)
        BY <2>1
    <2> HIDE DEF t
    <2> QED BY <2>2, KeptGrows
<1>11. a # NoLoss => Dated(a, L)
    <2>1. Dated(ddur.lastRec, K)
        BY DEF DropboxInv
    <2> HIDE DEF L, K
    <2>2. Dated(ddur.lastRec, L)
        BY <1>10, <2>1, DatedGrows
    <2> QED BY <1>2, <1>6, <2>2
<1>12. a = NoLoss => 1..x \subseteq L
    <2>1. a = NoLoss => ~dsess.hadCursor
        BY <1>2 DEF NoLoss
    <2>2. ~dsess.hadCursor => 1..floor \subseteq L
        BY DEF Kept
    <2>3. 1..x \subseteq 1..floor
        BY <1>2, <1>7
    <2> QED BY <2>1, <2>2, <2>3
<1> HIDE DEF m, s, t, K, L, a
<1>13. DropSessionInv(m, s, L, floor)
    <2>1. \E y \in 0..s.at : s.todo = y + 1..s.at /\ (m.lossStart = NoLoss => 1..y \subseteq L)
        BY <1>5, <1>7, <1>9, <1>12
    <2> QED BY <1>5, <1>9, <1>11, <2>1 DEF DropSessionInv, Covers
<1> QED BY <1>3, <1>4, <1>9, <1>10, <1>13, DGoKeeps DEF L, K

LEMMA DropboxSyncedKeeps ==
    ASSUME DropboxInv, DropboxSynced
    PROVE  DropboxInv' /\ Kept(box, dtaken, ddur.seq) \subseteq settled' /\ log' = log
<1> DEFINE s == AfterSynced
           c == CursorAt(stream.at)
           t == dtaken \cup (IF dsess.lossStart = NoLoss THEN {} ELSE 1..stream.at)
           m == [dsess EXCEPT !.last = c, !.lossStart = NoLoss]
           K == Kept(box, dtaken, ddur.seq)
           L == Kept(box, t, ddur.seq)
<1>1. /\ dsess.on /\ stream.phase \in {"resume", "replay"} /\ stream.todo = {}
      /\ DFlush(m, s, c, t, FALSE) \/ DFail(m, c, t) \/ DFail(m, NoCursor, dtaken)
    BY DEF DropboxSynced, IsSynced
<1>2. /\ FeedOK /\ StreamOK /\ Len(log) \in Nat /\ dsess \in DropSession(Len(log), epoch)
      /\ dsess.st = ddur /\ DropSessionInv(dsess, stream, K, floor)
      /\ stream.at \in Nat /\ stream.at <= Len(log)
    BY <1>1, DropFacts DEF FeedOK, StreamState
<1>3. c \in CursorsTo(Len(log), epoch) /\ c.pos = stream.at /\ c # NoCursor
    BY <1>2, CursorAtOK DEF CursorsTo, CursorOK
<1>4. s.phase = "live" /\ s.at = stream.at
    BY <1>2, MarkTaken
<1>5. dsess.lossStart = NoLoss => 1..stream.at \subseteq K \cup dsess.pending
    <2>1. CASE stream.phase = "resume"
        BY <1>2, <2>1 DEF DropSessionInv
    <2>2. CASE stream.phase = "replay"
        <3>1. PICK x \in 0..stream.at :
                /\ stream.todo = x + 1..stream.at
                /\ dsess.lossStart = NoLoss => 1..x \subseteq K \cup dsess.pending
            <4> HIDE DEF K
            <4> QED BY <1>2, <2>2 DEF DropSessionInv
        <3>2. x = stream.at
            <4>1. CASE x < stream.at
                <5>1. x + 1 \in stream.todo
                    BY <1>2, <3>1, <4>1
                <5> QED BY <1>1, <5>1
            <4> QED BY <1>2, <4>1
        <3> QED BY <3>1, <3>2
    <2> QED BY <1>1, <2>1, <2>2
<1>6. /\ dtaken \subseteq t /\ t \subseteq 1..Len(log) /\ K \subseteq L
      /\ 1..stream.at \subseteq L \cup dsess.pending
    <2>1. stream.at < Len(log) \/ stream.at = Len(log)
        BY <1>2
    <2> QED BY <1>1, <1>2, <1>5, <2>1, GapClosed
<1>7. m \in DropSession(Len(log), epoch) /\ m.st = ddur /\ m.pending = dsess.pending
      /\ m.last = c /\ m.lossStart = NoLoss
    <2>1. NoLoss \in Nat \cup {NoLoss}
        OBVIOUS
    <2> HIDE DEF c
    <2>2. m \in DropSession(Len(log), epoch)
        BY <1>2, <1>3, <2>1 DEF DropSession
    <2>3. m.st = ddur /\ m.pending = dsess.pending /\ m.last = c /\ m.lossStart = NoLoss
        BY <1>2 DEF DropSession
    <2> QED BY <2>2, <2>3
<1> HIDE DEF m, s, t, K, L, c
<1>8. Covers(c, L \cup m.pending)
    BY <1>3, <1>6, <1>7 DEF Covers
<1>9. \A p \in m.pending : 1..p \subseteq K \cup m.pending /\ 1..p \subseteq L \cup m.pending
    BY <1>2, <1>6, <1>7 DEF DropSessionInv
<1>10. DropSessionInv(m, s, L, floor)
    BY <1>4, <1>6, <1>7, <1>8, <1>9 DEF DropSessionInv
<1>11. CASE DFlush(m, s, c, t, FALSE)
    <2>1. FeedOK' /\ StreamOK'
        <3>1. stream' = AfterSynced /\ UNCHANGED <<log, floor, epoch, faults>>
            BY <1>11 DEF DFlush, s
        <3> QED BY <1>2, <3>1, MarkTakenOK DEF FeedOK
    <2> QED BY <1>3, <1>6, <1>7, <1>8, <1>10, <1>11, <2>1, DFlushKeeps DEF L, K
<1>12. CASE DFail(m, c, t)
    BY <1>3, <1>6, <1>7, <1>8, <1>9, <1>12, DFailKeeps DEF L, K
<1>13. CASE DFail(m, NoCursor, dtaken)
    <2>1. NoCursor \in CursorsTo(Len(log), epoch) /\ Covers(NoCursor, K \cup m.pending)
        BY DEF CursorsTo, Covers
    <2>2. dtaken \subseteq 1..Len(log)
        BY DEF DropboxInv
    <2> QED BY <1>7, <1>9, <1>13, <2>1, <2>2, DFailKeeps DEF K
<1> QED BY <1>1, <1>11, <1>12, <1>13

LEMMA DropboxRollKeeps ==
    ASSUME DropboxInv, DropboxRoll \/ (DropboxClosed /\ dsess.pending # {})
    PROVE  DropboxInv' /\ Kept(box, dtaken, ddur.seq) \subseteq settled' /\ log' = log
<1> DEFINE K == Kept(box, dtaken, ddur.seq)
<1>1. /\ dsess.on
      /\ \/ DFlush(dsess, stream, dsess.last, dtaken, FALSE)
         \/ DFlush(dsess, stream, dsess.last, dtaken, TRUE)
         \/ DFail(dsess, dsess.last, dtaken)
    BY DEF DropboxRoll, DropboxClosed
<1>2. /\ FeedOK /\ StreamOK /\ dsess \in DropSession(Len(log), epoch)
      /\ dsess.st = ddur /\ DropSessionInv(dsess, stream, K, floor)
      /\ dsess.last \in CursorsTo(Len(log), epoch) /\ dtaken \subseteq 1..Len(log)
    BY <1>1, DropFacts DEF DropboxInv
<1>3. /\ Covers(dsess.last, K \cup dsess.pending)
      /\ \A p \in dsess.pending : 1..p \subseteq K \cup dsess.pending
    BY <1>2 DEF DropSessionInv
<1>4. CASE DFail(dsess, dsess.last, dtaken)
    BY <1>2, <1>3, <1>4, DFailKeeps
<1>5. ASSUME NEW end \in BOOLEAN, DFlush(dsess, stream, dsess.last, dtaken, end)
      PROVE  DropboxInv' /\ K \subseteq settled' /\ log' = log
    <2>1. stream' \in {stream, Off} /\ UNCHANGED <<log, floor, epoch, faults>>
        BY <1>5 DEF DFlush
    <2>2. FeedOK' /\ StreamOK'
        BY <1>2, <2>1, MarkTakenOK DEF FeedOK
    <2> QED BY <1>2, <1>3, <1>5, <2>2, DFlushKeeps
<1> QED BY <1>1, <1>4, <1>5

LEMMA DropboxEndKeeps ==
    ASSUME DropboxInv, DropboxResync \/ DropboxCrash \/ (DropboxClosed /\ dsess.pending = {})
    PROVE  DropboxInv' /\ Kept(box, dtaken, ddur.seq) \subseteq settled' /\ log' = log
<1>0. DEnd /\ (faults' = faults \/ (faults > 0 /\ faults' = faults - 1))
    <2>1. CASE DropboxResync \/ DropboxCrash
        BY <2>1 DEF DropboxResync, DropboxCrash
    <2>2. CASE DropboxClosed /\ dsess.pending = {}
        BY <2>2 DEF DropboxClosed
    <2> QED BY <2>1, <2>2
<1>1. /\ dsess' = DIdle /\ stream' = Off /\ ~dsess'.on
      /\ UNCHANGED <<consumer, log, floor, epoch, settled, ddur, box, dtaken>>
    BY <1>0 DEF DEnd, DIdle
<1>2. faults' \in Nat
    BY <1>0, DropFacts DEF FeedOK
<1>3. FeedOK' /\ StreamOK'
    BY <1>1, <1>2, DropFacts, MarkTakenOK
<1>4. Kept(box, dtaken, ddur.seq) \subseteq settled
    BY KeptIsDelivered DEF DropboxInv
<1> QED BY <1>1, <1>3, <1>4 DEF DropboxInv

\* The consumer of the dropbox takes a tarball away: what it held is delivered.
LEMMA DropboxCollectKeeps ==
    ASSUME DropboxInv, DropboxCollect
    PROVE  DropboxInv' /\ Kept(box, dtaken, ddur.seq) \subseteq settled' /\ log' = log
<1>1. PICK x \in box : box' = box \ {x} /\ dtaken' = dtaken \cup x.recs
    BY DEF DropboxCollect
<1>2. UNCHANGED <<consumer, log, floor, epoch, stream, settled, faults, ddur, dsess>>
    BY DEF DropboxCollect
<1> DEFINE K == Kept(box, dtaken, ddur.seq)
           L == Kept(box', dtaken', ddur.seq)
<1>3. K \subseteq L
    BY <1>1 DEF Kept
<1>4. Delivered(box', dtaken') = Delivered(box, dtaken)
    BY <1>1 DEF Delivered
<1>5. FeedOK' /\ StreamOK'
    BY <1>2, DropFacts, MarkTakenOK DEF FeedOK
<1>6. (\A y \in box' : TarballOK(y, Len(log))) /\ dtaken' \subseteq 1..Len(log)
    BY <1>1 DEF DropboxInv, TarballOK
<1>7. K \subseteq settled
    BY KeptIsDelivered DEF DropboxInv
<1>8. Covers(ddur.cursor, K) /\ Dated(ddur.lastRec, K)
      /\ (dsess.on => DropSessionInv(dsess, stream, K, floor))
    BY DEF DropboxInv
<1> HIDE DEF K, L
<1>9. Covers(ddur.cursor, L) /\ Dated(ddur.lastRec, L)
    BY <1>3, <1>8, DatedGrows DEF Covers
<1>10. dsess.on => DropSessionInv(dsess, stream, L, floor)
    <2> SUFFICES ASSUME dsess.on PROVE DropSessionInv(dsess, stream, L, floor)
        OBVIOUS
    <2>1. DropSessionInv(dsess, stream, K, floor)
        BY <1>8
    <2>2. stream.phase = "replay" =>
            \E x_1 \in 0..stream.at :
               /\ stream.todo = x_1 + 1..stream.at
               /\ dsess.lossStart = NoLoss => 1..x_1 \subseteq L \cup dsess.pending
        BY <1>3, <2>1 DEF DropSessionInv
    <2>3. Covers(dsess.last, L \cup dsess.pending)
          /\ \A p \in dsess.pending : 1..p \subseteq L \cup dsess.pending
        BY <1>3, <2>1 DEF DropSessionInv, Covers
    <2>4. dsess.lossStart # NoLoss => Dated(dsess.lossStart, L)
        BY <1>3, <2>1, DatedGrows DEF DropSessionInv
    <2> QED BY <1>3, <2>1, <2>2, <2>3, <2>4 DEF DropSessionInv
<1> QED BY <1>1, <1>2, <1>4, <1>5, <1>6, <1>7, <1>9, <1>10 DEF DropboxInv, L, K

LEMMA DropboxFeedKeeps ==
    ASSUME DropboxInv, FeedNext, UNCHANGED dropvars
    PROVE  DropboxInv' /\ settled' = settled
<1>1. /\ FeedOK' /\ StreamOK' /\ consumer' = consumer /\ settled' = settled
      /\ epoch' >= epoch /\ floor' >= floor
      /\ log' = log \/ Len(log') = Len(log) + 1
      /\ stream'.todo = stream.todo /\ stream'.at = stream.at
      /\ stream'.phase = stream.phase \/ stream'.phase = "closed"
    BY DropFacts, FeedStepOK
<1>2. UNCHANGED <<ddur, dsess, box, dtaken>>
    BY DEF dropvars
<1>3. /\ Len(log) \in Nat /\ Len(log') \in Nat /\ epoch \in Nat /\ epoch' \in Nat /\ floor \in Nat
      /\ floor' \in Nat /\ Len(log) <= Len(log') /\ epoch <= epoch'
    BY <1>1, DropFacts DEF FeedOK
<1> DEFINE n == Len(log)
           k == Len(log')
<1>4. CursorsTo(n, epoch) \subseteq CursorsTo(k, epoch') /\ 1..n \subseteq 1..k /\ 0..n \subseteq 0..k
    BY <1>3 DEF CursorsTo, Cursor
<1>5. DropState(n, epoch) \subseteq DropState(k, epoch')
    BY <1>4 DEF DropState
<1>6. DropSession(n, epoch) \subseteq DropSession(k, epoch')
    BY <1>4, <1>5 DEF DropSession
<1>7. (\A x \in box : TarballOK(x, k)) /\ dtaken \subseteq 1..k
    BY <1>4 DEF DropboxInv, TarballOK
<1>8. dsess.on => DropSessionInv(dsess, stream', Kept(box, dtaken, ddur.seq), floor')
    <2> SUFFICES ASSUME dsess.on
                 PROVE  DropSessionInv(dsess, stream', Kept(box, dtaken, ddur.seq), floor')
        OBVIOUS
    <2>1. DropSessionInv(dsess, stream, Kept(box, dtaken, ddur.seq), floor)
        BY DropFacts
    <2>2. stream'.phase = "reset" =>
              \E x \in 0..stream'.at : x <= floor' /\ stream'.todo = x + 1..stream'.at
        <3> SUFFICES ASSUME stream'.phase = "reset"
                     PROVE  \E x \in 0..stream'.at : x <= floor' /\ stream'.todo = x + 1..stream'.at
            OBVIOUS
        <3>1. PICK x \in 0..stream.at : x <= floor /\ stream.todo = x + 1..stream.at
            BY <1>1, <2>1 DEF DropSessionInv
        <3>2. stream.at \in Nat /\ x <= floor'
            BY <1>1, <1>3, <3>1, DropFacts DEF FeedOK, StreamState
        <3> QED BY <1>1, <3>1, <3>2
    <2> QED BY <1>1, <2>1, <2>2 DEF DropSessionInv
<1> HIDE DEF n, k
<1> QED BY <1>1, <1>2, <1>5, <1>6, <1>7, <1>8 DEF DropboxInv, n, k

LEMMA DropboxDurable == DropboxInv => DeliveredOK
<1> SUFFICES ASSUME DropboxInv PROVE DeliveredOK
    OBVIOUS
<1>1. Durable = Position(ddur.cursor)
    BY DEF DropboxInv, Durable
<1>2. settled \subseteq 1..Len(log) /\ Len(log) \in Nat
    BY DropFacts DEF DropboxInv, Delivered, TarballOK
<1>3. CASE ddur.cursor = NoCursor
    BY <1>1, <1>2, <1>3 DEF Position, DeliveredOK
<1>4. CASE ddur.cursor # NoCursor
    <2>1. ddur.cursor.pos \in Nat /\ ddur.cursor.pos <= Len(log)
        BY <1>4, DropFacts DEF CursorsTo, Cursor
    <2>2. 1..ddur.cursor.pos \subseteq settled
        BY <1>4, KeptIsDelivered DEF DropboxInv, Covers
    <2> QED BY <1>1, <1>2, <1>4, <2>1, <2>2 DEF Position, DeliveredOK
<1> QED BY <1>3, <1>4

LEMMA DropboxKeeps ==
    ASSUME DropboxInv, DropboxNext
    PROVE  DropboxInv' /\ (D!DChange \/ D!DConsume \/ UNCHANGED D!dvars)
<1>0. DropboxInv' => DeliveredOK'
    BY DropboxDurable, PTL
<1>1. ASSUME DropboxInv', Kept(box, dtaken, ddur.seq) \subseteq settled', log' = log PROVE D!DConsume
    <2>1. 1..Durable \subseteq Kept(box, dtaken, ddur.seq)
        <3>1. Durable = Position(ddur.cursor)
            BY DEF DropboxInv, Durable
        <3> QED BY <3>1 DEF Position, DropboxInv, Covers
    <2> QED BY <1>0, <1>1, <2>1, IsConsume
<1>2. CASE FeedNext /\ UNCHANGED dropvars
    <2>1. DropboxInv' /\ settled' = settled
        BY <1>2, DropboxFeedKeeps
    <2>2. CASE log' = log
        BY <1>1, <2>1, <2>2, KeptIsDelivered DEF DropboxInv
    <2>3. CASE log' # log
        <3>1. Len(log') = Len(log) + 1 /\ consumer' = consumer /\ consumer = "dropbox"
            BY <1>2, <2>3, FeedStepOK DEF DropboxInv
        <3>2. Durable' = Durable
            BY <1>2, <3>1 DEF Durable, Position, dropvars
        <3>3. D!DChange
            BY <2>1, <3>1, <3>2 DEF D!DChange
        <3> QED BY <2>1, <3>3
    <2> QED BY <2>2, <2>3
<1>3. CASE DropboxStep \/ DropboxCrash \/ DropboxCollect
    <2>1. DropboxInv' /\ Kept(box, dtaken, ddur.seq) \subseteq settled' /\ log' = log
        BY <1>3, DropboxStartKeeps, DropboxUndecodableKeeps, DropboxUpsertKeeps, DropboxResetKeeps,
           DropboxSyncedKeeps, DropboxRollKeeps, DropboxEndKeeps, DropboxCollectKeeps DEF DropboxStep
    <2> QED BY <1>1, <2>1
<1> QED BY <1>2, <1>3 DEF DropboxNext

=============================================================================
