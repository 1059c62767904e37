----------------------------- MODULE Replicator -----------------------------
(***************************************************************************)
(* ha/leaderfollower: a follower applies the leader's commits of a table   *)
(* to its own copy, in memory noting the cursor of each event; a timer     *)
(* writes the cursor to a file.  A replay empties the table first and its  *)
(* rows carry no cursor, so a replay that is cut off is started again.     *)
(*                                                                         *)
(* Rows are committed without a sync and survive the crash of the process, *)
(* not the loss of the machine; that fault is left out.                    *)
(***************************************************************************)
EXTENDS ChangeFeed

VARIABLES
    local,    \* the follower's rows, each with the last change that it shows
    rcur,     \* the cursor in memory, and whether it changed since the last flush
    rdisk,    \* the cursor file; an empty file is no cursor
    rup       \* "down", "up" (no session) or "session"

replvars == <<local, rcur, rdisk, rup>>

Empty == [k \in Key |-> [val |-> NoRow, pos |-> 0]]

ReplicatorInit ==
    /\ local = Empty /\ rup = "down"
    /\ rcur = [cursor |-> NoCursor, dirty |-> FALSE] /\ rdisk = NoCursor

Shown(l) == {j \in 1..Len(log) : l[log[j].key].pos >= j}

\* NewReplicator and loadCursors.
ReplicatorBoot ==
    /\ rup = "down" /\ rup' = "up"
    /\ rcur' = [cursor |-> rdisk, dirty |-> FALSE]
    /\ UNCHANGED <<feedVars, local, rdisk>>

\* session and watchTable.
ReplicatorStart ==
    /\ rup = "up" /\ rup' = "session"
    /\ stream' = OpenStream(rcur.cursor)
    /\ UNCHANGED <<consumer, log, floor, epoch, settled, faults, local, rcur, rdisk>>

\* applyEvent: the rows, then the cursor that came with the event.
Applied(l, cur, s) ==
    /\ local' = l /\ settled' = Shown(l)
    /\ rcur' = [cursor |-> cur, dirty |-> TRUE]
    /\ stream' = s
    /\ UNCHANGED <<consumer, log, floor, epoch, faults, rdisk, rup>>

ReplicatorUpsert ==
    /\ rup = "session" /\ HasChange /\ log[NextChange].val \notin Opaque
    /\ LET e == log[NextChange]
       IN  Applied([local EXCEPT ![e.key] = [val |-> e.val, pos |-> NextChange]],
                   ChangeCursor, AfterChange)

\* (Mutant: the rows of before the Reset are kept.)
ClearedNot(l) == l

\* clearTable.
Cleared(l) == Empty

\* The Reset event has no cursor, so from here on there is none.
ReplicatorReset ==
    /\ rup = "session" /\ IsReset
    /\ Applied(Cleared(local), NoCursor, AfterReset)

\* Synced.  After a replay, a row that is absent is known to be gone.
ReplicatorSynced ==
    /\ rup = "session" /\ IsSynced
    /\ Applied(IF stream.phase = "replay"
                 THEN [k \in Key |-> IF local[k].val = NoRow
                                       THEN [local[k] EXCEPT !.pos = stream.at] ELSE local[k]]
                 ELSE local,
               CursorAt(stream.at), AfterSynced)

\* The stream ends, WatchResync is not handled and a closed stream follows it,
\* an event's ad cannot be decoded (ev.Err, met again by the next session), or a
\* commit fails; the session is torn down and Run starts another.
ReplicatorEnd ==
    /\ rup = "session"
    /\ \/ /\ \/ Overrun \/ stream.phase = "closed"
             \/ HasChange /\ log[NextChange].val \in Opaque
          /\ UNCHANGED faults
       \/ faults > 0 /\ faults' = faults - 1
    /\ rup' = "up" /\ stream' = Off
    /\ UNCHANGED <<consumer, log, floor, epoch, settled, local, rcur, rdisk>>

\* flushCursors: a failed write is logged and not tried again before the
\* cursor changes.
ReplicatorFlush ==
    /\ rup # "down" /\ rcur.dirty /\ rcur' = [rcur EXCEPT !.dirty = FALSE]
    /\ \/ rdisk' = rcur.cursor /\ UNCHANGED faults
       \/ faults > 0 /\ faults' = faults - 1 /\ UNCHANGED rdisk
    /\ UNCHANGED <<consumer, log, floor, epoch, stream, settled, local, rup>>

ReplicatorCrash ==
    /\ rup # "down" /\ faults > 0 /\ faults' = faults - 1
    /\ rup' = "down" /\ stream' = Off
    /\ UNCHANGED <<consumer, log, floor, epoch, settled, local, rcur, rdisk>>

ReplicatorStep ==
    \/ ReplicatorBoot \/ ReplicatorStart \/ ReplicatorUpsert \/ ReplicatorReset
    \/ ReplicatorSynced \/ ReplicatorEnd \/ ReplicatorFlush

ReplicatorNext == ReplicatorStep \/ ReplicatorCrash \/ (FeedNext /\ UNCHANGED replvars)
=============================================================================
