------------------------------ MODULE Delivery ------------------------------
(***************************************************************************)
(* What a consumer of a change feed promises, whatever it does with the    *)
(* changes: at-least-once delivery.  The position it resumes from after a  *)
(* crash (durable) never passes a change that has not settled.  A change   *)
(* has settled once it, or a later change of the same row, has reached the *)
(* destination, or once the consumer has reported that it cannot.          *)
(*                                                                         *)
(* kafkasync/state.go, opensearchsync/state.go and archivedropbox/state.go *)
(* state this promise in the comment on State; federate/archivesink.go     *)
(* states it in the comment on Flush.                                      *)
(***************************************************************************)
EXTENDS Naturals

VARIABLES
    changes,   \* how many changes the source has made
    settled,   \* the changes that have reached their destination
    durable    \* the position stored by the consumer; 0 when it has none

dvars == <<changes, settled, durable>>

DInit == changes = 0 /\ settled = {} /\ durable = 0

\* The source changes a row.
DChange == changes' = changes + 1 /\ UNCHANGED <<settled, durable>>

\* The consumer settles some changes and then stores a position.  It may also
\* store an earlier one, or none, and a change past the stored position may be
\* undone: both only repeat work.
DConsume ==
    /\ changes' = changes
    /\ settled' \subseteq 1..changes
    /\ settled \cap 1..durable \subseteq settled'
    /\ durable' \in 0..changes
    /\ 1..durable' \subseteq settled'

DSpec == DInit /\ [][DChange \/ DConsume]_dvars
=============================================================================
