--------------------------- MODULE MCHistorySync ---------------------------
(***************************************************************************)
(* TLC instances of HistorySync: three history files of which one rotated  *)
(* one is kept, so that a rotation can exceed the retention.  Identities   *)
(* are model values; no symmetry, since a run checks a liveness property.  *)
(***************************************************************************)
EXTENDS HistorySync
=============================================================================
