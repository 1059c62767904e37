------------------------------ MODULE MCJobAds ------------------------------
(***************************************************************************)
(* TLC instances of JobAds: one cluster.                                   *)
(***************************************************************************)
EXTENDS JobAds

CONSTANT c1

OneParent == [p \in Proc |-> c1]
=============================================================================
