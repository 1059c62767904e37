----------------------------- MODULE MCJobSync -----------------------------
(***************************************************************************)
(* TLC instances of JobSync: one job and one cluster key, in two tables.   *)
(***************************************************************************)
EXTENDS JobSync, TLC

CONSTANTS k1, k2

\* The tailer only compares inodes.
InodeSymmetry == Permutations(Inode)

MCTableOf == (k1 :> "jobs") @@ (k2 :> "clusters")
=============================================================================
