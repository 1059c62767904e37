---------------------------- MODULE MCTableSink ----------------------------
(***************************************************************************)
(* TLC instances of TableSink.                                             *)
(***************************************************************************)
EXTENDS TableSink
=============================================================================
