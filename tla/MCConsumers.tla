---------------------------- MODULE MCConsumers ----------------------------
(***************************************************************************)
(* The consumers with record times for archivedropbox.  In MCRecordTime    *)
(* times increase and one record has none.  MCSameSecond is what emitLoss  *)
(* is exposed to: AtLeastOnce does not hold with it.                       *)
(***************************************************************************)
EXTENDS Consumers

MCRecordTime(i) == IF i = 2 THEN 0 ELSE i
MCSameSecond(i) == 1
=============================================================================
