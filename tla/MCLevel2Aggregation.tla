------------------------ MODULE MCLevel2Aggregation ------------------------
(***************************************************************************)
(* Instances of Level2Aggregation for TLC.                                 *)
(***************************************************************************)
EXTENDS Level2Aggregation

=============================================================================
