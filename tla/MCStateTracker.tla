---------------------------- MODULE MCStateTracker ----------------------------
(***************************************************************************)
(* Instances of StateTracker for TLC.                                      *)
(***************************************************************************)
EXTENDS StateTracker

\* Two epochs with ids like 1 and 12: the first is a prefix of the second.
Prefixes == [e \in Epoch |-> IF e = 1 THEN Epoch ELSE {e}]
=============================================================================
