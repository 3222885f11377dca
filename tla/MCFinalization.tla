--------------------------- MODULE MCFinalization ---------------------------
(***************************************************************************)
(* Instances of Finalization for TLC.                                      *)
(***************************************************************************)
EXTENDS Finalization, TLC

CONSTANTS e1, e2

(* One epoch of three parts beside one of two. *)
ThreeAndTwo == (e1 :> 3 @@ e2 :> 2)
Three       == (e1 :> 3)

=============================================================================
