----------------------------- MODULE LocalBatch -----------------------------
(***************************************************************************)
(* What Level 1 aggregation promises to its readers (the broadcast, Level  *)
(* 2 aggregation, the monitoring API): the key finalized:{epoch} appears   *)
(* at most once, holds some of the epoch's parts and does not change while *)
(* Level 1 is the only writer.                                             *)
(***************************************************************************)
EXTENDS Integers

CONSTANTS Epoch, TotalParts

VARIABLE batch

Absent == {-1}

Init == batch = [e \in Epoch |-> Absent]

Publish(e) ==
  /\ batch[e] = Absent
  /\ \E S \in SUBSET (0 .. TotalParts[e] - 1) :
       batch' = [batch EXCEPT ![e] = S]

Next == \E e \in Epoch : Publish(e)

Spec == Init /\ [][Next]_batch

=============================================================================
