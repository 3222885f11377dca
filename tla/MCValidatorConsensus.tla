------------------------ MODULE MCValidatorConsensus ------------------------
(***************************************************************************)
(* Instances of ValidatorConsensus for TLC.                                *)
(***************************************************************************)
EXTENDS ValidatorConsensus

CONSTANTS v1, v2, a

\* The batch of v1 may be delivered twice, that of v2 once.
Deliveries == [v \in Remote |-> IF v = v1 THEN 2 ELSE 1]

\* The project is in the batch of v1 only, in its data, and in some instances
\* in its metadata or in that of v2 too.
OneVoter == {[v \in Remote |->
                [data |-> [p \in Project |-> IF v = v1 THEN a ELSE None],
                 meta |-> [p \in Project |-> IF v \in named THEN a ELSE None]]] :
               named \in {{}, {v1}, {v2}}}
=============================================================================
