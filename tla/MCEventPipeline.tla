--------------------------- MODULE MCEventPipeline ---------------------------
(***************************************************************************)
(* Instances of EventPipeline for TLC.                                     *)
(***************************************************************************)
EXTENDS EventPipeline, TLC

CONSTANTS pub, audit

Subscribers == {pub, audit}

\* The publisher takes every event, the other subscriber none but one.
Interest == [s \in Subscribers |->
  IF s = pub THEN Event ELSE {CHOOSE ev \in Event : TRUE}]
=============================================================================
