------------------------- MODULE MCSubmissionIntake -------------------------
(***************************************************************************)
(* Instances of SubmissionIntake for TLC.                                  *)
(***************************************************************************)
EXTENDS SubmissionIntake

CONSTANTS s1, s2, bad

Single(s) == [format |-> "single", subs |-> <<s>>]
Batch(ss) == [format |-> "batch", subs |-> ss]

(* A submission that arrives alone and in a batch, beside another one and  *)
(* an invalid one.                                                         *)
Mixed   == {Single(s1), Batch(<<bad, s1, s2>>)}
Singles == {Single(s1), Single(s2)}

=============================================================================
