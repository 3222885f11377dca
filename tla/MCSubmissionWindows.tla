------------------------ MODULE MCSubmissionWindows ------------------------
(***************************************************************************)
(* Instances of SubmissionWindows for TLC.                                 *)
(***************************************************************************)
EXTENDS SubmissionWindows

CONSTANTS e1, e2, e3

Log(e, b, ours) == [epoch |-> e, block |-> b, ours |-> ours]

(* Two logs in one block, a log of another market, and a second log of e1  *)
(* (the transaction was included again after a reorganisation).            *)
Released == << Log(e1, 1, TRUE), Log(e2, 2, TRUE), Log(e2, 2, FALSE),
               Log(e1, 3, TRUE), Log(e3, 3, TRUE) >>

=============================================================================
