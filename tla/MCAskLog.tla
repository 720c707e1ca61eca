------------------------------ MODULE MCAskLog ------------------------------
(***************************************************************************)
(* AskLog on a small instance: two places on one path, so that a path is   *)
(* emptied and a path is not.                                              *)
(***************************************************************************)
EXTENDS AskLog

CONSTANTS a1, a2, b1, b2

MCPlace == {[path |-> "p", line |-> n] : n \in {1, 2}}
AskKinds == {"stage", "unstage", "edit", "retire", "restore"}
AllKinds == AskKinds \cup {"finding-dismiss", "finding-restore", "quote-open",
  "quote-reply", "quote-close", "verdict-override-set", "verdict-override-clear",
  "line-comment-set", "line-comment-clear"}
AskSymmetry == Permutations({a1, a2}) \cup Permutations({b1, b2})
=============================================================================
