------------------------- MODULE MCReviewPublication -------------------------
(* Two drafts, one of them an approval, and two posts that may overlap.     *)
EXTENDS ReviewPublication
CONSTANTS d1, d2
MCDrafts == {d1, d2}
MCApproving == {d1}
=============================================================================
