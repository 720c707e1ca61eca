---------------------------- MODULE PublishedOnce ----------------------------
(***************************************************************************)
(* What publishing a review promises its author: a draft is published or   *)
(* it is not, publishing is never undone by Rennet, and the author is told *)
(* that a draft is out only when all of it is.                             *)
(***************************************************************************)
CONSTANT Drafts

VARIABLES published,  \* drafts whose whole operation is on the forge
          confirmed   \* drafts whose publication Rennet has recorded

vars == <<published, confirmed>>

Init == published = {} /\ confirmed = {}

(* Several drafts of one review may be completed by one approval. *)
Publish == /\ \E S \in SUBSET Drafts : published' = published \cup S
           /\ UNCHANGED confirmed

Confirm == /\ \E d \in published : confirmed' = confirmed \cup {d}
           /\ UNCHANGED published

Next == Publish \/ Confirm

Spec == Init /\ [][Next]_vars
=============================================================================
