-------------------------- MODULE MCRoundExecution --------------------------
(***************************************************************************)
(* RoundExecution on a small instance: two dispatch identities (one to own *)
(* the session, one to queue behind it), which are interchangeable.        *)
(***************************************************************************)
EXTENDS RoundExecution, TLC

DispatchSymmetry == Permutations(Dispatch)
=============================================================================
