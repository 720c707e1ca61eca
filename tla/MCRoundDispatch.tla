--------------------------- MODULE MCRoundDispatch ---------------------------
(***************************************************************************)
(* RoundDispatch on a small instance. A dispatch names a patchset captured *)
(* by one of at most MaxOps operations and occurrences of asks at one of   *)
(* the MaxSeq first log positions: MaxEdits edits and the daemon's own     *)
(* unstage events between them.                                            *)
(* OneDisturbance: an effect fails or the daemon crashes, not both; and a  *)
(* failing effect comes with a second edit or a retry, not both.           *)
(* LateCommit: a second changed round, which takes a second commit, only   *)
(* in the behaviours with one edit, a crash and a retry: there a dispatch  *)
(* that has finished may be kicked again.                                  *)
(***************************************************************************)
EXTENDS RoundDispatch, TLC

CONSTANTS MaxOps, MaxSeq

MCDispatch == [ps : 0..MaxOps, asks : SUBSET [ask : Ask, rev : 1..MaxSeq]]
OneDisturbance == faults + crashes <= 1 /\ edits + retries + faults <= 3
LateCommit == head > 1 => crashes > 0 /\ retries > 0 /\ edits = 1
AskSymmetry == Permutations(Ask)
=============================================================================
