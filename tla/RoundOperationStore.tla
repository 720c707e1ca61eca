------------------------ MODULE RoundOperationStore -------------------------
(***************************************************************************)
(* What RoundOperationStore promises the rest of the daemon: the only ways *)
(* the session's durable row ever changes. A caller names the exact        *)
(* revision it read; a caller that names another gets a conflict and       *)
(* changes nothing, so an action here is a call that was accepted.         *)
(***************************************************************************)
EXTENDS RoundOperation

VARIABLE row
vars == <<row>>

Init == row = NoRow

(* claimOrReplaceReturned: an idle session, or a handed-back completion    *)
(* nobody queued behind.                                                   *)
Claim ==
  /\ ~Present(row) \/ (Returned(row) /\ ~row.rerun)
  /\ row' = NewOperation(row'.op, row'.dispatch)
  /\ row'.op \in Nat \ {0, row.op}
  /\ row'.dispatch \in Dispatch

CompareAndSwap ==
  /\ Present(row)
  /\ row'.state \in State
  /\ LegalTransition(row, row'.state)
  /\ row' = Swapped(row, row'.state)

RequestRerun ==
  /\ Present(row)
  /\ ~row.rerun
  /\ row' = Requeued(row)

(* replaceAfterDrain: the successor a queued rerun asked for.              *)
ReplaceAfterDrain ==
  /\ Present(row) /\ IsTerminal(row) /\ row.rerun
  /\ row' = NewOperation(row'.op, row'.dispatch)
  /\ row'.op \in Nat \ {0, row.op}
  /\ row'.dispatch \in Dispatch

(* clear refuses a queued rerun; clearAfterDrain allows one, its caller    *)
(* having found the queue empty.                                           *)
Clear ==
  /\ Present(row) /\ IsTerminal(row)
  /\ row' = NoRow

Next ==
  \/ Claim
  \/ CompareAndSwap
  \/ RequestRerun
  \/ ReplaceAfterDrain
  \/ Clear

Spec == Init /\ [][Next]_vars
=============================================================================
