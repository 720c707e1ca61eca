--------------------------- MODULE RoundOperation ---------------------------
(***************************************************************************)
(* The durable round operation: one row per session in SQLite, from the    *)
(* protocol schema and packages/adapters/src/round-operation-store.ts.     *)
(* This module is the vocabulary the other modules share: the row, the     *)
(* phases of its state, and which state may follow which.                  *)
(*                                                                         *)
(* Receipts are abstracted to what decides a later step: the head the      *)
(* workspace started from (base), the worker attempt's execution id        *)
(* (exec), whether the settled worker and the observed commit range carry  *)
(* a change (worker, commits), and the revision at which the report        *)
(* handoff was last persisted (epoch, 0 before there is one).              *)
(***************************************************************************)
EXTENDS Naturals

CONSTANTS Dispatch,     \* identities of dispatches: patchset and ask occurrences
          NoDispatch    \* the dispatch of the absent row

ASSUME NoDispatchAssumption == NoDispatch \notin Dispatch

FailurePoint == {"preparing", "worker", "committing", "round-recording",
                 "report-drafting", "report-verifying"}

Phase == {"claimed", "prepared", "worker-running", "worker-settled",
          "committing", "commits-settled", "round-recording",
          "round-recorded", "report-drafting", "report-verifying",
          "completed", "failed"}

State == [phase : Phase, at : FailurePoint \cup {"none"}, base : Nat,
          exec : Nat, worker : BOOLEAN, commits : BOOLEAN, epoch : Nat,
          result : {"none", "changed", "unchanged"}, returned : BOOLEAN]

Claimed == [phase |-> "claimed", at |-> "none", base |-> 0, exec |-> 0,
            worker |-> FALSE, commits |-> FALSE, epoch |-> 0,
            result |-> "none", returned |-> FALSE]

Row == [op : Nat, dispatch : Dispatch \cup {NoDispatch}, rev : Nat,
        rerun : BOOLEAN, state : State]

(* Operation ids count up from 1; id 0 is "the session has no row".        *)
NoRow == [op |-> 0, dispatch |-> NoDispatch, rev |-> 0, rerun |-> FALSE,
          state |-> Claimed]

NewOperation(id, d) == [op |-> id, dispatch |-> d, rev |-> 0,
                        rerun |-> FALSE, state |-> Claimed]

Present(r) == r.op # 0
IsTerminal(r) == r.state.phase \in {"completed", "failed"}
Returned(r) == r.state.phase = "completed" /\ r.state.returned

-----------------------------------------------------------------------------
(* Transitions.                                                            *)

(* The phase an effect runs in, by the failure it reports.                 *)
FailsIn(at) ==
  CASE at = "preparing" -> "claimed"
    [] at = "worker"    -> "worker-running"
    [] OTHER            -> at

(* The phase Retry resumes from: a failed worker runs again from its       *)
(* prepared workspace, everything later repeats the failed effect.         *)
RetryPhase(at) ==
  CASE at = "preparing" -> "claimed"
    [] at = "worker"    -> "prepared"
    [] OTHER            -> at

(* Fault: the failure point is written where the phase belongs.            *)
FailAtPoint(s, point) == [s EXCEPT !.phase = point, !.at = point]

Fail(s, point) == [s EXCEPT !.phase = "failed", !.at = point]

(* Faults: Retry forgets the handoff, or resumes the phase that failed.    *)
RetryWithoutHandoff(s) ==
  [s EXCEPT !.phase = RetryPhase(s.at), !.at = "none", !.epoch = 0,
            !.exec = IF s.at = "worker" THEN 0 ELSE @]
RetryFailedPhase(s) == [s EXCEPT !.phase = FailsIn(s.at), !.at = "none"]

RetryState(s) ==
  [s EXCEPT !.phase = RetryPhase(s.at), !.at = "none",
            !.exec = IF s.at = "worker" THEN 0 ELSE @]

Keeps(c, n, fields) == \A f \in fields : c[f] = n[f]

Settled == {"base", "exec", "worker", "commits", "epoch"}

ChangedEvidence(s) == s.worker /\ s.commits

(* A drafting row may only renew its handoff: same content, stamped with   *)
(* the revision this very write creates.                                   *)
ExtendsHandoffEpoch(r, n) ==
  /\ n.phase = "report-drafting"
  /\ Keeps(r.state, n, {"base", "exec", "worker", "commits"})
  /\ n.epoch = r.rev + 1

LegalTransition(r, n) ==
  LET c == r.state
      Step(from, to, fields) ==
        c.phase = from /\ n.phase = to /\ Keeps(c, n, fields)
  IN  \/ Step("claimed", "prepared", {})
      \/ Step("prepared", "worker-running", {"base"})
      \/ Step("worker-running", "worker-settled", {"base", "exec"})
      \/ Step("worker-settled", "committing", {"base", "exec", "worker"})
      \/ Step("committing", "commits-settled", {"base", "exec", "worker"})
      \/ Step("commits-settled", "round-recording", Settled)
      \/ Step("round-recording", "round-recorded", Settled)
      \/ Step("round-recorded", "report-drafting", Settled)
           /\ ChangedEvidence(c)
      \/ Step("round-recorded", "completed", Settled)
           /\ n.result = "unchanged"
      \/ c.phase = "report-drafting" /\ ExtendsHandoffEpoch(r, n)
      \/ Step("report-drafting", "report-verifying", Settled)
      \/ Step("report-verifying", "completed", Settled)
           /\ n.result = "changed"
      \/ /\ n.phase = "failed" /\ n.at \in FailurePoint
         /\ Step(FailsIn(n.at), "failed", Settled)
      \/ Step("completed", "completed", Settled \cup {"result"})
           /\ ~c.returned /\ n.returned
      \/ /\ c.phase = "failed"
         /\ n.phase = RetryPhase(c.at)
         /\ Keeps(c, n, IF c.at = "worker" THEN {"base"} ELSE Settled)

-----------------------------------------------------------------------------
(* Writes.                                                                 *)

Swapped(r, n) == [r EXCEPT !.state = n, !.rev = @ + 1]
Requeued(r) == IF r.rerun THEN r
               ELSE [r EXCEPT !.rerun = TRUE, !.rev = @ + 1]
=============================================================================
