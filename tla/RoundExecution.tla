--------------------------- MODULE RoundExecution ---------------------------
(***************************************************************************)
(* The durable round coordinator of one session                            *)
(* (packages/server/src/runtime/round-execution.ts) over its row, with the *)
(* effect ports create-server.ts wires into it and the crashes and         *)
(* restarts of the daemon that runs it.                                    *)
(*                                                                         *)
(* The daemon is one JavaScript thread. An action is what runs between two *)
(* points where it can be interrupted: a real await (git, the worker's     *)
(* turn, a model call, the session's board queue), where any other action  *)
(* may run, or a durable write, after which only a crash may intervene.    *)
(* The `Busy' guard says which of the two a state is in.                   *)
(***************************************************************************)
EXTENDS RoundOperation

CONSTANTS MaxRequests,    \* dispatch requests in a behaviour
          MaxRetries,     \* Retry commands
          MaxFaults,      \* effects that reject
          MaxCrashes,     \* daemon crashes
          MaxHead,        \* commits on the branch
          AllowSupersede  \* another process may take over a drafting attempt

ASSUME BoundsAssumption ==
  /\ {MaxRequests, MaxRetries, MaxFaults, MaxCrashes, MaxHead} \subseteq Nat
  /\ AllowSupersede \in BOOLEAN

VARIABLES
  row,        \* durable: the session's operation
  turns,      \* sidecar: worker turns by execution id, surviving a crash
  head,       \* git: how many commits the bound branch carries
  fiber,      \* the drive() promise in `inFlight', or idle
  ready,      \* what runs next: the continuations of a settled drive(),
              \* and the second write of a retry
  recovered,  \* recover() has run since this daemon started
  nextOp, nextExec,                     \* fresh operation and execution ids
  requests, retries, faults, crashes    \* budgets spent

durable == <<row, nextOp>>
outside == <<turns, head, nextExec>>
budgets == <<requests, retries, faults, crashes>>
execVars == <<durable, outside, fiber, ready, recovered, budgets>>

Idle == [pc |-> "idle", op |-> NoRow, decision |-> "none",
         draft |-> NoDispatch, freshOp |-> 0, fresh |-> NoDispatch,
         retryOp |-> 0]
NoContinuation == [freshOp |-> 0, fresh |-> NoDispatch, retryOp |-> 0, renew |-> FALSE]

(* Fault: a restart runs an interrupted worker attempt again.              *)
EffectOfRerunsWorker(phase) ==
  CASE phase = "claimed"          -> "plan"
    [] phase = "worker-running"   -> "launch"
    [] phase = "committing"       -> "settle"
    [] phase = "round-recording"  -> "record"
    [] phase = "report-drafting"  -> "draft"
    [] phase = "report-verifying" -> "verify"
    [] phase \in {"completed", "failed"} -> "drain"
    [] OTHER -> "run"

(* What drive() does on reaching a phase: wait for an effect, or go on     *)
(* ("run") to the next durable write.                                      *)
EffectOf(phase) ==
  CASE phase = "claimed"          -> "plan"
    [] phase = "worker-running"   -> "observe"
    [] phase = "committing"       -> "settle"
    [] phase = "round-recording"  -> "record"
    [] phase = "report-drafting"  -> "draft"
    [] phase = "report-verifying" -> "verify"
    [] phase \in {"completed", "failed"} -> "drain"
    [] OTHER -> "run"

Driving(r) == [Idle EXCEPT !.pc = EffectOf(r.state.phase), !.op = r]
Running == fiber.pc # "idle"

(* drainTerminal waits for the session's board queue only to settle an     *)
(* unchanged round; otherwise its effects follow at once.                  *)
AwaitsBoardQueue(r) == r.state.result = "unchanged" /\ ~r.state.returned

Busy ==
  \/ fiber.pc \in {"run", "recorded", "apply"}
  \/ fiber.pc = "drain" /\ ~AwaitsBoardQueue(fiber.op)
  \/ ready # NoContinuation

Init ==
  /\ row = NoRow
  /\ turns = [e \in {} |-> 0]
  /\ head = 0
  /\ fiber = Idle
  /\ ready = NoContinuation
  /\ recovered = FALSE
  /\ nextOp = 1 /\ nextExec = 1
  /\ requests = 0 /\ retries = 0 /\ faults = 0 /\ crashes = 0

-----------------------------------------------------------------------------
(* Shared pieces.                                                          *)

(* start(): one drive() per session; a running one is shared.              *)
Start(r) == fiber' = IF Running THEN fiber ELSE Driving(r)

(* persist(): compare-and-swap from the fiber's snapshot. A conflict whose *)
(* state is still the snapshot's (only the rerun bit moved) is retried on  *)
(* the latest row; any other adopts the latest row and writes nothing.     *)
PersistWrites == row.state = fiber.op.state
(* Fault: the whole snapshot is written back, its stale rerun bit too.     *)
PersistSnapshot(n, pc) ==
  /\ row.op = fiber.op.op
  /\ row' = [Swapped(fiber.op, n) EXCEPT !.rev = row.rev + 1]
  /\ fiber' = [fiber EXCEPT !.op = row', !.pc = pc]
  /\ UNCHANGED <<nextOp, ready, recovered, requests, retries, crashes>>

Persist(n, pc) ==
  /\ row.op = fiber.op.op
  /\ IF PersistWrites
     THEN /\ row' = Swapped(row, n)
          /\ fiber' = [fiber EXCEPT !.op = Swapped(row, n), !.pc = pc]
     ELSE /\ row' = row
          /\ fiber' = [fiber EXCEPT !.op = row, !.pc = EffectOf(row.state.phase)]
  /\ UNCHANGED <<nextOp, ready, recovered, requests, retries, crashes>>

Settle(n) == Persist(n, EffectOf(n.phase))

(* fail(): the effect rejected, and the failure keeps every receipt.       *)
Reject(point) ==
  /\ faults < MaxFaults
  /\ faults' = faults + 1
  /\ Settle(Fail(fiber.op.state, point))
  /\ UNCHANGED outside

(* The drive() promise settles. Its waiters run next: the fresh submit     *)
(* that awaited the drain only if it resolved, a retry either way.         *)
EndDrive ==
  /\ fiber' = Idle
  /\ ready' = [freshOp |-> fiber.freshOp, fresh |-> fiber.fresh,
               retryOp |-> fiber.retryOp, renew |-> FALSE]
RejectDrive ==
  /\ fiber' = Idle
  /\ ready' = [NoContinuation EXCEPT !.retryOp = fiber.retryOp]

-----------------------------------------------------------------------------
(* drive(): from claimed to a settled worker.                              *)

PlanWorkspace ==
  /\ fiber.pc = "plan"
  /\ \/ Settle([fiber.op.state EXCEPT !.phase = "prepared", !.base = head])
        /\ UNCHANGED <<outside, faults>>
     \/ Reject("preparing")

(* The attempt is durable before the worker starts, and only the writer    *)
(* that persisted it starts one.                                           *)
PersistAttempt ==
  /\ fiber.pc = "run" /\ fiber.op.state.phase = "prepared"
  /\ Persist([fiber.op.state EXCEPT !.phase = "worker-running", !.exec = nextExec], "launch")
  /\ nextExec' = nextExec + 1
  /\ UNCHANGED <<turns, head, faults>>

LaunchWorker ==
  /\ fiber.pc = "launch"
  /\ \/ LET e == fiber.op.state.exec IN
        /\ turns' = [x \in DOMAIN turns \cup {e} |->
             IF x # e THEN turns[x]
             ELSE [op |-> fiber.op.op, status |-> "running",
                   edited |-> FALSE, committed |-> FALSE,
                   launches |-> IF e \in DOMAIN turns THEN turns[e].launches + 1 ELSE 1]]
        /\ fiber' = [fiber EXCEPT !.pc = "turn"]
        /\ UNCHANGED <<durable, head, nextExec, ready, recovered, budgets>>
     \/ Reject("worker")

(* External: the turn ends in the sidecar, whether or not a daemon is      *)
(* watching. It may have committed, left edits uncommitted, failed, or     *)
(* left no checkpoint at all.                                              *)
TurnEnds(e) ==
  /\ e \in DOMAIN turns /\ turns[e].status = "running"
  /\ \E status \in {"ready", "failed", "lost"}, edited \in BOOLEAN, commit \in {0, 1} :
       /\ head + commit <= MaxHead
       /\ status = "lost" => ~edited
       /\ turns' = [turns EXCEPT ![e] = [@ EXCEPT !.status = status, !.edited = edited,
                                                  !.committed = commit = 1]]
       /\ head' = head + commit
  /\ UNCHANGED <<durable, nextExec, fiber, ready, recovered, budgets>>

(* observeRoundCommits: whether the range from the base to HEAD holds a    *)
(* commit. (A base that is no ancestor any more rejects.)                  *)
BranchGained(base) == head > base

(* A completed receipt: the checkpoint's own diff, or else whatever the    *)
(* branch gained since the workspace was planned.                          *)
WorkerReceipt(e) == turns[e].edited \/ BranchGained(fiber.op.state.base)

(* Fault: a turn still running, or lost, passes for a finished one.        *)
SettleUnfinishedWorker(e) ==
  Settle(IF turns[e].status # "failed"
         THEN [fiber.op.state EXCEPT !.phase = "worker-settled",
                                     !.worker = WorkerReceipt(e)]
         ELSE Fail(fiber.op.state, "worker"))

SettleWorker(e) ==
  Settle(IF e \in DOMAIN turns /\ turns[e].status = "ready"
         THEN [fiber.op.state EXCEPT !.phase = "worker-settled",
                                     !.worker = WorkerReceipt(e)]
         ELSE Fail(fiber.op.state, "worker"))

(* Fault: only a successful turn wakes drive() up.                         *)
WorkerReturnsReady ==
  /\ fiber.pc = "turn"
  /\ turns[fiber.op.state.exec].status = "ready"
  /\ SettleWorker(fiber.op.state.exec)
  /\ UNCHANGED <<outside, faults>>

WorkerReturns ==
  /\ fiber.pc = "turn"
  /\ turns[fiber.op.state.exec].status # "running"
  /\ SettleWorker(fiber.op.state.exec)
  /\ UNCHANGED <<outside, faults>>

(* After a restart the attempt's own checkpoint settles the round; a turn  *)
(* that has none by the deadline, still running included, fails it.        *)
ObserveWorker ==
  /\ fiber.pc = "observe"
  /\ SettleWorker(fiber.op.state.exec)
  /\ UNCHANGED <<outside, faults>>

WorkerUnreadable ==
  /\ fiber.pc \in {"turn", "observe"}
  /\ Reject("worker")

-----------------------------------------------------------------------------
(* drive(): commits and the ledger.                                        *)

PersistCommitAttempt ==
  /\ fiber.pc = "run" /\ fiber.op.state.phase = "worker-settled"
  /\ Settle([fiber.op.state EXCEPT !.phase = "committing"])
  /\ UNCHANGED <<outside, faults>>

(* Fault: the observed range is not compared with the worker's evidence.   *)
SettleCommitsUnchecked ==
  /\ fiber.pc = "settle"
  /\ Settle([fiber.op.state EXCEPT !.phase = "commits-settled",
                                   !.commits = BranchGained(fiber.op.state.base)])
  /\ UNCHANGED <<outside, faults>>

(* The worker's evidence and the observed range must tell the same story.  *)
SettleCommits ==
  /\ fiber.pc = "settle"
  /\ \/ LET changed == BranchGained(fiber.op.state.base) IN
        /\ Settle(IF fiber.op.state.worker # changed
                  THEN Fail(fiber.op.state, "committing")
                  ELSE [fiber.op.state EXCEPT !.phase = "commits-settled", !.commits = changed])
        /\ UNCHANGED <<outside, faults>>
     \/ Reject("committing")

PersistRecordingAttempt ==
  /\ fiber.pc = "run" /\ fiber.op.state.phase = "commits-settled"
  /\ Settle([fiber.op.state EXCEPT !.phase = "round-recording"])
  /\ UNCHANGED <<outside, faults>>

(* The ledger write lands, then the row records that it did.               *)
RecordRound ==
  /\ fiber.pc = "record"
  /\ fiber' = [fiber EXCEPT !.pc = "recorded"]
  /\ UNCHANGED <<durable, outside, ready, recovered, budgets>>

RecordingFails == fiber.pc = "record" /\ Reject("round-recording")

PersistRecorded ==
  /\ fiber.pc = "recorded"
  /\ Settle([fiber.op.state EXCEPT !.phase = "round-recorded"])
  /\ UNCHANGED <<outside, faults>>

FinishUnchanged ==
  /\ fiber.pc = "run" /\ fiber.op.state.phase = "round-recorded"
  /\ ~fiber.op.state.worker /\ ~fiber.op.state.commits
  /\ Settle([fiber.op.state EXCEPT !.phase = "completed", !.result = "unchanged"])
  /\ UNCHANGED <<outside, faults>>

PrepareReport ==
  /\ fiber.pc = "run" /\ fiber.op.state.phase = "round-recorded"
  /\ fiber.op.state.worker \/ fiber.op.state.commits
  /\ Settle([fiber.op.state EXCEPT !.phase = "report-drafting"])
  /\ UNCHANGED <<outside, faults>>

-----------------------------------------------------------------------------
(* drive(): the report, from recapture to verification.                    *)

Drafting == {"draft", "recaptured", "handed", "filed"}

DraftStep(from, to) ==
  /\ fiber.pc \in from
  /\ fiber' = [fiber EXCEPT !.pc = to]
  /\ UNCHANGED <<durable, outside, ready, recovered, budgets>>

Recapture == DraftStep({"draft"}, "recaptured")

(* persistReportHandoff(): idempotent within one durable drafting attempt, *)
(* otherwise a new epoch on the latest row.                                *)
RecordHandoff ==
  /\ fiber.pc = "recaptured"
  /\ row.op = fiber.op.op /\ row.state.phase = "report-drafting"
  /\ LET held == fiber.op.state.epoch = fiber.op.rev
         raced == row.rev # fiber.op.rev /\ row.state.epoch = row.rev
         renewed == Swapped(row, [row.state EXCEPT !.epoch = row.rev + 1])
         next == IF held THEN fiber.op ELSE IF raced THEN row ELSE renewed
     IN  /\ row' = IF held \/ raced THEN row ELSE renewed
         /\ fiber' = [fiber EXCEPT !.op = next, !.pc = "handed"]
  /\ UNCHANGED <<nextOp, outside, ready, recovered, budgets>>

(* The lens boards settle and the real-generation record is filed.         *)
FileGeneration == DraftStep({"recaptured", "handed"}, "filed")

FinishDraft ==
  /\ fiber.pc = "filed"
  /\ Settle([fiber.op.state EXCEPT !.phase = "report-verifying"])
  /\ UNCHANGED <<outside, faults>>

DraftFails == fiber.pc \in Drafting /\ Reject("report-drafting")

(* GenerationSupersededError: the attempt is abandoned without a failure.  *)
Superseded ==
  /\ AllowSupersede
  /\ fiber.pc \in Drafting
  /\ EndDrive
  /\ UNCHANGED <<durable, outside, recovered, budgets>>

VerifyReport ==
  /\ fiber.pc = "verify"
  /\ \/ /\ Settle([fiber.op.state EXCEPT !.phase = "completed", !.result = "changed"])
        /\ UNCHANGED <<outside, faults>>
     \/ Reject("report-verifying")

-----------------------------------------------------------------------------
(* drain(): what becomes of a terminal row.                                *)

(* drainTerminal: with a rerun queued, the live draft decides (`wanted'),  *)
(* and composing its work order is a model call.                           *)
DrainTerminal(wanted) ==
  /\ fiber.pc = "drain"
  /\ LET t == fiber.op IN
     fiber' = CASE Returned(t) -> [fiber EXCEPT !.pc = "apply", !.decision = "retain"]
                [] ~Returned(t) /\ ~t.rerun ->
                     [fiber EXCEPT !.pc = "apply",
                        !.decision = IF t.state.phase = "failed" THEN "retain" ELSE "return"]
                [] ~Returned(t) /\ t.rerun /\ wanted = NoDispatch ->
                     [fiber EXCEPT !.pc = "apply", !.decision = "clear-queued"]
                [] OTHER -> [fiber EXCEPT !.pc = "compose", !.draft = wanted]
  /\ UNCHANGED <<durable, outside, ready, recovered, budgets>>

ComposeReplacement ==
  /\ fiber.pc = "compose"
  /\ fiber' = [fiber EXCEPT !.pc = "apply", !.decision = "replace"]
  /\ UNCHANGED <<durable, outside, ready, recovered, budgets>>

(* A drain that only retains the row has nothing that could reject.        *)
DrainRetains(r) == Returned(r) \/ (r.state.phase = "failed" /\ ~r.rerun)

DrainFails ==
  /\ fiber.pc \in {"drain", "compose"}
  /\ ~DrainRetains(fiber.op)
  /\ faults < MaxFaults
  /\ faults' = faults + 1
  /\ RejectDrive
  /\ UNCHANGED <<durable, outside, recovered, requests, retries, crashes>>

(* Fault: the row is taken for unchanged while its operation is.           *)
SameOperation == row.op = fiber.op.op

(* Back from drainTerminal, the row is read again before anything is done. *)
Exact == row.op = fiber.op.op /\ row.rev = fiber.op.rev

Redrive ==
  /\ fiber.pc = "apply"
  /\ ~Exact
  /\ Present(row)
  /\ fiber' = [fiber EXCEPT !.op = row, !.pc = EffectOf(row.state.phase),
                            !.decision = "none", !.draft = NoDispatch]
  /\ UNCHANGED <<durable, outside, ready, recovered, budgets>>

ReplaceQueued ==
  /\ fiber.pc = "apply" /\ Exact /\ row.rerun /\ fiber.decision = "replace"
  /\ row' = NewOperation(nextOp, fiber.draft)
  /\ nextOp' = nextOp + 1
  /\ fiber' = [fiber EXCEPT !.op = row', !.pc = EffectOf("claimed"),
                            !.decision = "none", !.draft = NoDispatch]
  /\ UNCHANGED <<outside, ready, recovered, budgets>>

ClearQueued ==
  /\ fiber.pc = "apply" /\ Exact /\ row.rerun /\ fiber.decision = "clear-queued"
  /\ row' = NoRow
  /\ EndDrive
  /\ UNCHANGED <<nextOp, outside, recovered, budgets>>

RecordReturn ==
  /\ fiber.pc = "apply" /\ Exact /\ ~row.rerun /\ fiber.decision = "return"
  /\ row' = Swapped(row, [row.state EXCEPT !.returned = TRUE])
  /\ EndDrive
  /\ UNCHANGED <<nextOp, outside, recovered, budgets>>

Retain ==
  /\ fiber.pc = "apply" /\ Exact /\ ~row.rerun /\ fiber.decision = "retain"
  /\ EndDrive
  /\ UNCHANGED <<durable, outside, recovered, budgets>>

-----------------------------------------------------------------------------
(* Commands.                                                               *)

(* Fault: any completion is replaced, its handback done or not.            *)
ClaimableOverCompletion ==
  ~Present(row) \/ (row.state.phase = "completed" /\ ~row.rerun)

Claimable == ~Present(row) \/ (Returned(row) /\ ~row.rerun)

(* submit(), up to the promise it returns.                                 *)
SubmitOperation(d) ==
  IF Claimable
  THEN /\ row' = NewOperation(nextOp, d)
       /\ nextOp' = nextOp + 1
       /\ Start(row')
  ELSE /\ nextOp' = nextOp
       /\ IF IsTerminal(row) /\ (Running \/ ~row.rerun)
          THEN IF Running
               THEN row' = Requeued(row) /\ fiber' = fiber
               ELSE /\ row' = row      \* drainBeforeFreshSubmit
                    /\ fiber' = [Driving(row) EXCEPT !.freshOp = row.op, !.fresh = d]
          ELSE /\ row' = IF row.dispatch # d THEN Requeued(row) ELSE row
               /\ Start(row')

Submit(d) ==
  /\ ~Busy
  /\ requests < MaxRequests
  /\ requests' = requests + 1
  /\ SubmitOperation(d)
  /\ UNCHANGED <<outside, ready, recovered, retries, faults, crashes>>

(* Fault: a handed-back completion still counts as the owner.              *)
OwnedThoughReturned == Present(row) /\ row.state.phase # "failed"

(* queueRoundIfActive finds an owner: a distinct dispatch leaves the rerun *)
(* bit, and either way the owner is resumed.                               *)
Owned == Present(row) /\ row.state.phase # "failed" /\ ~Returned(row)

QueueBehind(d) ==
  /\ ~Busy
  /\ requests < MaxRequests
  /\ requests' = requests + 1
  /\ Owned
  /\ row' = IF row.dispatch = d THEN row ELSE Requeued(row)
  /\ Start(row')
  /\ UNCHANGED <<nextOp, outside, ready, recovered, retries, faults, crashes>>

(* retryFailed(): back to the failed effect. A report that was handed off  *)
(* takes a new epoch in a second write, and only then is drive() started.  *)
(* Retry also waits out a drive() in flight; recovery does not.            *)
RetryFailed(awaited) ==
  /\ row.state.phase = "failed"
  /\ row' = Swapped(row, RetryState(row.state))
  /\ LET renew == row.state.at = "report-drafting" /\ row.state.epoch # 0 IN
     /\ ready' = [ready EXCEPT !.renew = renew]
     /\ fiber' = CASE Running -> [fiber EXCEPT !.retryOp = IF awaited THEN row.op ELSE @]
                   [] ~Running /\ renew -> fiber
                   [] OTHER -> Driving(row')

RenewHandoff ==
  /\ ready.renew
  /\ row' = Swapped(row, [row.state EXCEPT !.epoch = row.rev + 1])
  /\ ready' = [ready EXCEPT !.renew = FALSE]
  /\ Start(row')
  /\ UNCHANGED <<nextOp, outside, recovered, budgets>>

(* retry(): a drive() still draining the failure is waited out.            *)
Retry ==
  /\ ~Busy
  /\ retries < MaxRetries
  /\ retries' = retries + 1
  /\ RetryFailed(TRUE)
  /\ UNCHANGED <<nextOp, outside, recovered, requests, faults, crashes>>

(* The continuations of a settled drive(). A fresh submit clears the       *)
(* terminal it drained, then submits again; a retry restarts its operation *)
(* if that is still live.                                                  *)
ClearDrained ==
  /\ fiber.pc = "idle" /\ ready.freshOp # 0
  /\ row.op = ready.freshOp /\ IsTerminal(row) /\ ~row.rerun
  /\ row' = NoRow
  /\ UNCHANGED <<nextOp, outside, fiber, ready, recovered, budgets>>

SubmitFresh ==
  /\ fiber.pc = "idle" /\ ready.freshOp # 0
  /\ ~(row.op = ready.freshOp /\ IsTerminal(row) /\ ~row.rerun)
  /\ SubmitOperation(ready.fresh)
  /\ ready' = [ready EXCEPT !.freshOp = 0, !.fresh = NoDispatch]
  /\ UNCHANGED <<outside, recovered, budgets>>

ContinueRetry ==
  /\ fiber.pc \notin {"run", "recorded", "apply", "drain"}
  /\ ready.freshOp = 0 /\ ready.retryOp # 0 /\ ~ready.renew
  /\ ready' = NoContinuation
  /\ IF row.op = ready.retryOp /\ ~IsTerminal(row) THEN Start(row) ELSE fiber' = fiber
  /\ UNCHANGED <<durable, outside, recovered, budgets>>

-----------------------------------------------------------------------------
(* Crash and recovery.                                                     *)

Crash ==
  /\ crashes < MaxCrashes
  /\ crashes' = crashes + 1
  /\ fiber' = Idle
  /\ ready' = NoContinuation
  /\ recovered' = FALSE
  /\ UNCHANGED <<durable, outside, requests, retries, faults>>

(* Fault: only a drafting report is driven on after a restart.             *)
RecoverDraftingOnly ==
  /\ ~Busy
  /\ ~recovered
  /\ recovered' = TRUE
  /\ fiber' = IF row.state.phase = "report-drafting" /\ ~Running THEN Driving(row) ELSE fiber
  /\ UNCHANGED <<row, nextOp, outside, ready, budgets>>

(* recover() runs behind the listener, so commands may come first. A       *)
(* drafting report that was handed off takes a new epoch; a failed one may *)
(* be retried when repository access was what it lacked.                   *)
Recover ==
  /\ ~Busy
  /\ ~recovered
  /\ recovered' = TRUE
  /\ \/ /\ row.state.at = "report-drafting" /\ row.state.epoch # 0
        /\ RetryFailed(FALSE)
     \/ /\ row' = IF row.state.phase = "report-drafting" /\ row.state.epoch # 0
                  THEN Swapped(row, [row.state EXCEPT !.epoch = row.rev + 1])
                  ELSE row
        /\ IF Present(row) THEN Start(row') ELSE fiber' = fiber
        /\ ready' = ready
  /\ UNCHANGED <<nextOp, outside, budgets>>

(* External: the reviewer commits in the bound workspace.                  *)
HumanCommit ==
  /\ head < MaxHead
  /\ head' = head + 1
  /\ UNCHANGED <<durable, turns, nextExec, fiber, ready, recovered, budgets>>

-----------------------------------------------------------------------------
(* What runs before anything else does: the synchronous steps of drive()   *)
(* and of its drain, and the continuations waiting on it.                  *)
ThreadStep ==
  \/ PersistAttempt \/ PersistCommitAttempt \/ PersistRecordingAttempt
  \/ PersistRecorded \/ FinishUnchanged \/ PrepareReport
  \/ Redrive \/ ReplaceQueued \/ ClearQueued \/ RecordReturn \/ Retain
  \/ ClearDrained \/ SubmitFresh \/ ContinueRetry \/ RenewHandoff

(* An effect drive() awaits goes one step further or settles.              *)
EffectStep ==
  /\ ready = NoContinuation
  /\ \/ PlanWorkspace \/ LaunchWorker
     \/ WorkerReturns \/ ObserveWorker \/ WorkerUnreadable
     \/ SettleCommits \/ RecordingFails
     \/ RecordHandoff \/ DraftFails \/ Superseded \/ VerifyReport
     \/ ComposeReplacement \/ DrainFails

EnvironmentStep == HumanCommit \/ \E e \in DOMAIN turns : TurnEnds(e)

Next ==
  \/ ThreadStep \/ EffectStep
  \/ RecordRound \/ Recapture \/ FileGeneration \/ FinishDraft
  \/ \E d \in Dispatch \cup {NoDispatch} : DrainTerminal(d)
  \/ \E d \in Dispatch : Submit(d) \/ QueueBehind(d)
  \/ Retry \/ Recover \/ Crash
  \/ EnvironmentStep

Spec == Init /\ [][Next]_execVars

(* Every effect settles: git and model calls return or reject, the sidecar *)
(* ends each turn, and a started daemon reaches recover(). Nothing makes   *)
(* a reviewer act, or the daemon crash, or an effect fail.                 *)
Fairness ==
  /\ WF_execVars(ThreadStep \/ EffectStep)
  /\ WF_execVars(RecordRound)
  /\ WF_execVars(Recapture)
  /\ WF_execVars(FileGeneration)
  /\ WF_execVars(FinishDraft)
  /\ WF_execVars(\E d \in Dispatch \cup {NoDispatch} : DrainTerminal(d))
  /\ WF_execVars(\E e \in DOMAIN turns : TurnEnds(e))
  /\ WF_execVars(Recover)

FairSpec == Spec /\ Fairness

-----------------------------------------------------------------------------
(* Properties.                                                             *)

(* The one type invariant.                                                 *)
Turn == [op : Nat, status : {"running", "ready", "failed", "lost"},
         edited : BOOLEAN, committed : BOOLEAN, launches : Nat]
Pc == {"idle", "run", "plan", "launch", "turn", "observe", "settle", "record",
       "recorded", "draft", "recaptured", "handed", "filed", "verify",
       "drain", "compose", "apply"}
Decision == {"none", "retain", "return", "clear-queued", "replace"}
Fiber == [pc : Pc, op : Row, decision : Decision, draft : Dispatch \cup {NoDispatch},
          freshOp : Nat, fresh : Dispatch \cup {NoDispatch}, retryOp : Nat]
Continuation == [freshOp : Nat, fresh : Dispatch \cup {NoDispatch}, retryOp : Nat,
                 renew : BOOLEAN]
TypeOK ==
  /\ row \in Row
  /\ DOMAIN turns \subseteq Nat /\ \A e \in DOMAIN turns : turns[e] \in Turn
  /\ head \in Nat
  /\ fiber \in Fiber /\ ready \in Continuation
  /\ recovered \in BOOLEAN
  /\ nextOp \in Nat \ {0} /\ nextExec \in Nat \ {0}
  /\ requests \in Nat /\ retries \in Nat /\ faults \in Nat /\ crashes \in Nat

(* A drive() in flight holds a snapshot of the operation that still owns   *)
(* the session, never ahead of the durable row, so none of its writes can  *)
(* throw for a missing or foreign row.                                     *)
FiberOwnsRow ==
  Running => /\ Present(row)
             /\ row.op = fiber.op.op
             /\ fiber.op.rev <= row.rev
             /\ Exact => row = fiber.op

(* However a worker attempt is interrupted, recovered or retried, its      *)
(* execution id starts at most one turn.                                   *)
WorkerLaunchedOnce == \A e \in DOMAIN turns : turns[e].launches <= 1

(* A settled worker is the settlement of this operation's own attempt, and *)
(* that turn really finished: no other operation's turn, no stale id.      *)
SettledPhases == {"worker-settled", "committing", "commits-settled", "round-recording",
                  "round-recorded", "report-drafting", "report-verifying", "completed"}
ReceiptOfOwnAttempt ==
  row.state.phase \in SettledPhases =>
    /\ row.state.exec \in DOMAIN turns
    /\ turns[row.state.exec].op = row.op
    /\ turns[row.state.exec].status = "ready"

(* No round is reported as changed unless the branch really gained a       *)
(* commit since its workspace was planned, whatever the turn left dirty.   *)
NoRoundWithoutCommit ==
  row.state.phase \in {"report-drafting", "report-verifying"} \/ row.state.result = "changed"
    => head > row.state.base

(* A handed-back completion never carries a queued rerun: its drain would  *)
(* answer `retain', which drain() rejects, for ever.                       *)
NoUndrainableRow == ~(Returned(row) /\ row.rerun)

(* The decision drain() acts on fits the row it re-read: a queued rerun is *)
(* replaced or cleared, an unqueued terminal never is.                     *)
DrainDecisionFits ==
  fiber.pc = "apply" /\ Exact =>
    /\ IsTerminal(row)
    /\ row.rerun <=> fiber.decision \in {"clear-queued", "replace"}
    /\ fiber.decision = "return" => row.state.phase = "completed" /\ ~row.state.returned

(* A dispatch queued behind a running operation is not lost: the queued    *)
(* bit goes away only when a terminal row is replaced or cleared by its    *)
(* drain.                                                                  *)
QueuedRerunSurvives ==
  [][row.rerun /\ ~row'.rerun => IsTerminal(row) /\ fiber.pc = "apply" /\ row'.op # row.op]_execVars

(* An operation's revision only grows, and its receipts are never taken    *)
(* back except by a retry of its worker.                                   *)
ReceiptsSurvive ==
  [][row'.op = row.op =>
       /\ row'.rev >= row.rev
       /\ row.state.phase \in SettledPhases \ {"worker-settled"}
            => Keeps(row.state, row'.state, {"base", "exec", "worker"})
       /\ row.state.epoch # 0 => row'.state.epoch >= row.state.epoch]_execVars

(* The row only ever changes in the ways its store accepts.                *)
Store == INSTANCE RoundOperationStore
StoreSpec == Store!Spec

(* Once the daemon stops crashing, every drive() ends.                     *)
DriveEnds == []<>~Running

(* After recovery, a live operation nothing is queued behind is never left *)
(* without a drive() that runs it, whatever effects and drains rejected;   *)
(* only a drafting attempt another process took over may be.               *)
LiveOperationDriven ==
  recovered /\ Present(row) /\ ~IsTerminal(row) /\ ~row.rerun
  /\ ~(AllowSupersede /\ row.state.phase = "report-drafting")
    => Running \/ ready # NoContinuation

(* Every accepted operation reaches a terminal row or is cleared.          *)
OperationSettles == []<>(~Present(row) \/ IsTerminal(row))
=============================================================================
