------------------------ MODULE RoundExecutionProofs ------------------------
(***************************************************************************)
(* Proofs about the coordinator of RoundExecution, for every number of     *)
(* dispatches, retries, faults and crashes: what a drive() in flight knows *)
(* of the durable row, and that each of its writes is one the store of     *)
(* RoundOperationStore accepts.                                            *)
(***************************************************************************)
EXTENDS RoundExecution, TLAPS

-----------------------------------------------------------------------------
(* The inductive invariant.                                                *)

(* Where drive() stands determines the phase of its snapshot.              *)
PcFits(pc, phase) ==
  /\ pc = "run" => phase \in {"prepared", "worker-settled", "commits-settled", "round-recorded"}
  /\ pc = "plan" => phase = "claimed"
  /\ pc \in {"launch", "turn", "observe"} => phase = "worker-running"
  /\ pc = "settle" => phase = "committing"
  /\ pc \in {"record", "recorded"} => phase = "round-recording"
  /\ pc \in Drafting => phase = "report-drafting"
  /\ pc = "verify" => phase = "report-verifying"
  /\ pc \in {"drain", "compose", "apply"} => phase \in {"completed", "failed"}

(* Once the commits are settled, they tell the worker's story.             *)
Settlement == {"commits-settled", "round-recording", "round-recorded",
               "report-drafting", "report-verifying"}

(* What holds of every row that was ever written.                          *)
SoundState(s) ==
  /\ s.returned => s.phase = "completed"
  /\ s.phase = "failed" => s.at \in FailurePoint
  /\ s.phase \in Settlement \/ (s.phase = "failed" /\ s.at \in Settlement)
       => s.worker = s.commits
  /\ s.phase # "completed" => s.result = "none"
Sound(r) == SoundState(r.state) /\ ~(Returned(r) /\ r.rerun)

(* What drain() decided fits the snapshot it decided on.                   *)
DecisionFits ==
  /\ fiber.pc = "compose" => fiber.op.rerun /\ fiber.draft \in Dispatch
  /\ fiber.pc = "apply" =>
       /\ fiber.op.rerun <=> fiber.decision \in {"clear-queued", "replace"}
       /\ fiber.decision = "return" => fiber.op.state.phase = "completed" /\ ~fiber.op.state.returned
       /\ fiber.decision = "replace" => fiber.draft \in Dispatch

(* A terminal row was written, or adopted, by the drive() in flight.       *)
TerminalHeld == Running /\ IsTerminal(row) => fiber.op.state = row.state

(* The second write of a retry comes before anything else.                 *)
RenewFits ==
  ready.renew => /\ Present(row) /\ row.state.phase = "report-drafting"
                 /\ fiber.pc \in {"idle", "compose"} /\ ready.freshOp = 0

CoreInv ==
  /\ row \in Row /\ fiber \in Fiber /\ ready \in Continuation /\ nextOp \in Nat \ {0}
  /\ FiberOwnsRow
  /\ PcFits(fiber.pc, fiber.op.state.phase)
  /\ Sound(row) /\ Sound(fiber.op)
  /\ TerminalHeld
  /\ DecisionFits
  /\ row.op < nextOp
  /\ Present(row) \/ row = NoRow
  /\ RenewFits

(* A launch is the first of its execution id.                              *)
LaunchFits ==
  /\ \A e \in DOMAIN turns : e < nextExec
  /\ fiber.pc = "launch" => fiber.op.state.exec < nextExec /\ fiber.op.state.exec \notin DOMAIN turns

OutsideInv ==
  /\ DOMAIN turns \subseteq Nat /\ \A e \in DOMAIN turns : turns[e] \in Turn
  /\ head \in Nat /\ recovered \in BOOLEAN /\ nextExec \in Nat \ {0}
  /\ requests \in Nat /\ retries \in Nat /\ faults \in Nat /\ crashes \in Nat
  /\ WorkerLaunchedOnce
  /\ LaunchFits

IInv == CoreInv /\ OutsideInv

-----------------------------------------------------------------------------
(* Helpers.                                                                *)

LEMMA EffectOfFits ==
  ASSUME NEW p \in Phase
  PROVE  /\ EffectOf(p) \in {"plan", "observe", "settle", "record", "draft", "verify",
                             "drain", "run"}
         /\ PcFits(EffectOf(p), p)
BY DEF EffectOf, PcFits, Phase, Drafting

LEMMA SwappedRow ==
  ASSUME NEW r \in Row, NEW n \in State
  PROVE  /\ Swapped(r, n) \in Row
         /\ Swapped(r, n).op = r.op
         /\ Swapped(r, n).rev = r.rev + 1
         /\ Swapped(r, n).rerun = r.rerun
         /\ Swapped(r, n).dispatch = r.dispatch
         /\ Swapped(r, n).state = n
<1> DEFINE rev == r.rev + 1
<1>1. rev \in Nat BY DEF Row
<1>2. Swapped(r, n) = [r EXCEPT !.state = n, !.rev = rev] BY DEF Swapped
<1> HIDE DEF rev
<1>3. Swapped(r, n) \in Row BY <1>1, <1>2 DEF Row
<1>4. Swapped(r, n).op = r.op /\ Swapped(r, n).rev = rev BY <1>2 DEF Row
<1>5. Swapped(r, n).rerun = r.rerun BY <1>2 DEF Row
<1>6. Swapped(r, n).dispatch = r.dispatch /\ Swapped(r, n).state = n BY <1>2 DEF Row
<1> QED BY <1>3, <1>4, <1>5, <1>6 DEF rev

LEMMA RequeuedRow ==
  ASSUME NEW r \in Row
  PROVE  /\ Requeued(r) \in Row
         /\ Requeued(r).op = r.op
         /\ Requeued(r).rev >= r.rev
         /\ Requeued(r).rev = r.rev => Requeued(r) = r
         /\ Requeued(r).rerun
         /\ Requeued(r).state = r.state
<1> DEFINE rev == r.rev + 1
<1>1. rev \in Nat /\ r.rev \in Nat /\ r.rev < rev BY DEF Row
<1>2. CASE r.rerun
  BY <1>2, <1>1 DEF Requeued
<1>3. CASE ~r.rerun
  <2>1. Requeued(r) = [r EXCEPT !.rerun = TRUE, !.rev = rev] BY <1>3 DEF Requeued
  <2> HIDE DEF rev
  <2>2. Requeued(r) \in Row BY <1>1, <2>1 DEF Row
  <2>3. Requeued(r).op = r.op /\ Requeued(r).rev = rev BY <2>1 DEF Row
  <2>4. Requeued(r).rerun = TRUE BY <2>1 DEF Row
  <2>5. Requeued(r).state = r.state BY <2>1 DEF Row
  <2> QED BY <1>1, <2>2, <2>3, <2>4, <2>5
<1> QED BY <1>2, <1>3

LEMMA NewRow ==
  ASSUME NEW id \in Nat, NEW d \in Dispatch \cup {NoDispatch}
  PROVE  /\ NewOperation(id, d) \in Row
         /\ NewOperation(id, d).op = id
         /\ NewOperation(id, d).rev = 0
         /\ NewOperation(id, d).rerun = FALSE
         /\ NewOperation(id, d).state = Claimed
         /\ Sound(NewOperation(id, d))
BY DEF NewOperation, Row, Claimed, State, Phase, FailurePoint, Sound, SoundState, Returned,
       Settlement

LEMMA IdleFiber == Idle \in Fiber /\ NoRow \in Row /\ Sound(NoRow)
BY DEF Idle, Fiber, Pc, Decision, NoRow, Row, Claimed, State, Phase, FailurePoint, Sound,
       SoundState, Returned, Settlement

LEMMA DrivingFiber ==
  ASSUME NEW r \in Row
  PROVE  /\ Driving(r) \in Fiber
         /\ Driving(r).pc = EffectOf(r.state.phase)
         /\ Driving(r).op = r
<1>1. EffectOf(r.state.phase) \in Pc
  BY EffectOfFits DEF Row, State, Pc
<1> QED BY <1>1, IdleFiber DEF Driving, Fiber
-----------------------------------------------------------------------------
(* Four ways a step may leave the row and the drive() in flight.           *)

(* The fiber holds exactly the row.                                        *)
LEMMA HoldsRow ==
  ASSUME row' \in Row, Present(row)', Sound(row)', row'.op < nextOp', nextOp' \in Nat \ {0},
         fiber' \in Fiber, fiber'.op = row', fiber'.pc \notin {"idle", "compose", "apply"},
         PcFits(fiber.pc, fiber.op.state.phase)',
         ready' \in Continuation, ~ready'.renew
  PROVE  CoreInv'
<1>1. (FiberOwnsRow /\ TerminalHeld)'
  BY DEF FiberOwnsRow, TerminalHeld, Row, Running
<1>2. (Sound(fiber.op) /\ DecisionFits /\ RenewFits)'
  BY DEF DecisionFits, RenewFits, Sound
<1> QED BY <1>1, <1>2 DEF CoreInv

(* The fiber is left alone, by a write that moves the row on.              *)
LEMMA KeepsFiber ==
  ASSUME CoreInv, fiber' = fiber,
         row' \in Row, Sound(row)', row'.op = row.op, row'.op < nextOp', nextOp' \in Nat \ {0},
         row'.rev >= row.rev, row'.rev = row.rev => row' = row, Present(row),
         IsTerminal(row') => row'.state = row.state,
         ready' \in Continuation, RenewFits'
  PROVE  CoreInv'
<1>1. FiberOwnsRow'
  BY DEF FiberOwnsRow, Running, Exact, CoreInv, Row, Fiber, Present
<1>2. TerminalHeld'
  BY DEF TerminalHeld, Running, CoreInv, IsTerminal
<1>3. (Sound(fiber.op) /\ DecisionFits /\ PcFits(fiber.pc, fiber.op.state.phase))'
  BY DEF DecisionFits, CoreInv
<1>4. Present(row)'
  BY DEF Present
<1> QED BY <1>1, <1>2, <1>3, <1>4 DEF CoreInv

(* The fiber moves within its phase, and the row is left alone.            *)
LEMMA KeepsRow ==
  ASSUME CoreInv, row' = row, nextOp' = nextOp, Running,
         fiber' \in Fiber, fiber'.op = fiber.op, fiber'.pc # "idle",
         PcFits(fiber'.pc, fiber.op.state.phase), DecisionFits',
         ready' = ready, fiber'.pc = "compose" \/ ~ready.renew
  PROVE  CoreInv'
<1>1. (FiberOwnsRow /\ TerminalHeld)'
  BY DEF FiberOwnsRow, TerminalHeld, Running, Exact, CoreInv, IsTerminal, Present
<1>2. (PcFits(fiber.pc, fiber.op.state.phase) /\ Sound(fiber.op) /\ Sound(row))'
  BY DEF CoreInv
<1>3. RenewFits'
  BY DEF RenewFits, CoreInv, Present
<1> QED BY <1>1, <1>2, <1>3 DEF CoreInv, Present

(* No drive() is in flight.                                                *)
LEMMA GoesIdle ==
  ASSUME fiber' = Idle, row' \in Row, Sound(row)', row'.op < nextOp', nextOp' \in Nat \ {0},
         (Present(row) \/ row = NoRow)', ready' \in Continuation, ~ready'.renew
  PROVE  CoreInv'
<1>1. fiber' \in Fiber /\ fiber'.pc = "idle" /\ fiber'.op = NoRow /\ Sound(fiber'.op)
  BY IdleFiber DEF Idle
<1>2. (FiberOwnsRow /\ TerminalHeld /\ DecisionFits /\ RenewFits)'
  BY <1>1 DEF FiberOwnsRow, TerminalHeld, DecisionFits, RenewFits, Running
<1>3. PcFits(fiber.pc, fiber.op.state.phase)'
  BY <1>1 DEF PcFits, Drafting
<1> QED BY <1>1, <1>2, <1>3 DEF CoreInv, Sound, SoundState, Returned

(* persist(): the write lands, or the latest row is adopted.               *)
LEMMA PersistInv ==
  ASSUME CoreInv, fiber.pc \notin {"idle", "compose"},
         NEW n \in State, SoundState(n), ~n.returned,
         NEW pc \in Pc \ {"idle", "compose", "apply"}, PcFits(pc, n.phase),
         Persist(n, pc)
  PROVE  /\ CoreInv'
         /\ fiber'.pc = "launch" => fiber'.pc = pc /\ fiber'.op.state = n
<1>1. row \in Row /\ fiber \in Fiber /\ fiber.op \in Row /\ row.op = fiber.op.op /\ Present(row)
  BY DEF CoreInv, Fiber, FiberOwnsRow, Running
<1>2. ready' \in Continuation /\ ~ready'.renew /\ nextOp' = nextOp /\ nextOp \in Nat \ {0}
      /\ row.op < nextOp
  BY DEF Persist, CoreInv, RenewFits
<1>3. CASE PersistWrites
  <2>1. row' = Swapped(row, n) /\ fiber' = [fiber EXCEPT !.op = Swapped(row, n), !.pc = pc]
    BY <1>3 DEF Persist
  <2>2. row' \in Row /\ row'.op = row.op /\ row'.state = n
    BY <1>1, <2>1, SwappedRow
  <2>3. fiber' \in Fiber /\ fiber'.op = row' /\ fiber'.pc = pc
    BY <1>1, <2>1, <2>2 DEF Fiber
  <2>4. Sound(row)' /\ Present(row)'
    BY <1>1, <2>2 DEF Sound, Returned, Present
  <2>5. PcFits(fiber.pc, fiber.op.state.phase)'
    BY <2>2, <2>3
  <2>6. CoreInv'
    BY <1>2, <2>2, <2>3, <2>4, <2>5, HoldsRow
  <2> QED BY <2>2, <2>3, <2>6
<1>4. CASE ~PersistWrites
  <2>1. row' = row /\ fiber' = [fiber EXCEPT !.op = row, !.pc = EffectOf(row.state.phase)]
    BY <1>4 DEF Persist
  <2>2. row.state.phase \in Phase
    BY <1>1 DEF Row, State
  <2>3. fiber' \in Fiber /\ fiber'.op = row' /\ fiber'.pc = EffectOf(row.state.phase)
    BY <1>1, <2>1, <2>2, EffectOfFits DEF Fiber, Pc
  <2>4. PcFits(fiber.pc, fiber.op.state.phase)' /\ fiber'.pc \notin {"idle", "compose", "apply", "launch"}
    BY <2>1, <2>2, <2>3, EffectOfFits
  <2>5. Sound(row)' /\ Present(row)'
    BY <1>1, <2>1 DEF CoreInv
  <2>6. CoreInv'
    BY <1>1, <1>2, <2>1, <2>3, <2>4, <2>5, HoldsRow
  <2> QED BY <2>4, <2>6
<1> QED BY <1>3, <1>4

-----------------------------------------------------------------------------
(* The steps of drive().                                                   *)

(* What a step hands to the argument about worker turns.                   *)
NoLaunch == fiber'.pc = "launch" => fiber' = fiber

LEMMA SnapshotFacts ==
  ASSUME CoreInv, fiber.pc # "idle"
  PROVE  /\ fiber \in Fiber /\ fiber.op \in Row /\ fiber.op.state \in State
         /\ row \in Row /\ Present(row) /\ row.op = fiber.op.op
         /\ SoundState(fiber.op.state)
         /\ PcFits(fiber.pc, fiber.op.state.phase)
BY DEF CoreInv, Fiber, Row, FiberOwnsRow, Running, Sound

(* fail(): the failure keeps the receipts, and is the snapshot's own.      *)
LEMMA FailState ==
  ASSUME NEW s \in State, SoundState(s), s.phase \notin {"completed", "failed"},
         NEW point \in FailurePoint, s.phase = FailsIn(point)
  PROVE  /\ Fail(s, point) \in State /\ SoundState(Fail(s, point))
         /\ ~Fail(s, point).returned /\ Fail(s, point).phase = "failed"
<1>1. Fail(s, point) \in State
  BY DEF Fail, State, Phase
<1>2. /\ Fail(s, point).phase = "failed" /\ Fail(s, point).at = point
      /\ Fail(s, point).worker = s.worker /\ Fail(s, point).commits = s.commits
  BY DEF Fail, State
<1>3. Fail(s, point).returned = s.returned /\ Fail(s, point).result = s.result
  BY DEF Fail, State
<1>4. ~s.returned /\ s.result = "none"
  BY DEF SoundState
<1>5. point \in Settlement => s.worker = s.commits
  BY DEF SoundState, FailsIn, Settlement, FailurePoint
<1> QED BY <1>1, <1>2, <1>3, <1>4, <1>5 DEF SoundState, Settlement

LEMMA RejectInv ==
  ASSUME CoreInv, NEW point \in FailurePoint, fiber.pc \notin {"idle", "compose"},
         fiber.op.state.phase = FailsIn(point),
         Settle(Fail(fiber.op.state, point))
  PROVE  CoreInv' /\ NoLaunch
<1> DEFINE n == Fail(fiber.op.state, point)
<1>1. n \in State /\ SoundState(n) /\ ~n.returned /\ n.phase = "failed"
  BY SnapshotFacts, FailState DEF FailsIn, FailurePoint
<1>2. EffectOf(n.phase) = "drain" /\ PcFits("drain", n.phase)
  BY <1>1, EffectOfFits DEF EffectOf, PcFits, Drafting
<1>3. Persist(n, "drain")
  BY <1>2 DEF Settle
<1> HIDE DEF n
<1> QED BY <1>1, <1>2, <1>3, PersistInv DEF NoLaunch, Pc

(* A step forward: the phase and the fields the phase settles.             *)
LEMMA SettleInv ==
  ASSUME CoreInv, fiber.pc \notin {"idle", "compose"},
         NEW n \in State, SoundState(n), ~n.returned, Settle(n)
  PROVE  CoreInv' /\ NoLaunch
<1>1. n.phase \in Phase
  BY DEF State
<1>2. /\ EffectOf(n.phase) \in Pc \ {"idle", "compose", "apply", "launch"}
      /\ PcFits(EffectOf(n.phase), n.phase)
  BY <1>1, EffectOfFits DEF Pc
<1> QED BY <1>2, PersistInv DEF Settle, NoLaunch

(* Each effect of drive(), from the plan to the verified report.           *)
LEMMA PlanWorkspaceInv ==
  ASSUME CoreInv, head \in Nat, PlanWorkspace
  PROVE  CoreInv' /\ NoLaunch
<1>1. fiber.pc = "plan" /\ fiber.op.state.phase = "claimed"
  BY SnapshotFacts DEF PlanWorkspace, PcFits
<1>2. CASE Reject("preparing")
  BY <1>1, <1>2, RejectInv DEF Reject, FailsIn, FailurePoint
<1>3. CASE Settle([fiber.op.state EXCEPT !.phase = "prepared", !.base = head])
  <2> DEFINE n == [fiber.op.state EXCEPT !.phase = "prepared", !.base = head]
  <2>1. n \in State /\ n.phase = "prepared"
    BY <1>1, SnapshotFacts DEF State, Phase
  <2>2. /\ n.returned = fiber.op.state.returned /\ ~fiber.op.state.returned
        /\ n.result = "none"
    BY <1>1, SnapshotFacts DEF State, SoundState
  <2>3. SoundState(n) /\ ~n.returned
    BY <2>1, <2>2 DEF SoundState, Settlement
  <2> QED BY <1>1, <1>3, <2>1, <2>3, SettleInv
<1> QED BY <1>2, <1>3 DEF PlanWorkspace

LEMMA PersistAttemptInv ==
  ASSUME CoreInv, nextExec \in Nat, PersistAttempt
  PROVE  /\ CoreInv'
         /\ fiber'.pc = "launch" => fiber'.op.state.exec = nextExec
<1>1. fiber.pc = "run" /\ fiber.op.state.phase = "prepared"
  BY DEF PersistAttempt
<1> DEFINE n == [fiber.op.state EXCEPT !.phase = "worker-running", !.exec = nextExec]
<1>2. n \in State /\ n.phase = "worker-running" /\ n.exec = nextExec
  BY <1>1, SnapshotFacts DEF State, Phase
<1>3. n.returned = fiber.op.state.returned /\ ~fiber.op.state.returned /\ n.result = "none"
  BY <1>1, SnapshotFacts DEF State, SoundState
<1>4. SoundState(n) /\ ~n.returned
  BY <1>2, <1>3 DEF SoundState, Settlement
<1>5. Persist(n, "launch")
  BY DEF PersistAttempt
<1>6. PcFits("launch", n.phase) /\ "launch" \in Pc \ {"idle", "compose", "apply"}
  BY <1>2 DEF PcFits, Drafting, Pc
<1> HIDE DEF n
<1> QED BY <1>1, <1>2, <1>4, <1>5, <1>6, PersistInv

LEMMA LaunchWorkerInv ==
  ASSUME CoreInv, LaunchWorker
  PROVE  CoreInv' /\ NoLaunch
<1>1. fiber.pc = "launch" /\ fiber.op.state.phase = "worker-running"
  BY SnapshotFacts DEF LaunchWorker, PcFits
<1>2. CASE Reject("worker")
  BY <1>1, <1>2, RejectInv DEF Reject, FailsIn, FailurePoint
<1>3. CASE fiber' = [fiber EXCEPT !.pc = "turn"] /\ UNCHANGED <<durable, ready>>
  <2>1. fiber' \in Fiber /\ fiber'.op = fiber.op /\ fiber'.pc = "turn"
    BY <1>1, <1>3, SnapshotFacts DEF Fiber, Pc
  <2>2. PcFits("turn", fiber.op.state.phase) /\ DecisionFits' /\ ~ready.renew
    BY <1>1, <2>1 DEF PcFits, Drafting, DecisionFits, CoreInv, RenewFits
  <2> QED BY <1>1, <1>3, <2>1, <2>2, KeepsRow DEF durable, Running, NoLaunch
<1> QED BY <1>2, <1>3 DEF LaunchWorker

LEMMA SettleWorkerInv ==
  ASSUME CoreInv, fiber.op.state.phase = "worker-running", fiber.pc \notin {"idle", "compose"},
         NEW e, \A x \in DOMAIN turns : turns[x] \in Turn, head \in Nat,
         SettleWorker(e)
  PROVE  CoreInv' /\ NoLaunch
<1>1. CASE Settle(Fail(fiber.op.state, "worker"))
  BY <1>1, RejectInv DEF FailsIn, FailurePoint
<1>2. CASE /\ e \in DOMAIN turns
           /\ Settle([fiber.op.state EXCEPT !.phase = "worker-settled", !.worker = WorkerReceipt(e)])
  <2> DEFINE n == [fiber.op.state EXCEPT !.phase = "worker-settled", !.worker = WorkerReceipt(e)]
  <2>1. WorkerReceipt(e) \in BOOLEAN
    BY <1>2 DEF BranchGained, WorkerReceipt, Turn
  <2>2. n \in State /\ n.phase = "worker-settled"
    BY <2>1, SnapshotFacts DEF State, Phase
  <2>3. n.returned = fiber.op.state.returned /\ ~fiber.op.state.returned /\ n.result = "none"
    BY SnapshotFacts DEF State, SoundState
  <2>4. SoundState(n) /\ ~n.returned
    BY <2>2, <2>3 DEF SoundState, Settlement
  <2> QED BY <1>2, <2>2, <2>4, SettleInv
<1> QED BY <1>1, <1>2 DEF SettleWorker

LEMMA CommitsSettled ==
  ASSUME NEW s \in State, SoundState(s), s.phase = "committing",
         NEW changed \in BOOLEAN, s.worker = changed
  PROVE  LET n == [s EXCEPT !.phase = "commits-settled", !.commits = changed]
         IN  n \in State /\ SoundState(n) /\ ~n.returned
<1> DEFINE n == [s EXCEPT !.phase = "commits-settled", !.commits = changed]
<1>1. n \in State
  BY DEF State, Phase
<1>2. n.phase = "commits-settled" /\ n.commits = changed
  BY DEF State
<1>3. n.worker = s.worker
  BY DEF State
<1>4. n.returned = s.returned /\ ~s.returned /\ n.result = "none"
  BY DEF State, SoundState
<1> QED BY <1>1, <1>2, <1>3, <1>4 DEF SoundState, Settlement

LEMMA SettleCommitsInv ==
  ASSUME CoreInv, head \in Nat, SettleCommits
  PROVE  CoreInv' /\ NoLaunch
<1>1. fiber.pc = "settle" /\ fiber.op.state.phase = "committing"
  BY SnapshotFacts DEF SettleCommits, PcFits
<1>2. CASE Settle(Fail(fiber.op.state, "committing"))
  BY <1>1, <1>2, RejectInv DEF FailsIn, FailurePoint
<1>3. ASSUME NEW changed \in BOOLEAN, fiber.op.state.worker = changed,
             Settle([fiber.op.state EXCEPT !.phase = "commits-settled", !.commits = changed])
      PROVE  CoreInv' /\ NoLaunch
  BY <1>1, <1>3, SnapshotFacts, CommitsSettled, SettleInv
<1>4. CASE ~Reject("committing") /\ ~Settle(Fail(fiber.op.state, "committing"))
  <2> DEFINE changed == head > fiber.op.state.base
  <2>1. changed \in BOOLEAN
    OBVIOUS
  <2>2. fiber.op.state.worker \in BOOLEAN
    BY <1>1, SnapshotFacts DEF State
  <2>3. /\ ~(fiber.op.state.worker # changed)
        /\ Settle([fiber.op.state EXCEPT !.phase = "commits-settled", !.commits = changed])
    BY <1>4 DEF BranchGained, SettleCommits
  <2>4. fiber.op.state.worker = changed
    BY <2>3
  <2> HIDE DEF changed
  <2> QED BY <1>3, <2>1, <2>3, <2>4
<1> QED BY <1>2, <1>4 DEF Reject

(* Going on to the next phase keeps every receipt.                         *)
LEMMA AdvanceState ==
  ASSUME NEW s \in State, SoundState(s), s.phase \notin {"completed", "failed"},
         NEW to \in Phase \ {"failed"}, to \in Settlement => s.phase \in Settlement,
         NEW result \in {"none", "changed", "unchanged"}
  PROVE  /\ [s EXCEPT !.phase = to] \in State
         /\ SoundState([s EXCEPT !.phase = to]) /\ ~[s EXCEPT !.phase = to].returned
         /\ to = "completed" =>
              /\ [s EXCEPT !.phase = to, !.result = result] \in State
              /\ SoundState([s EXCEPT !.phase = to, !.result = result])
              /\ ~[s EXCEPT !.phase = to, !.result = result].returned
<1> DEFINE n == [s EXCEPT !.phase = to]
           m == [s EXCEPT !.phase = to, !.result = result]
<1>1. ~s.returned /\ s.result = "none"
  BY DEF SoundState
<1>2. /\ n \in State /\ n.phase = to /\ n.worker = s.worker /\ n.commits = s.commits
      /\ n.returned = s.returned /\ n.result = s.result
  BY DEF State
<1>3. /\ m \in State /\ m.phase = to /\ m.worker = s.worker /\ m.commits = s.commits
      /\ m.returned = s.returned
  BY DEF State
<1> HIDE DEF n, m
<1>4. SoundState(n) /\ (to = "completed" => SoundState(m)) /\ ~n.returned /\ ~m.returned
  BY <1>1, <1>2, <1>3 DEF SoundState, Settlement
<1> QED BY <1>2, <1>3, <1>4 DEF n, m

LEMMA AdvanceInv ==
  ASSUME CoreInv,
         \/ PersistCommitAttempt \/ PersistRecordingAttempt \/ PersistRecorded
         \/ FinishUnchanged \/ PrepareReport \/ FinishDraft
  PROVE  CoreInv' /\ NoLaunch
<1> DEFINE s == fiber.op.state
<1>1. s \in State /\ SoundState(s) /\ PcFits(fiber.pc, s.phase)
  BY SnapshotFacts DEF PersistCommitAttempt, PersistRecordingAttempt, PersistRecorded,
     FinishUnchanged, PrepareReport, FinishDraft
<1> HIDE DEF s
<1>2. CASE PersistCommitAttempt
  BY <1>1, <1>2, AdvanceState, SettleInv DEF PersistCommitAttempt, s, Phase, Settlement
<1>3. CASE PersistRecordingAttempt
  BY <1>1, <1>3, AdvanceState, SettleInv DEF PersistRecordingAttempt, s, Phase, Settlement
<1>4. CASE PersistRecorded
  BY <1>1, <1>4, AdvanceState, SettleInv DEF PersistRecorded, s, PcFits, Phase, Settlement
<1>5. CASE FinishUnchanged
  BY <1>1, <1>5, AdvanceState, SettleInv DEF FinishUnchanged, s, Phase, Settlement
<1>6. CASE PrepareReport
  BY <1>1, <1>6, AdvanceState, SettleInv DEF PrepareReport, s, Phase, Settlement
<1>7. CASE FinishDraft
  BY <1>1, <1>7, AdvanceState, SettleInv DEF FinishDraft, s, PcFits, Drafting, Phase, Settlement
<1> QED BY <1>2, <1>3, <1>4, <1>5, <1>6, <1>7

LEMMA VerifyReportInv ==
  ASSUME CoreInv, VerifyReport
  PROVE  CoreInv' /\ NoLaunch
<1>1. fiber.pc = "verify" /\ fiber.op.state.phase = "report-verifying"
  BY SnapshotFacts DEF VerifyReport, PcFits
<1>2. CASE Reject("report-verifying")
  BY <1>1, <1>2, RejectInv DEF Reject, FailsIn, FailurePoint
<1>3. CASE Settle([fiber.op.state EXCEPT !.phase = "completed", !.result = "changed"])
  BY <1>1, <1>3, SnapshotFacts, AdvanceState, SettleInv DEF Phase, Settlement
<1> QED BY <1>2, <1>3 DEF VerifyReport

(* Effects that fail report the phase they ran in.                         *)
LEMMA EffectFailsInv ==
  ASSUME CoreInv, WorkerUnreadable \/ RecordingFails \/ DraftFails
  PROVE  CoreInv' /\ NoLaunch
<1>1. CASE WorkerUnreadable
  <2>1. fiber.op.state.phase = "worker-running"
    BY <1>1, SnapshotFacts DEF WorkerUnreadable, PcFits
  <2> QED BY <1>1, <2>1, RejectInv DEF WorkerUnreadable, Reject, FailsIn, FailurePoint
<1>2. CASE RecordingFails
  <2>1. fiber.op.state.phase = "round-recording"
    BY <1>2, SnapshotFacts DEF RecordingFails, PcFits
  <2> QED BY <1>2, <2>1, RejectInv DEF RecordingFails, Reject, FailsIn, FailurePoint
<1>3. CASE DraftFails
  <2>1. fiber.op.state.phase = "report-drafting"
    BY <1>3, SnapshotFacts DEF DraftFails, PcFits, Drafting
  <2> QED BY <1>3, <2>1, RejectInv DEF DraftFails, Drafting, Reject, FailsIn, FailurePoint
<1> QED BY <1>1, <1>2, <1>3

(* Effects that land outside the row.                                      *)
LEMMA WithinPhaseInv ==
  ASSUME CoreInv, RecordRound \/ Recapture \/ FileGeneration
  PROVE  CoreInv' /\ NoLaunch
<1>1. /\ fiber.pc \in {"record", "draft", "recaptured", "handed"}
      /\ row' = row /\ nextOp' = nextOp /\ ready' = ready
      /\ \E pc \in {"recorded", "recaptured", "filed"} :
           /\ fiber' = [fiber EXCEPT !.pc = pc]
           /\ PcFits(fiber.pc, fiber.op.state.phase) => PcFits(pc, fiber.op.state.phase)
  BY DEF RecordRound, Recapture, FileGeneration, DraftStep, durable, PcFits, Drafting
<1>2. /\ fiber' \in Fiber /\ fiber'.op = fiber.op
      /\ fiber'.pc \in {"recorded", "recaptured", "filed"}
      /\ PcFits(fiber'.pc, fiber.op.state.phase)
  BY <1>1, SnapshotFacts DEF Fiber, Pc
<1>3. DecisionFits' /\ ~ready.renew
  BY <1>1, <1>2 DEF DecisionFits, CoreInv, RenewFits
<1> QED BY <1>1, <1>2, <1>3, KeepsRow DEF Running, NoLaunch

(* A new epoch of the report handoff.                                      *)
LEMMA EpochState ==
  ASSUME NEW s \in State, SoundState(s), s.phase = "report-drafting", NEW epoch \in Nat
  PROVE  LET n == [s EXCEPT !.epoch = epoch]
         IN  /\ n \in State /\ SoundState(n) /\ ~n.returned /\ n.phase = "report-drafting"
             /\ Keeps(s, n, {"base", "exec", "worker", "commits"}) /\ n.epoch = epoch
<1> DEFINE n == [s EXCEPT !.epoch = epoch]
<1>1. n \in State /\ n.phase = "report-drafting" /\ n.epoch = epoch
  BY DEF State
<1>2. /\ n.base = s.base /\ n.exec = s.exec /\ n.worker = s.worker /\ n.commits = s.commits
      /\ n.returned = s.returned /\ ~s.returned /\ n.result = "none"
  BY DEF State, SoundState
<1>3. Keeps(s, n, {"base", "exec", "worker", "commits"})
  BY <1>2 DEF Keeps
<1> QED BY <1>1, <1>2, <1>3 DEF SoundState, Settlement

LEMMA RenewedRow ==
  ASSUME CoreInv, row.state.phase = "report-drafting"
  PROVE  LET renewed == Swapped(row, [row.state EXCEPT !.epoch = row.rev + 1])
         IN  /\ renewed \in Row /\ renewed.op = row.op /\ renewed.rev = row.rev + 1
             /\ Sound(renewed) /\ renewed.state.phase = "report-drafting"
<1>1. row \in Row /\ row.state \in State /\ row.rev \in Nat /\ Sound(row)
  BY DEF CoreInv, Row
<1> DEFINE n == [row.state EXCEPT !.epoch = row.rev + 1]
<1>2. n \in State /\ SoundState(n) /\ n.phase = "report-drafting"
  BY <1>1, EpochState DEF Sound
<1> HIDE DEF n
<1>3. /\ Swapped(row, n) \in Row /\ Swapped(row, n).op = row.op
      /\ Swapped(row, n).rev = row.rev + 1 /\ Swapped(row, n).state = n
  BY <1>1, <1>2, SwappedRow
<1>4. Sound(Swapped(row, n))
  BY <1>2, <1>3 DEF Sound, Returned
<1> QED BY <1>2, <1>3, <1>4 DEF n

LEMMA RecordHandoffInv ==
  ASSUME CoreInv, RecordHandoff
  PROVE  CoreInv' /\ NoLaunch
<1>1. /\ fiber.pc = "recaptured" /\ row.state.phase = "report-drafting"
      /\ fiber.op.state.phase = "report-drafting"
      /\ nextOp' = nextOp /\ ready' = ready
  BY SnapshotFacts DEF RecordHandoff, PcFits, Drafting
<1>2. ~ready.renew /\ ready \in Continuation /\ row.op < nextOp /\ nextOp \in Nat \ {0} /\ Sound(row)
  BY <1>1 DEF CoreInv, RenewFits
<1>3. PcFits("handed", "report-drafting") /\ "handed" \in Pc
  BY DEF PcFits, Drafting, Pc
<1> DEFINE renewed == Swapped(row, [row.state EXCEPT !.epoch = row.rev + 1])
<1>4. /\ renewed \in Row /\ renewed.op = row.op /\ Sound(renewed)
      /\ renewed.state.phase = "report-drafting"
  BY <1>1, RenewedRow
<1> HIDE DEF renewed
<1>5. CASE row' = row /\ fiber' = [fiber EXCEPT !.op = fiber.op, !.pc = "handed"]
  <2>1. fiber' \in Fiber /\ fiber'.op = fiber.op /\ fiber'.pc = "handed"
    BY <1>1, <1>3, <1>5, SnapshotFacts DEF Fiber
  <2>2. DecisionFits'
    BY <2>1 DEF DecisionFits
  <2> QED BY <1>1, <1>2, <1>3, <1>5, <2>1, <2>2, KeepsRow DEF Running, NoLaunch
<1>6. CASE row' = row /\ fiber' = [fiber EXCEPT !.op = row, !.pc = "handed"]
  <2>1. fiber' \in Fiber /\ fiber'.op = row' /\ fiber'.pc = "handed"
    BY <1>1, <1>3, <1>6, SnapshotFacts DEF Fiber
  <2> QED BY <1>1, <1>2, <1>3, <1>6, <2>1, SnapshotFacts, HoldsRow DEF NoLaunch
<1>7. CASE row' = renewed /\ fiber' = [fiber EXCEPT !.op = renewed, !.pc = "handed"]
  <2>1. fiber' \in Fiber /\ fiber'.op = row' /\ fiber'.pc = "handed"
    BY <1>1, <1>3, <1>4, <1>7, SnapshotFacts DEF Fiber
  <2>2. Present(row)'
    BY <1>1, <1>4, <1>7, SnapshotFacts DEF Present
  <2> QED BY <1>1, <1>2, <1>3, <1>4, <1>7, <2>1, <2>2, HoldsRow DEF NoLaunch
<1> QED BY <1>5, <1>6, <1>7 DEF RecordHandoff, renewed

-----------------------------------------------------------------------------
(* The end of drive(), and its drain.                                      *)

LEMMA SettlesDrive ==
  ASSUME CoreInv, fiber.pc # "idle", EndDrive \/ RejectDrive,
         nextOp' = nextOp, row' \in Row, Sound(row)', row'.op \in {0, row.op},
         (Present(row) \/ row = NoRow)'
  PROVE  CoreInv' /\ NoLaunch
<1>1. fiber' = Idle /\ fiber'.pc = "idle"
  BY DEF EndDrive, RejectDrive, Idle
<1>2. ready' \in Continuation /\ ~ready'.renew
  <2>1. fiber.freshOp \in Nat /\ fiber.fresh \in Dispatch \cup {NoDispatch} /\ fiber.retryOp \in Nat
    BY SnapshotFacts DEF Fiber
  <2>2. CASE EndDrive
    BY <2>1, <2>2 DEF EndDrive, Continuation
  <2>3. CASE RejectDrive
    <3>1. NoContinuation \in Continuation /\ ~NoContinuation.renew
      BY DEF NoContinuation, Continuation
    <3>2. ready' = [NoContinuation EXCEPT !.retryOp = fiber.retryOp]
      BY <2>3 DEF RejectDrive
    <3> QED BY <2>1, <3>1, <3>2 DEF Continuation
  <2> QED BY <2>2, <2>3
<1>3. row'.op < nextOp' /\ nextOp' \in Nat \ {0}
  BY DEF CoreInv
<1> QED BY <1>1, <1>2, <1>3, GoesIdle DEF NoLaunch

LEMMA LeavesRowInv ==
  ASSUME CoreInv, Superseded \/ DrainFails \/ Retain
  PROVE  CoreInv' /\ NoLaunch
<1>1. fiber.pc # "idle" /\ (EndDrive \/ RejectDrive) /\ row' = row /\ nextOp' = nextOp
  BY DEF Superseded, DrainFails, Retain, Drafting, durable
<1> QED BY <1>1, SettlesDrive DEF CoreInv, Present, Sound, SoundState, Returned

LEMMA DrainTerminalInv ==
  ASSUME CoreInv, NEW wanted \in Dispatch \cup {NoDispatch}, DrainTerminal(wanted)
  PROVE  CoreInv' /\ NoLaunch
<1>1. /\ fiber.pc = "drain" /\ row' = row /\ nextOp' = nextOp /\ ready' = ready
      /\ fiber.op.state.phase \in {"completed", "failed"}
  BY SnapshotFacts DEF DrainTerminal, durable, PcFits
<1>2. ~ready.renew /\ Sound(fiber.op) /\ fiber \in Fiber
  BY <1>1 DEF CoreInv, RenewFits
<1> DEFINE t == fiber.op
<1>3. CASE Returned(t)
  <2>1. fiber' = [fiber EXCEPT !.pc = "apply", !.decision = "retain"] /\ ~t.rerun
    BY <1>2, <1>3 DEF DrainTerminal, Sound
  <2>2. /\ fiber' \in Fiber /\ fiber'.op = fiber.op /\ fiber'.pc = "apply"
        /\ fiber'.decision = "retain"
    BY <1>2, <2>1 DEF Fiber, Pc, Decision
  <2>3. DecisionFits' /\ PcFits(fiber'.pc, fiber.op.state.phase)
    BY <1>1, <2>1, <2>2 DEF DecisionFits, PcFits, Drafting
  <2> QED BY <1>1, <1>2, <2>2, <2>3, KeepsRow DEF Running, NoLaunch
<1>4. CASE ~Returned(t) /\ ~t.rerun
  <2> DEFINE how == IF t.state.phase = "failed" THEN "retain" ELSE "return"
  <2>1. fiber' = [fiber EXCEPT !.pc = "apply", !.decision = how]
    BY <1>4 DEF DrainTerminal
  <2>2. how \in {"retain", "return"} /\ (how = "return" => t.state.phase = "completed")
    BY <1>1
  <2> HIDE DEF how
  <2>3. /\ fiber' \in Fiber /\ fiber'.op = fiber.op /\ fiber'.pc = "apply"
        /\ fiber'.decision = how
    BY <1>2, <2>1, <2>2 DEF Fiber, Pc, Decision
  <2>4. DecisionFits' /\ PcFits(fiber'.pc, fiber.op.state.phase)
    BY <1>1, <1>4, <2>2, <2>3 DEF DecisionFits, PcFits, Drafting, Returned
  <2> QED BY <1>1, <1>2, <2>3, <2>4, KeepsRow DEF Running, NoLaunch
<1>5. CASE ~Returned(t) /\ t.rerun /\ wanted = NoDispatch
  <2>1. fiber' = [fiber EXCEPT !.pc = "apply", !.decision = "clear-queued"]
    BY <1>5 DEF DrainTerminal
  <2>2. /\ fiber' \in Fiber /\ fiber'.op = fiber.op /\ fiber'.pc = "apply"
        /\ fiber'.decision = "clear-queued"
    BY <1>2, <2>1 DEF Fiber, Pc, Decision
  <2>3. DecisionFits' /\ PcFits(fiber'.pc, fiber.op.state.phase)
    BY <1>1, <1>5, <2>2 DEF DecisionFits, PcFits, Drafting
  <2> QED BY <1>1, <1>2, <2>2, <2>3, KeepsRow DEF Running, NoLaunch
<1>6. CASE ~Returned(t) /\ t.rerun /\ wanted # NoDispatch
  <2>1. fiber' = [fiber EXCEPT !.pc = "compose", !.draft = wanted]
    BY <1>6 DEF DrainTerminal
  <2>2. /\ fiber' \in Fiber /\ fiber'.op = fiber.op /\ fiber'.pc = "compose"
        /\ fiber'.draft = wanted
    BY <1>2, <2>1 DEF Fiber, Pc
  <2>3. DecisionFits' /\ PcFits(fiber'.pc, fiber.op.state.phase)
    BY <1>1, <1>6, <2>2 DEF DecisionFits, PcFits, Drafting
  <2> QED BY <1>1, <1>2, <2>2, <2>3, KeepsRow DEF Running, NoLaunch
<1> QED BY <1>3, <1>4, <1>5, <1>6

LEMMA ComposeReplacementInv ==
  ASSUME CoreInv, ComposeReplacement, ready = NoContinuation
  PROVE  CoreInv' /\ NoLaunch
<1>1. /\ fiber.pc = "compose" /\ row' = row /\ nextOp' = nextOp /\ ready' = ready
      /\ fiber' = [fiber EXCEPT !.pc = "apply", !.decision = "replace"]
      /\ fiber.op.state.phase \in {"completed", "failed"}
  BY SnapshotFacts DEF ComposeReplacement, durable, PcFits
<1>2. /\ fiber' \in Fiber /\ fiber'.op = fiber.op /\ fiber'.pc = "apply"
      /\ fiber'.decision = "replace" /\ fiber'.draft = fiber.draft
  BY <1>1, SnapshotFacts DEF Fiber, Pc, Decision
<1>3. DecisionFits' /\ PcFits(fiber'.pc, fiber.op.state.phase)
  BY <1>1, <1>2 DEF DecisionFits, PcFits, Drafting, CoreInv
<1>4. ~ready.renew
  BY DEF NoContinuation
<1> QED BY <1>1, <1>2, <1>3, <1>4, KeepsRow DEF Running, NoLaunch

(* The snapshot drain() goes on from is the row it has just read.          *)
LEMMA RedriveInv ==
  ASSUME CoreInv, Redrive
  PROVE  CoreInv' /\ NoLaunch
<1>1. /\ fiber.pc = "apply" /\ row' = row /\ nextOp' = nextOp /\ ready' = ready
      /\ fiber' = [fiber EXCEPT !.op = row, !.pc = EffectOf(row.state.phase),
                                !.decision = "none", !.draft = NoDispatch]
  BY DEF Redrive, durable
<1>2. row.state.phase \in Phase /\ row \in Row /\ Present(row)
  BY <1>1, SnapshotFacts DEF Row, State
<1> DEFINE pc == EffectOf(row.state.phase)
<1>3. /\ pc \in Pc /\ pc \notin {"idle", "compose", "apply", "launch"}
      /\ PcFits(pc, row.state.phase)
  BY <1>2, EffectOfFits DEF Pc
<1> HIDE DEF pc
<1>4. fiber' = [fiber EXCEPT !.op = row, !.pc = pc, !.decision = "none", !.draft = NoDispatch]
  BY <1>1 DEF pc
<1>5. fiber' \in Fiber /\ fiber'.op = row' /\ fiber'.pc = pc
  BY <1>1, <1>2, <1>3, <1>4, SnapshotFacts DEF Fiber, Decision
<1>6. ready' \in Continuation /\ ~ready'.renew /\ Sound(row)' /\ Present(row)' /\ row' \in Row
      /\ row'.op < nextOp' /\ nextOp' \in Nat \ {0}
  BY <1>1, <1>2 DEF CoreInv, RenewFits, Present
<1> QED BY <1>1, <1>3, <1>5, <1>6, HoldsRow DEF NoLaunch

LEMMA ReplaceQueuedInv ==
  ASSUME CoreInv, ReplaceQueued
  PROVE  CoreInv' /\ NoLaunch
<1>1. /\ fiber.pc = "apply" /\ fiber.draft \in Dispatch
      /\ nextOp \in Nat \ {0} /\ nextOp' = nextOp + 1
      /\ row' = NewOperation(nextOp, fiber.draft)
      /\ ready' = ready /\ ready \in Continuation /\ ~ready.renew
  BY DEF ReplaceQueued, CoreInv, DecisionFits, RenewFits
<1>2. /\ row' \in Row /\ row'.op = nextOp /\ row'.state = Claimed /\ Sound(row)'
  BY <1>1, NewRow
<1>3. /\ EffectOf("claimed") = "plan" /\ PcFits("plan", row'.state.phase) /\ "plan" \in Pc
  BY <1>2 DEF EffectOf, PcFits, Drafting, Claimed, Pc
<1>4. /\ fiber' \in Fiber /\ fiber'.op = row' /\ fiber'.pc = "plan"
  <2>1. fiber' = [fiber EXCEPT !.op = row', !.pc = "plan", !.decision = "none", !.draft = NoDispatch]
    BY <1>3 DEF ReplaceQueued
  <2> QED BY <1>1, <1>2, <1>3, <2>1, SnapshotFacts DEF Fiber, Decision
<1>5. Present(row)' /\ row'.op < nextOp' /\ nextOp' \in Nat \ {0}
  BY <1>1, <1>2 DEF Present
<1> QED BY <1>1, <1>2, <1>3, <1>4, <1>5, HoldsRow DEF NoLaunch

LEMMA ClearQueuedInv ==
  ASSUME CoreInv, ClearQueued
  PROVE  CoreInv' /\ NoLaunch
<1>1. fiber.pc # "idle" /\ EndDrive /\ row' = NoRow /\ nextOp' = nextOp
  BY DEF ClearQueued
<1>2. row'.op = 0 /\ row' \in Row /\ Sound(row)'
  BY <1>1, IdleFiber DEF NoRow, Sound, SoundState, Returned
<1> QED BY <1>1, <1>2, SettlesDrive

LEMMA RecordReturnInv ==
  ASSUME CoreInv, RecordReturn
  PROVE  CoreInv' /\ NoLaunch
<1>1. /\ fiber.pc = "apply" /\ EndDrive /\ nextOp' = nextOp /\ ~row.rerun
      /\ row.state.phase = "completed" /\ ~row.state.returned
  BY DEF RecordReturn, CoreInv, FiberOwnsRow, Running, DecisionFits
<1>2. row \in Row /\ row.state \in State /\ Present(row)
  BY <1>1, SnapshotFacts DEF Row
<1> DEFINE n == [row.state EXCEPT !.returned = TRUE]
<1>3. n \in State /\ n.phase = "completed"
  BY <1>1, <1>2 DEF State
<1>4. SoundState(n)
  BY <1>3 DEF SoundState, Settlement
<1> HIDE DEF n
<1>5. row' = Swapped(row, n)
  BY DEF RecordReturn, n
<1>6. row' \in Row /\ row'.op = row.op /\ row'.state = n /\ row'.rerun = row.rerun
  BY <1>2, <1>3, <1>5, SwappedRow
<1>7. Sound(row)' /\ Present(row)'
  BY <1>1, <1>2, <1>4, <1>6 DEF Sound, Present
<1> QED BY <1>1, <1>6, <1>7, SettlesDrive

-----------------------------------------------------------------------------
(* Commands, continuations and recovery.                                   *)

(* A row handed back is drained by nobody, or without an await.            *)
LEMMA ReturnedBusy ==
  ASSUME CoreInv, Running, ~Busy
  PROVE  ~Returned(row)
<1> SUFFICES ASSUME Returned(row) PROVE FALSE
  OBVIOUS
<1>1. fiber.op.state = row.state
  BY DEF CoreInv, TerminalHeld, Returned, IsTerminal
<1>2. Returned(fiber.op) /\ fiber.op.state.phase = "completed"
  BY <1>1 DEF Returned
<1>3. fiber.pc \in {"drain", "compose", "apply"}
  BY <1>2, SnapshotFacts DEF Fiber, Pc, PcFits, Drafting, Running
<1>4. fiber.pc # "compose"
  BY <1>2 DEF CoreInv, DecisionFits, Sound
<1> QED BY <1>2, <1>3, <1>4 DEF Busy, AwaitsBoardQueue, Returned

(* start() on a row just written.                                          *)
LEMMA StartInv ==
  ASSUME CoreInv, row' \in Row, Sound(row)', row'.op < nextOp', nextOp' \in Nat \ {0}, Present(row)',
         ready' \in Continuation, ~ready'.renew, Start(row'),
         Running => /\ row'.op = row.op /\ row'.rev >= row.rev
                    /\ row'.rev = row.rev => row' = row
                    /\ IsTerminal(row') => row'.state = row.state
  PROVE  CoreInv' /\ NoLaunch
<1>1. CASE Running
  <2>1. fiber' = fiber
    BY <1>1 DEF Start
  <2>2. RenewFits'
    BY DEF RenewFits
  <2> QED BY <1>1, <2>1, <2>2, SnapshotFacts, KeepsFiber DEF NoLaunch, Running
<1>2. CASE ~Running
  <2>1. fiber' = Driving(row')
    BY <1>2 DEF Start
  <2>2. fiber' \in Fiber /\ fiber'.pc = EffectOf(row'.state.phase) /\ fiber'.op = row'
    BY <2>1, DrivingFiber
  <2>3. row'.state.phase \in Phase
    BY DEF Row, State
  <2>4. PcFits(fiber'.pc, row'.state.phase) /\ fiber'.pc \notin {"idle", "compose", "apply", "launch"}
    BY <2>2, <2>3, EffectOfFits
  <2> QED BY <2>2, <2>4, HoldsRow DEF NoLaunch
<1> QED BY <1>1, <1>2

(* submit(): a new row, a queued rerun, or a drain before the fresh row.   *)
LEMMA SubmitOperationInv ==
  ASSUME CoreInv, NEW d \in Dispatch \cup {NoDispatch}, Running => ~Busy, ~ready.renew,
         ready' \in Continuation, ~ready'.renew,
         SubmitOperation(d)
  PROVE  CoreInv' /\ NoLaunch
<1>1. /\ row \in Row /\ nextOp \in Nat \ {0} /\ row.op < nextOp /\ Sound(row)
      /\ Present(row) \/ row = NoRow
  BY DEF CoreInv
<1>2. Running => Present(row) /\ ~Returned(row)
  BY ReturnedBusy DEF CoreInv, FiberOwnsRow
<1>3. CASE Claimable
  <2>1. ~Running
    BY <1>2, <1>3 DEF Claimable
  <2>2. row' = NewOperation(nextOp, d) /\ nextOp' = nextOp + 1 /\ Start(row')
    BY <1>3 DEF SubmitOperation
  <2>3. row' \in Row /\ row'.op = nextOp /\ Sound(row)'
    BY <1>1, <2>2, NewRow
  <2>4. Present(row)' /\ row'.op < nextOp' /\ nextOp' \in Nat \ {0}
    BY <1>1, <2>2, <2>3 DEF Present
  <2> QED BY <2>1, <2>2, <2>3, <2>4, StartInv
<1>4. CASE ~Claimable
  <2>1. Present(row) /\ ~Returned(row) /\ nextOp' = nextOp
    BY <1>1, <1>4 DEF Claimable, Sound, SubmitOperation
  <2>2. /\ Requeued(row) \in Row /\ Requeued(row).op = row.op /\ Requeued(row).rev >= row.rev
        /\ Requeued(row).rev = row.rev => Requeued(row) = row
        /\ Requeued(row).state = row.state
    BY <1>1, RequeuedRow
  <2>3. row' \in {row, Requeued(row)}
    BY <1>4 DEF SubmitOperation
  <2>4. /\ row' \in Row /\ row'.op = row.op /\ row'.rev >= row.rev
        /\ row'.rev = row.rev => row' = row
        /\ row'.state = row.state
    BY <1>1, <2>2, <2>3 DEF Row
  <2>5. Sound(row)' /\ Present(row)' /\ row'.op < nextOp' /\ nextOp' \in Nat \ {0}
    BY <1>1, <2>1, <2>4 DEF Sound, Returned, Present
  <2>6. CASE Start(row')
    BY <2>4, <2>5, <2>6, StartInv
  <2>7. CASE Running /\ fiber' = fiber
    <3>1. RenewFits'
      BY DEF RenewFits
    <3> QED BY <2>1, <2>4, <2>5, <2>7, <3>1, KeepsFiber DEF NoLaunch
  <2>8. CASE row' = row /\ fiber' = [Driving(row) EXCEPT !.freshOp = row.op, !.fresh = d]
    <3>1. row.op \in Nat /\ row.state.phase \in Phase
      BY <1>1 DEF Row, State
    <3>2. /\ Driving(row) \in Fiber /\ Driving(row).op = row
          /\ Driving(row).pc = EffectOf(row.state.phase)
      BY <1>1, DrivingFiber
    <3>3. fiber' \in Fiber /\ fiber'.op = row' /\ fiber'.pc = EffectOf(row'.state.phase)
      BY <2>8, <3>1, <3>2 DEF Fiber
    <3>4. PcFits(fiber'.pc, row'.state.phase) /\ fiber'.pc \notin {"idle", "compose", "apply", "launch"}
      BY <2>8, <3>1, <3>3, EffectOfFits
    <3> QED BY <2>4, <2>5, <3>3, <3>4, HoldsRow DEF NoLaunch
  <2> QED BY <1>4, <2>6, <2>7, <2>8 DEF SubmitOperation
<1> QED BY <1>3, <1>4

LEMMA NotBusy ==
  ASSUME CoreInv, ~Busy
  PROVE  ready = NoContinuation /\ ready \in Continuation /\ ~ready.renew /\ ready.freshOp = 0
BY DEF Busy, NoContinuation, CoreInv

LEMMA SubmitInv ==
  ASSUME CoreInv, NEW d \in Dispatch, Submit(d)
  PROVE  CoreInv' /\ NoLaunch
BY NotBusy, SubmitOperationInv DEF Submit

LEMMA SubmitFreshInv ==
  ASSUME CoreInv, SubmitFresh
  PROVE  CoreInv' /\ NoLaunch
<1>1. ready \in Continuation /\ ~ready.renew /\ ready.fresh \in Dispatch \cup {NoDispatch}
  BY DEF SubmitFresh, CoreInv, RenewFits, Continuation
<1>2. ready' = [ready EXCEPT !.freshOp = 0, !.fresh = NoDispatch] /\ ~Running
      /\ SubmitOperation(ready.fresh)
  BY DEF SubmitFresh, Running
<1>3. ready' \in Continuation /\ ~ready'.renew
  BY <1>1, <1>2 DEF Continuation
<1> QED BY <1>1, <1>2, <1>3, SubmitOperationInv

LEMMA QueueBehindInv ==
  ASSUME CoreInv, NEW d \in Dispatch, QueueBehind(d)
  PROVE  CoreInv' /\ NoLaunch
<1>1. /\ row \in Row /\ nextOp' = nextOp /\ row.op < nextOp /\ nextOp \in Nat \ {0}
      /\ Present(row) /\ ~Returned(row) /\ Sound(row)
      /\ Start(row') /\ row' \in {row, Requeued(row)}
  BY DEF QueueBehind, Owned, CoreInv
<1>2. /\ Requeued(row) \in Row /\ Requeued(row).op = row.op /\ Requeued(row).rev >= row.rev
      /\ Requeued(row).rev = row.rev => Requeued(row) = row
      /\ Requeued(row).state = row.state
  BY <1>1, RequeuedRow
<1>3. /\ row' \in Row /\ row'.op = row.op /\ row'.rev >= row.rev
      /\ row'.rev = row.rev => row' = row
      /\ row'.state = row.state
  BY <1>1, <1>2 DEF Row
<1>4. Sound(row)' /\ Present(row)'
  BY <1>1, <1>3 DEF Sound, Returned, Present
<1>5. ready' \in Continuation /\ ~ready'.renew
  BY NotBusy DEF QueueBehind
<1> QED BY <1>1, <1>3, <1>4, <1>5, StartInv

(* Retry goes back to the failed effect with the receipts before it.       *)
LEMMA RetriedState ==
  ASSUME NEW s \in State, SoundState(s), s.phase = "failed"
  PROVE  /\ RetryState(s) \in State /\ SoundState(RetryState(s))
         /\ RetryState(s).phase = RetryPhase(s.at)
         /\ RetryPhase(s.at) \in {"claimed", "prepared", "committing", "round-recording",
                                  "report-drafting", "report-verifying"}
<1> DEFINE to == RetryPhase(s.at)
           exec == IF s.at = "worker" THEN 0 ELSE s.exec
<1>1. /\ to \in {"claimed", "prepared", "committing", "round-recording",
                 "report-drafting", "report-verifying"}
      /\ to \in Settlement => s.at \in Settlement
  BY DEF SoundState, RetryPhase, FailurePoint, Settlement
<1>2. exec \in Nat
  BY DEF State
<1>3. RetryState(s) = [s EXCEPT !.phase = to, !.at = "none", !.exec = exec]
  BY DEF RetryState, State
<1> HIDE DEF to, exec
<1>4. RetryState(s) \in State /\ RetryState(s).phase = to
  BY <1>1, <1>2, <1>3 DEF State, Phase
<1>5. /\ RetryState(s).worker = s.worker /\ RetryState(s).commits = s.commits
      /\ RetryState(s).returned = s.returned /\ RetryState(s).result = s.result
  BY <1>3 DEF State
<1> QED BY <1>1, <1>4, <1>5 DEF SoundState, Settlement, to

LEMMA RetriedRow ==
  ASSUME NEW r \in Row, Sound(r), r.state.phase = "failed"
  PROVE  LET n == Swapped(r, RetryState(r.state))
         IN  /\ n \in Row /\ n.op = r.op /\ n.rev = r.rev + 1 /\ Sound(n)
             /\ n.state.phase = RetryPhase(r.state.at) /\ ~IsTerminal(n)
<1>1. r.state \in State /\ SoundState(r.state)
  BY DEF Row, Sound
<1> DEFINE m == RetryState(r.state)
<1>2. /\ m \in State /\ SoundState(m) /\ m.phase = RetryPhase(r.state.at)
      /\ m.phase \notin {"completed", "failed"}
  BY <1>1, RetriedState
<1> HIDE DEF m
<1>3. /\ Swapped(r, m) \in Row /\ Swapped(r, m).op = r.op
      /\ Swapped(r, m).rev = r.rev + 1 /\ Swapped(r, m).state = m
  BY <1>2, SwappedRow
<1> QED BY <1>2, <1>3 DEF Sound, Returned, IsTerminal, m

(* A failed row whose drive() is still in flight is composing its          *)
(* successor.                                                              *)
LEMMA FailedComposes ==
  ASSUME CoreInv, ~Busy, Running, row.state.phase = "failed"
  PROVE  fiber.pc = "compose"
<1>1. fiber.op.state = row.state
  BY DEF CoreInv, TerminalHeld, IsTerminal
<1>2. fiber.pc \in {"drain", "compose", "apply"}
  BY <1>1, SnapshotFacts DEF Fiber, Pc, PcFits, Drafting, Running
<1>3. fiber.op.state.result # "unchanged"
  BY <1>1, SnapshotFacts DEF SoundState, Running
<1> QED BY <1>2, <1>3 DEF Busy, AwaitsBoardQueue

LEMMA RetryFailedInv ==
  ASSUME CoreInv, ~Busy, NEW awaited \in BOOLEAN, RetryFailed(awaited), nextOp' = nextOp
  PROVE  CoreInv' /\ NoLaunch
<1>1. /\ row \in Row /\ Sound(row) /\ row.state.phase = "failed"
      /\ row.op < nextOp /\ nextOp \in Nat \ {0} /\ Present(row)
  BY DEF RetryFailed, CoreInv, NoRow, Claimed
<1>2. row' = Swapped(row, RetryState(row.state))
  BY DEF RetryFailed
<1>3. /\ row' \in Row /\ row'.op = row.op /\ row'.rev = row.rev + 1 /\ Sound(row)'
      /\ row'.state.phase = RetryPhase(row.state.at) /\ ~IsTerminal(row')
  BY <1>1, <1>2, RetriedRow DEF Sound, SoundState, Returned
<1>4. /\ Present(row)' /\ row'.op < nextOp' /\ nextOp' \in Nat \ {0}
      /\ row'.rev > row.rev /\ row'.rev >= row.rev
  BY <1>1, <1>3 DEF Present, Row
<1> DEFINE renew == row.state.at = "report-drafting" /\ row.state.epoch # 0
<1>5. renew \in BOOLEAN /\ (renew => row'.state.phase = "report-drafting")
  BY <1>3 DEF RetryPhase
<1>6. /\ ready' = [ready EXCEPT !.renew = renew]
      /\ fiber' = CASE Running -> [fiber EXCEPT !.retryOp = IF awaited THEN row.op ELSE @]
                    [] ~Running /\ renew -> fiber
                    [] OTHER -> Driving(row')
  BY DEF RetryFailed
<1> HIDE DEF renew
<1>7. ready' \in Continuation /\ ready'.renew = renew /\ ready'.freshOp = 0
  BY <1>5, <1>6, NotBusy DEF Continuation
<1>8. CASE Running
  <2>1. fiber.pc = "compose" /\ fiber \in Fiber
    BY <1>1, <1>8, FailedComposes DEF CoreInv
  <2> DEFINE waits == IF awaited THEN row.op ELSE fiber.retryOp
  <2>2. fiber' = [fiber EXCEPT !.retryOp = waits]
    BY <1>6, <1>8, <2>1 DEF Fiber
  <2>3. waits \in Nat
    BY <1>1, <2>1 DEF Row, Fiber
  <2> HIDE DEF waits
  <2>4. /\ fiber' \in Fiber /\ fiber'.pc = "compose" /\ fiber'.op = fiber.op
        /\ fiber'.draft = fiber.draft
    BY <2>1, <2>2, <2>3 DEF Fiber
  <2>5. (DecisionFits /\ PcFits(fiber.pc, fiber.op.state.phase) /\ Sound(fiber.op))'
    BY <2>1, <2>4 DEF CoreInv, DecisionFits
  <2>6. FiberOwnsRow'
    BY <1>1, <1>3, <1>4, <1>8, <2>4 DEF CoreInv, FiberOwnsRow, Running, Exact, Row, Fiber
  <2>7. (TerminalHeld /\ RenewFits)'
    BY <1>3, <1>4, <1>5, <1>7, <2>4 DEF TerminalHeld, RenewFits
  <2> QED BY <1>3, <1>4, <1>7, <2>4, <2>5, <2>6, <2>7 DEF CoreInv, NoLaunch
<1>9. CASE ~Running /\ renew
  <2>1. fiber' = fiber /\ fiber.pc = "idle"
    BY <1>6, <1>9 DEF Running
  <2>2. (FiberOwnsRow /\ TerminalHeld /\ DecisionFits /\ RenewFits)'
    BY <1>4, <1>5, <1>7, <2>1 DEF FiberOwnsRow, TerminalHeld, DecisionFits, RenewFits, Running
  <2> QED BY <1>3, <1>4, <1>7, <2>1, <2>2 DEF CoreInv, NoLaunch
<1>10. CASE ~Running /\ ~renew
  <2>1. Start(row')
    BY <1>6, <1>10 DEF Start
  <2> QED BY <1>3, <1>4, <1>7, <1>10, <2>1, StartInv
<1> QED BY <1>8, <1>9, <1>10

LEMMA RetryInv ==
  ASSUME CoreInv, Retry
  PROVE  CoreInv' /\ NoLaunch
BY RetryFailedInv DEF Retry

(* A new epoch of a drafting row, and start().                             *)
LEMMA RenewStarts ==
  ASSUME CoreInv, Present(row), row.state.phase = "report-drafting", nextOp' = nextOp,
         row' = Swapped(row, [row.state EXCEPT !.epoch = row.rev + 1]), Start(row'),
         ready' \in Continuation, ~ready'.renew
  PROVE  CoreInv' /\ NoLaunch
<1>1. /\ row' \in Row /\ row'.op = row.op /\ row'.rev = row.rev + 1 /\ Sound(row)'
      /\ row'.state.phase = "report-drafting"
  BY RenewedRow DEF Sound, SoundState, Returned
<1>2. row.rev \in Nat /\ row.op < nextOp /\ nextOp \in Nat \ {0}
  BY DEF CoreInv, Row
<1>3. Present(row)' /\ ~IsTerminal(row') /\ row'.rev > row.rev
  BY <1>1, <1>2 DEF Present, IsTerminal
<1> QED BY <1>1, <1>2, <1>3, StartInv

LEMMA RenewHandoffInv ==
  ASSUME CoreInv, RenewHandoff
  PROVE  CoreInv' /\ NoLaunch
<1>1. Present(row) /\ row.state.phase = "report-drafting" /\ ready \in Continuation
  BY DEF RenewHandoff, CoreInv, RenewFits
<1>2. ready' = [ready EXCEPT !.renew = FALSE] /\ nextOp' = nextOp
  BY DEF RenewHandoff
<1>3. ready' \in Continuation /\ ~ready'.renew
  BY <1>1, <1>2 DEF Continuation
<1> QED BY <1>1, <1>2, <1>3, RenewStarts DEF RenewHandoff

LEMMA ClearDrainedInv ==
  ASSUME CoreInv, ClearDrained
  PROVE  CoreInv' /\ NoLaunch
<1>1. fiber.pc = "idle" /\ fiber' = fiber /\ row' = NoRow /\ nextOp' = nextOp /\ ready' = ready
  BY DEF ClearDrained
<1>2. /\ row'.op = 0 /\ row' \in Row /\ Sound(row)' /\ row'.op < nextOp'
      /\ nextOp' \in Nat \ {0} /\ ready' \in Continuation /\ ~ready'.renew
  BY <1>1, IdleFiber DEF ClearDrained, CoreInv, RenewFits, NoRow, Sound, SoundState, Returned
<1>3. (FiberOwnsRow /\ TerminalHeld /\ DecisionFits /\ RenewFits)'
  BY <1>1, <1>2 DEF FiberOwnsRow, TerminalHeld, DecisionFits, RenewFits, Running
<1> QED BY <1>1, <1>2, <1>3 DEF CoreInv, NoLaunch

LEMMA ContinueRetryInv ==
  ASSUME CoreInv, ContinueRetry
  PROVE  CoreInv' /\ NoLaunch
<1>1. /\ row' = row /\ nextOp' = nextOp /\ ready' = NoContinuation
      /\ row \in Row /\ Sound(row) /\ row.op < nextOp /\ nextOp \in Nat \ {0}
      /\ Present(row) \/ row = NoRow
  BY DEF ContinueRetry, durable, CoreInv
<1>2. ready' \in Continuation /\ ~ready'.renew
  BY <1>1 DEF NoContinuation, Continuation
<1>3. Sound(row)' /\ row' \in Row /\ row'.op < nextOp' /\ nextOp' \in Nat \ {0}
      /\ (Present(row) \/ row = NoRow)'
  BY <1>1 DEF Sound, SoundState, Returned, Present
<1>4. CASE row.op = ready.retryOp /\ ~IsTerminal(row)
  <2>1. Start(row') /\ Present(row)'
    BY <1>1, <1>4 DEF ContinueRetry, Present
  <2>2. row'.op = row.op /\ row'.rev >= row.rev /\ row' = row /\ row'.state = row.state
    BY <1>1 DEF Row
  <2> QED BY <1>2, <1>3, <2>1, <2>2, StartInv
<1>5. CASE ~(row.op = ready.retryOp /\ ~IsTerminal(row))
  <2>1. fiber' = fiber
    BY <1>5 DEF ContinueRetry
  <2>2. (FiberOwnsRow /\ TerminalHeld /\ DecisionFits /\ RenewFits)'
    BY <1>1, <1>2, <2>1 DEF CoreInv, FiberOwnsRow, TerminalHeld, DecisionFits, RenewFits,
       Running, Exact, Present, IsTerminal
  <2>3. (Sound(fiber.op) /\ PcFits(fiber.pc, fiber.op.state.phase) /\ fiber \in Fiber)'
    BY <2>1 DEF CoreInv
  <2> QED BY <1>2, <1>3, <2>1, <2>2, <2>3 DEF CoreInv, NoLaunch
<1> QED BY <1>4, <1>5

(* Whatever was in flight is gone; the row is what it was.                 *)
LEMMA CrashInv ==
  ASSUME CoreInv, Crash
  PROVE  CoreInv' /\ NoLaunch
<1>1. /\ row' = row /\ nextOp' = nextOp /\ fiber' = Idle /\ ready' = NoContinuation
  BY DEF Crash, durable
<1>2. /\ Sound(row)' /\ row' \in Row /\ row'.op < nextOp' /\ nextOp' \in Nat \ {0}
      /\ (Present(row) \/ row = NoRow)'
  BY <1>1 DEF CoreInv, Sound, SoundState, Returned, Present
<1>3. ready' \in Continuation /\ ~ready'.renew
  BY <1>1 DEF NoContinuation, Continuation
<1> QED BY <1>1, <1>2, <1>3, GoesIdle DEF NoLaunch, Idle

LEMMA RecoverInv ==
  ASSUME CoreInv, Recover
  PROVE  CoreInv' /\ NoLaunch
<1>1. ~Busy /\ nextOp' = nextOp
  BY DEF Recover
<1>2. ready \in Continuation /\ ~ready.renew
  BY <1>1, NotBusy
<1>3. CASE RetryFailed(FALSE)
  BY <1>1, <1>3, RetryFailedInv
<1>4. CASE /\ row' = IF row.state.phase = "report-drafting" /\ row.state.epoch # 0
                     THEN Swapped(row, [row.state EXCEPT !.epoch = row.rev + 1])
                     ELSE row
           /\ IF Present(row) THEN Start(row') ELSE fiber' = fiber
           /\ ready' = ready
  <2>1. CASE row.state.phase = "report-drafting" /\ row.state.epoch # 0
    <3>1. Present(row)
      BY <2>1 DEF CoreInv, NoRow, Claimed
    <3> QED BY <1>1, <1>2, <1>4, <2>1, <3>1, RenewStarts
  <2>2. CASE ~(row.state.phase = "report-drafting" /\ row.state.epoch # 0)
    <3>1. row' = row
      BY <1>4, <2>2
    <3>2. /\ Sound(row)' /\ row' \in Row /\ row'.op < nextOp' /\ nextOp' \in Nat \ {0}
          /\ row \in Row /\ ready' \in Continuation /\ ~ready'.renew
      BY <1>1, <1>2, <1>4, <3>1 DEF CoreInv, Sound, SoundState, Returned, Present
    <3>3. CASE Present(row)
      <4>1. Start(row') /\ Present(row)'
        BY <1>4, <3>1, <3>3 DEF Present
      <4> QED BY <3>1, <3>2, <4>1, StartInv DEF Row
    <3>4. CASE ~Present(row)
      BY <1>1, <1>4, <3>1, <3>4 DEF CoreInv, FiberOwnsRow, TerminalHeld, DecisionFits,
         RenewFits, Running, Exact, Present, IsTerminal, Sound, SoundState, Returned, NoLaunch
    <3> QED BY <3>3, <3>4
  <2> QED BY <2>1, <2>2
<1> QED BY <1>3, <1>4 DEF Recover

(* What happens outside the daemon touches neither row nor drive().        *)
LEMMA UntouchedInv ==
  ASSUME CoreInv, UNCHANGED <<durable, fiber, ready>>
  PROVE  CoreInv' /\ NoLaunch
BY DEF durable, CoreInv, FiberOwnsRow, TerminalHeld, DecisionFits, RenewFits, Running, Exact,
   Present, IsTerminal, Sound, SoundState, Returned, NoLaunch

-----------------------------------------------------------------------------
(* Every step of the coordinator and of what surrounds it.                 *)

LEMMA ThreadStepInv ==
  ASSUME CoreInv, ThreadStep, ~PersistAttempt
  PROVE  CoreInv' /\ NoLaunch
<1>1. CASE \/ PersistCommitAttempt \/ PersistRecordingAttempt \/ PersistRecorded
           \/ FinishUnchanged \/ PrepareReport
  BY <1>1, AdvanceInv
<1>2. CASE Redrive
  BY <1>2, RedriveInv
<1>3. CASE ReplaceQueued
  BY <1>3, ReplaceQueuedInv
<1>4. CASE ClearQueued
  BY <1>4, ClearQueuedInv
<1>5. CASE RecordReturn
  BY <1>5, RecordReturnInv
<1>6. CASE Retain
  BY <1>6, LeavesRowInv
<1>7. CASE ClearDrained
  BY <1>7, ClearDrainedInv
<1>8. CASE SubmitFresh
  BY <1>8, SubmitFreshInv
<1>9. CASE ContinueRetry
  BY <1>9, ContinueRetryInv
<1>10. CASE RenewHandoff
  BY <1>10, RenewHandoffInv
<1> QED BY <1>1, <1>2, <1>3, <1>4, <1>5, <1>6, <1>7, <1>8, <1>9, <1>10 DEF ThreadStep

LEMMA EffectStepInv ==
  ASSUME CoreInv, OutsideInv, EffectStep
  PROVE  CoreInv' /\ NoLaunch
<1>1. head \in Nat /\ \A x \in DOMAIN turns : turns[x] \in Turn
  BY DEF OutsideInv
<1>2. CASE PlanWorkspace
  BY <1>1, <1>2, PlanWorkspaceInv
<1>3. CASE LaunchWorker
  BY <1>3, LaunchWorkerInv
<1>4. CASE WorkerReturns \/ ObserveWorker
  <2>1. /\ fiber.pc \in {"turn", "observe"} /\ SettleWorker(fiber.op.state.exec)
        /\ fiber.op.state.phase = "worker-running"
    BY <1>4, SnapshotFacts DEF WorkerReturns, ObserveWorker, PcFits
  <2> DEFINE e == fiber.op.state.exec
  <2>2. SettleWorker(e)
    BY <2>1
  <2> HIDE DEF e
  <2> QED BY <1>1, <2>1, <2>2, SettleWorkerInv
<1>5. CASE WorkerUnreadable \/ RecordingFails \/ DraftFails
  BY <1>5, EffectFailsInv
<1>6. CASE SettleCommits
  BY <1>1, <1>6, SettleCommitsInv
<1>7. CASE RecordHandoff
  BY <1>7, RecordHandoffInv
<1>8. CASE Superseded \/ DrainFails
  BY <1>8, LeavesRowInv
<1>9. CASE VerifyReport
  BY <1>9, VerifyReportInv
<1>10. CASE ComposeReplacement
  BY <1>10, ComposeReplacementInv DEF EffectStep
<1> QED BY <1>2, <1>3, <1>4, <1>5, <1>6, <1>7, <1>8, <1>9, <1>10 DEF EffectStep

LEMMA CoreStep ==
  ASSUME IInv, Next
  PROVE  CoreInv' /\ (NoLaunch \/ PersistAttempt)
<1>1. CoreInv /\ OutsideInv /\ nextExec \in Nat
  BY DEF IInv, OutsideInv
<1>2. CASE PersistAttempt
  BY <1>1, <1>2, PersistAttemptInv
<1>3. CASE ThreadStep /\ ~PersistAttempt
  BY <1>1, <1>3, ThreadStepInv
<1>4. CASE EffectStep
  BY <1>1, <1>4, EffectStepInv
<1>5. CASE RecordRound \/ Recapture \/ FileGeneration
  BY <1>1, <1>5, WithinPhaseInv
<1>6. CASE FinishDraft
  BY <1>1, <1>6, AdvanceInv
<1>7. ASSUME NEW d \in Dispatch \cup {NoDispatch}, DrainTerminal(d) PROVE CoreInv' /\ NoLaunch
  BY <1>1, <1>7, DrainTerminalInv
<1>8. ASSUME NEW d \in Dispatch, Submit(d) PROVE CoreInv' /\ NoLaunch
  BY <1>1, <1>8, SubmitInv
<1>9. ASSUME NEW d \in Dispatch, QueueBehind(d) PROVE CoreInv' /\ NoLaunch
  BY <1>1, <1>9, QueueBehindInv
<1>10. CASE Retry
  BY <1>1, <1>10, RetryInv
<1>11. CASE Recover
  BY <1>1, <1>11, RecoverInv
<1>12. CASE Crash
  BY <1>1, <1>12, CrashInv
<1>13. CASE EnvironmentStep
  BY <1>1, <1>13, UntouchedInv DEF EnvironmentStep, HumanCommit, TurnEnds, durable
<1> QED BY <1>2, <1>3, <1>4, <1>5, <1>6, <1>7, <1>8, <1>9, <1>10, <1>11, <1>12, <1>13 DEF Next

-----------------------------------------------------------------------------
(* Worker turns, budgets and what else lies outside the row.               *)

Counts == <<head, recovered, requests, retries, faults, crashes>>
CountsType ==
  /\ head \in Nat /\ recovered \in BOOLEAN
  /\ requests \in Nat /\ retries \in Nat /\ faults \in Nat /\ crashes \in Nat

LEMMA SettleFrame ==
  ASSUME NEW n, Settle(n)
  PROVE  UNCHANGED <<recovered, requests, retries, crashes>>
BY DEF Settle, Persist

LEMMA RejectFrame ==
  ASSUME CountsType, NEW point, Reject(point)
  PROVE  CountsType' /\ UNCHANGED <<turns, nextExec>>
BY SettleFrame DEF Reject, CountsType, outside

LEMMA DriveFrame ==
  ASSUME CountsType, ThreadStep \/ EffectStep \/ RecordRound \/ Recapture \/ FileGeneration \/ FinishDraft
  PROVE  /\ CountsType'
         /\ ~LaunchWorker => turns' = turns
         /\ ~PersistAttempt => nextExec' = nextExec
         /\ PersistAttempt => nextExec' = nextExec + 1
<1>1. CASE PersistAttempt
  BY <1>1 DEF PersistAttempt, Persist, CountsType
<1>2. CASE \/ PersistCommitAttempt \/ PersistRecordingAttempt \/ PersistRecorded
           \/ FinishUnchanged \/ PrepareReport \/ FinishDraft
  BY <1>2, SettleFrame DEF PersistCommitAttempt, PersistRecordingAttempt, PersistRecorded,
     FinishUnchanged, PrepareReport, FinishDraft, outside, CountsType, PersistAttempt
<1>3. CASE \/ Redrive \/ ReplaceQueued \/ ClearQueued \/ RecordReturn \/ Retain
  BY <1>3 DEF Redrive, ReplaceQueued, ClearQueued, RecordReturn, Retain, outside, budgets,
     CountsType, PersistAttempt
<1>4. CASE ClearDrained \/ SubmitFresh \/ ContinueRetry \/ RenewHandoff
  BY <1>4 DEF ClearDrained, SubmitFresh, ContinueRetry, RenewHandoff, outside, budgets,
     CountsType, PersistAttempt
<1>5. CASE PlanWorkspace
  BY <1>5, SettleFrame, RejectFrame DEF PlanWorkspace, outside, CountsType, PersistAttempt
<1>6. CASE LaunchWorker
  BY <1>6, RejectFrame DEF LaunchWorker, budgets, CountsType, PersistAttempt
<1>7. CASE WorkerReturns \/ ObserveWorker
  BY <1>7, SettleFrame DEF WorkerReturns, ObserveWorker, SettleWorker, outside, CountsType,
     PersistAttempt
<1>8. CASE WorkerUnreadable \/ RecordingFails \/ DraftFails
  BY <1>8, RejectFrame DEF WorkerUnreadable, RecordingFails, DraftFails, Drafting, PersistAttempt
<1>9. CASE SettleCommits
  BY <1>9, SettleFrame, RejectFrame DEF SettleCommits, outside, CountsType, PersistAttempt
<1>10. CASE RecordHandoff \/ Superseded \/ DrainFails \/ ComposeReplacement
  BY <1>10 DEF RecordHandoff, Superseded, DrainFails, ComposeReplacement, Drafting, outside,
     budgets, CountsType, PersistAttempt
<1>11. CASE VerifyReport
  BY <1>11, SettleFrame, RejectFrame DEF VerifyReport, outside, CountsType, PersistAttempt
<1>12. CASE RecordRound \/ Recapture \/ FileGeneration
  BY <1>12 DEF RecordRound, Recapture, FileGeneration, DraftStep, outside, budgets, CountsType,
     PersistAttempt
<1> QED BY <1>1, <1>2, <1>3, <1>4, <1>5, <1>6, <1>7, <1>8, <1>9, <1>10, <1>11, <1>12
        DEF ThreadStep, EffectStep

(* No turn is started, and execution ids only grow.                        *)
LEMMA TurnsKept ==
  ASSUME IInv, CountsType', turns' = turns,
         \/ nextExec' = nextExec /\ NoLaunch
         \/ /\ nextExec' = nextExec + 1
            /\ fiber'.pc = "launch" => fiber'.op.state.exec = nextExec
  PROVE  OutsideInv'
<1>1. \A e \in DOMAIN turns : e \in Nat /\ e < nextExec
  BY DEF IInv, OutsideInv, LaunchFits
<1>2. nextExec \in Nat \ {0} /\ nextExec' \in Nat \ {0} /\ nextExec <= nextExec'
  BY DEF IInv, OutsideInv
<1>3. \A e \in DOMAIN turns' : e < nextExec'
  BY <1>1, <1>2
<1>4. fiber'.pc = "launch" =>
        fiber'.op.state.exec < nextExec' /\ fiber'.op.state.exec \notin DOMAIN turns'
  BY <1>1, <1>2 DEF IInv, OutsideInv, LaunchFits, NoLaunch
<1>5. WorkerLaunchedOnce'
  BY DEF IInv, OutsideInv, WorkerLaunchedOnce
<1>6. (DOMAIN turns \subseteq Nat /\ \A e \in DOMAIN turns : turns[e] \in Turn)'
  BY DEF IInv, OutsideInv
<1> QED BY <1>2, <1>3, <1>4, <1>5, <1>6 DEF OutsideInv, LaunchFits, CountsType

(* A launch is the first of its id, which PersistAttempt made fresh.       *)
LEMMA LaunchTurns ==
  ASSUME IInv, CountsType', LaunchWorker, nextExec' = nextExec
  PROVE  OutsideInv'
<1>1. CASE Reject("worker")
  <2>1. turns' = turns /\ NoLaunch
    <3>1. fiber.op.state.phase = FailsIn("worker") /\ fiber.pc = "launch"
      BY SnapshotFacts DEF IInv, LaunchWorker, PcFits, FailsIn
    <3> QED BY <1>1, <3>1, RejectInv DEF IInv, Reject, outside, FailurePoint
  <2> QED BY <2>1, TurnsKept
<1>2. CASE ~Reject("worker")
  <2> DEFINE e == fiber.op.state.exec
             turn == [op |-> fiber.op.op, status |-> "running", edited |-> FALSE,
                      committed |-> FALSE, launches |-> 1]
  <2>1. /\ e \in Nat /\ e < nextExec /\ e \notin DOMAIN turns /\ fiber.op.op \in Nat
        /\ \A x \in DOMAIN turns : x \in Nat /\ x < nextExec /\ turns[x] \in Turn
                                   /\ turns[x].launches <= 1
    BY SnapshotFacts DEF IInv, OutsideInv, LaunchFits, LaunchWorker, Row, State, WorkerLaunchedOnce
  <2>2. /\ turns' = [x \in DOMAIN turns \cup {e} |-> IF x # e THEN turns[x] ELSE turn]
        /\ fiber'.pc = "turn"
    <3>1. fiber' = [fiber EXCEPT !.pc = "turn"]
      BY <1>2 DEF LaunchWorker
    <3>2. turns' = [x \in DOMAIN turns \cup {e} |-> IF x # e THEN turns[x] ELSE turn]
      BY <1>2, <2>1 DEF LaunchWorker
    <3>3. fiber \in Fiber
      BY DEF IInv, CoreInv
    <3> QED BY <3>1, <3>2, <3>3 DEF Fiber
  <2>3. turn \in Turn /\ turn.launches <= 1
    BY <2>1 DEF Turn
  <2> HIDE DEF e, turn
  <2>4. DOMAIN turns' = DOMAIN turns \cup {e} /\ turns'[e] = turn
        /\ \A x \in DOMAIN turns : turns'[x] = turns[x]
    BY <2>1, <2>2
  <2>5. \A x \in DOMAIN turns' : x \in Nat /\ x < nextExec' /\ turns'[x] \in Turn
                                 /\ turns'[x].launches <= 1
    BY <2>1, <2>3, <2>4
  <2>6. nextExec' \in Nat \ {0} /\ (LaunchFits /\ WorkerLaunchedOnce)'
    BY <2>2, <2>5 DEF IInv, OutsideInv, LaunchFits, WorkerLaunchedOnce
  <2> QED BY <2>5, <2>6 DEF OutsideInv, CountsType
<1> QED BY <1>1, <1>2

LEMMA TurnEndsTurns ==
  ASSUME IInv, NEW e \in DOMAIN turns, TurnEnds(e)
  PROVE  OutsideInv'
<1>1. /\ nextExec' = nextExec /\ fiber' = fiber
      /\ UNCHANGED <<recovered, requests, retries, faults, crashes>>
  BY DEF TurnEnds, budgets
<1>2. PICK status \in {"ready", "failed", "lost"}, edited \in BOOLEAN, commit \in {0, 1} :
        /\ turns' = [turns EXCEPT ![e] = [@ EXCEPT !.status = status, !.edited = edited,
                                                   !.committed = commit = 1]]
        /\ head' = head + commit
  BY DEF TurnEnds
<1> DEFINE committed == commit = 1
           turn == [turns[e] EXCEPT !.status = status, !.edited = edited,
                                    !.committed = committed]
<1>3. turns[e] \in Turn /\ turns[e].launches <= 1
  BY DEF IInv, OutsideInv, WorkerLaunchedOnce
<1>4. committed \in BOOLEAN
  OBVIOUS
<1>5. turns' = [turns EXCEPT ![e] = turn]
  BY <1>2
<1> HIDE DEF committed
<1>6. turn \in Turn /\ turn.launches <= 1
  BY <1>3, <1>4 DEF Turn
<1> HIDE DEF turn
<1>7. DOMAIN turns' = DOMAIN turns /\ turns'[e] = turn
      /\ \A x \in DOMAIN turns : x # e => turns'[x] = turns[x]
  BY <1>5
<1>8. (DOMAIN turns \subseteq Nat /\ \A x \in DOMAIN turns : turns[x] \in Turn)'
  BY <1>6, <1>7 DEF IInv, OutsideInv
<1>9. (WorkerLaunchedOnce /\ LaunchFits)'
  BY <1>1, <1>6, <1>7 DEF IInv, OutsideInv, WorkerLaunchedOnce, LaunchFits
<1>10. head' \in Nat
  BY <1>2 DEF IInv, OutsideInv
<1> QED BY <1>1, <1>8, <1>9, <1>10 DEF IInv, OutsideInv

LEMMA OutsideStep ==
  ASSUME IInv, Next
  PROVE  OutsideInv'
<1>1. CountsType /\ CoreInv /\ nextExec \in Nat
  BY DEF IInv, OutsideInv, CountsType
<1>2. NoLaunch \/ PersistAttempt
  BY CoreStep
<1>3. CASE ThreadStep \/ EffectStep \/ RecordRound \/ Recapture \/ FileGeneration \/ FinishDraft
  <2>1. CASE PersistAttempt
    BY <1>1, <1>3, <2>1, DriveFrame, PersistAttemptInv, TurnsKept DEF PersistAttempt, LaunchWorker
  <2>2. CASE LaunchWorker /\ ~PersistAttempt
    BY <1>1, <1>3, <2>2, DriveFrame, LaunchTurns
  <2>3. CASE ~LaunchWorker /\ ~PersistAttempt
    BY <1>1, <1>2, <1>3, <2>3, DriveFrame, TurnsKept
  <2> QED BY <2>1, <2>2, <2>3
<1>6. ASSUME NEW d, DrainTerminal(d) \/ Submit(d) \/ QueueBehind(d) PROVE OutsideInv'
  <2>1. UNCHANGED <<turns, nextExec>> /\ CountsType' /\ ~PersistAttempt
    BY <1>1, <1>6 DEF DrainTerminal, Submit, QueueBehind, outside, budgets, CountsType,
       PersistAttempt, Busy
  <2> QED BY <1>2, <2>1, TurnsKept
<1>7. CASE Retry \/ Recover
  <2>1. UNCHANGED <<turns, nextExec>> /\ ~PersistAttempt
    BY <1>7 DEF Retry, Recover, outside, PersistAttempt, Busy
  <2>2. recovered' \in BOOLEAN
    BY <1>1, <1>7 DEF Retry, Recover, CountsType
  <2>3. UNCHANGED head /\ requests' \in Nat /\ retries' \in Nat /\ faults' \in Nat /\ crashes' \in Nat
    <3>1. CASE Retry
      BY <1>1, <3>1 DEF Retry, outside, CountsType
    <3>2. CASE Recover
      BY <1>1, <3>2 DEF Recover, outside, budgets, CountsType
    <3> QED BY <1>7, <3>1, <3>2
  <2> QED BY <1>1, <1>2, <2>1, <2>2, <2>3, TurnsKept DEF CountsType
<1>8. CASE Crash
  <2>1. UNCHANGED <<turns, nextExec>> /\ NoLaunch
    BY <1>1, <1>8, CrashInv DEF Crash, outside
  <2>2. recovered' \in BOOLEAN
    BY <1>8 DEF Crash
  <2>3. UNCHANGED head /\ requests' \in Nat /\ retries' \in Nat /\ faults' \in Nat /\ crashes' \in Nat
    BY <1>1, <1>8 DEF Crash, outside, CountsType
  <2> QED BY <1>1, <2>1, <2>2, <2>3, TurnsKept DEF CountsType
<1>9. CASE HumanCommit
  <2>1. UNCHANGED <<turns, nextExec>> /\ CountsType' /\ NoLaunch
    BY <1>1, <1>9 DEF HumanCommit, budgets, CountsType, NoLaunch
  <2> QED BY <2>1, TurnsKept
<1>10. ASSUME NEW e \in DOMAIN turns, TurnEnds(e) PROVE OutsideInv'
  BY <1>10, TurnEndsTurns
<1> QED BY <1>3, <1>6, <1>7, <1>8, <1>9, <1>10 DEF Next, EnvironmentStep

-----------------------------------------------------------------------------
(* The theorems.                                                           *)

LEMMA InitInv == Init => IInv
<1> SUFFICES ASSUME Init PROVE IInv
  OBVIOUS
<1>1. /\ fiber = Idle /\ fiber.pc = "idle" /\ row = NoRow /\ row.op = 0 /\ nextOp = 1
      /\ fiber \in Fiber /\ fiber.op = NoRow /\ row \in Row /\ Sound(row)
  BY IdleFiber DEF Init, Idle, NoRow
<1>2. ready \in Continuation /\ ~ready.renew
  BY DEF Init, NoContinuation, Continuation
<1>3. FiberOwnsRow /\ TerminalHeld /\ DecisionFits /\ RenewFits
  BY <1>1, <1>2 DEF FiberOwnsRow, TerminalHeld, DecisionFits, RenewFits, Running
<1>4. PcFits(fiber.pc, fiber.op.state.phase) /\ Sound(fiber.op)
  BY <1>1 DEF PcFits, Drafting
<1>5. CoreInv
  BY <1>1, <1>2, <1>3, <1>4 DEF CoreInv
<1>6. DOMAIN turns = {}
  BY DEF Init
<1>7. recovered \in BOOLEAN
  BY DEF Init
<1>8. /\ head \in Nat /\ nextExec \in Nat \ {0}
      /\ requests \in Nat /\ retries \in Nat /\ faults \in Nat /\ crashes \in Nat
  BY DEF Init
<1>9. OutsideInv
  BY <1>1, <1>6, <1>7, <1>8 DEF OutsideInv, WorkerLaunchedOnce, LaunchFits
<1> QED BY <1>5, <1>9 DEF IInv

LEMMA StepInv == IInv /\ [Next]_execVars => IInv'
<1>1. ASSUME IInv, Next PROVE IInv'
  BY <1>1, CoreStep, OutsideStep DEF IInv
<1>2. ASSUME IInv, UNCHANGED execVars PROVE IInv'
  <2>1. CoreInv' /\ NoLaunch
    BY <1>2, UntouchedInv DEF IInv, execVars
  <2>2. CountsType' /\ turns' = turns /\ nextExec' = nextExec
    BY <1>2 DEF IInv, OutsideInv, CountsType, execVars, outside, budgets
  <2> QED BY <1>2, <2>1, <2>2, TurnsKept DEF IInv
<1> QED BY <1>1, <1>2

(* The inductive invariant holds however many commands, faults and crashes *)
(* the daemon meets.                                                       *)
THEOREM Inductive == Spec => []IInv
BY InitInv, StepInv, PTL DEF Spec

(* Every row, snapshot and turn the coordinator writes has its schema's    *)
(* shape.                                                                  *)
THEOREM TypeCorrect == Spec => []TypeOK
<1>1. IInv => TypeOK
  BY DEF IInv, CoreInv, OutsideInv, TypeOK
<1> QED BY <1>1, Inductive, PTL

(* The drive() in flight always holds the operation that owns the session, *)
(* so no write of its own finds the row missing or foreign.                *)
THEOREM DriveOwnsRow == Spec => []FiberOwnsRow
<1>1. IInv => FiberOwnsRow
  BY DEF IInv, CoreInv
<1> QED BY <1>1, Inductive, PTL

(* Across crashes, retries and recovery, no execution id starts a worker   *)
(* turn twice.                                                             *)
THEOREM LaunchedOnce == Spec => []WorkerLaunchedOnce
<1>1. IInv => WorkerLaunchedOnce
  BY DEF IInv, OutsideInv
<1> QED BY <1>1, Inductive, PTL

(* No dispatch ever queues behind a completion that was already handed     *)
(* back, so drain() never meets a row it would reject for ever.            *)
THEOREM NothingUndrainable == Spec => []NoUndrainableRow
<1>1. IInv => NoUndrainableRow
  BY DEF IInv, CoreInv, Sound, NoUndrainableRow
<1> QED BY <1>1, Inductive, PTL

(* What drainTerminal decided before its effects still fits the row drain()*)
(* reads after them, or that row is driven again.                          *)
THEOREM DecisionsFit == Spec => []DrainDecisionFits
<1>1. IInv => DrainDecisionFits
  BY SnapshotFacts DEF IInv, CoreInv, FiberOwnsRow, Running, DecisionFits, PcFits, IsTerminal,
     DrainDecisionFits
<1> QED BY <1>1, Inductive, PTL

-----------------------------------------------------------------------------
(* Every write is one the store accepts.                                   *)

LEMMA SameVocabulary ==
  ASSUME NEW r, NEW n, NEW id, NEW d
  PROVE  /\ Store!Present(r) <=> Present(r)
         /\ Store!IsTerminal(r) <=> IsTerminal(r)
         /\ Store!Returned(r) <=> Returned(r)
         /\ Store!LegalTransition(r, n) <=> LegalTransition(r, n)
         /\ Store!Swapped(r, n) = Swapped(r, n)
         /\ Store!Requeued(r) = Requeued(r)
         /\ Store!NewOperation(id, d) = NewOperation(id, d)
         /\ Store!NoRow = NoRow
         /\ Store!State = State
<1>1. /\ Store!Claimed = Claimed /\ Store!State = State /\ Store!FailurePoint = FailurePoint
      /\ Store!Settled = Settled
  BY DEF Store!Claimed, Claimed, Store!State, State, Store!Phase, Phase, Store!FailurePoint,
     FailurePoint, Store!Settled, Settled
<1>2. \A at : Store!FailsIn(at) = FailsIn(at) /\ Store!RetryPhase(at) = RetryPhase(at)
  BY DEF Store!FailsIn, FailsIn, Store!RetryPhase, RetryPhase
<1>3. \A c, m, fields : Store!Keeps(c, m, fields) <=> Keeps(c, m, fields)
  BY DEF Store!Keeps, Keeps
<1>4. /\ Store!ChangedEvidence(r.state) <=> ChangedEvidence(r.state)
      /\ Store!ExtendsHandoffEpoch(r, n) <=> ExtendsHandoffEpoch(r, n)
  BY <1>3 DEF Store!ChangedEvidence, ChangedEvidence, Store!ExtendsHandoffEpoch, ExtendsHandoffEpoch
<1>5. Store!LegalTransition(r, n) <=> LegalTransition(r, n)
  BY <1>1, <1>2, <1>3, <1>4 DEF Store!LegalTransition, LegalTransition
<1> QED BY <1>1, <1>5 DEF Store!Present, Present, Store!IsTerminal, IsTerminal, Store!Returned,
        Returned, Store!Swapped, Swapped, Store!Requeued, Requeued, Store!NewOperation,
        NewOperation, Store!NoRow, NoRow

StoreStep == Store!Next \/ row' = row

LEMMA SwapAccepted ==
  ASSUME CoreInv, Present(row), NEW n \in State, LegalTransition(row, n), row' = Swapped(row, n)
  PROVE  StoreStep
<1>1. row \in Row
  BY DEF CoreInv
<1>2. row'.state = n
  BY <1>1, SwappedRow
<1> QED BY <1>2, SameVocabulary DEF StoreStep, Store!Next, Store!CompareAndSwap

LEMMA PersistAccepted ==
  ASSUME CoreInv, fiber.pc # "idle", NEW n \in State, NEW pc,
         \A r : r.state = fiber.op.state => LegalTransition(r, n),
         Persist(n, pc)
  PROVE  StoreStep
<1>1. CASE PersistWrites
  BY <1>1, SnapshotFacts, SwapAccepted DEF Persist, PersistWrites
<1>2. CASE ~PersistWrites
  BY <1>2 DEF Persist, StoreStep
<1> QED BY <1>1, <1>2

(* A failure is legal from the phase its point belongs to.                 *)
LEMMA RejectAccepted ==
  ASSUME CoreInv, fiber.pc # "idle", NEW point \in FailurePoint,
         fiber.op.state.phase = FailsIn(point),
         Settle(Fail(fiber.op.state, point))
  PROVE  StoreStep
<1> DEFINE s == fiber.op.state
           n == Fail(s, point)
<1>1. s \in State /\ SoundState(s) /\ s.phase = FailsIn(point) /\ s.phase \notin {"completed", "failed"}
  BY SnapshotFacts DEF FailsIn, FailurePoint
<1>2. n \in State
  BY <1>1, FailState
<1>3. n.phase = "failed" /\ n.at = point /\ Keeps(s, n, Settled)
  BY <1>1 DEF Fail, State, Keeps, Settled
<1> HIDE DEF n
<1>4. \A r : r.state = s => LegalTransition(r, n)
  BY <1>1, <1>3 DEF LegalTransition
<1> QED BY <1>2, <1>4, PersistAccepted DEF Settle, n

(* Going on to the next phase keeps every receipt.                         *)
LEMMA AdvanceKeeps ==
  ASSUME NEW s \in State, NEW to \in Phase
  PROVE  /\ [s EXCEPT !.phase = to].phase = to
         /\ Keeps(s, [s EXCEPT !.phase = to], Settled)
         /\ Keeps(s, [s EXCEPT !.phase = to], {"base", "exec", "worker"})
BY DEF State, Keeps, Settled

LEMMA AdvanceAccepted ==
  ASSUME CoreInv,
         \/ PersistCommitAttempt \/ PersistRecordingAttempt \/ PersistRecorded
         \/ FinishUnchanged \/ PrepareReport \/ FinishDraft
  PROVE  StoreStep
<1> DEFINE s == fiber.op.state
<1>1. s \in State /\ SoundState(s) /\ PcFits(fiber.pc, s.phase) /\ fiber.pc # "idle"
  BY SnapshotFacts DEF PersistCommitAttempt, PersistRecordingAttempt, PersistRecorded,
     FinishUnchanged, PrepareReport, FinishDraft
<1>2. CASE PersistCommitAttempt
  <2> DEFINE n == [s EXCEPT !.phase = "committing"]
  <2>1. s.phase = "worker-settled" /\ n \in State
    BY <1>1, <1>2, AdvanceState DEF PersistCommitAttempt, Phase, Settlement
  <2>2. n.phase = "committing" /\ Keeps(s, n, {"base", "exec", "worker"})
    BY <1>1, AdvanceKeeps DEF Phase
  <2>3. \A r : r.state = s => LegalTransition(r, n)
    BY <2>1, <2>2 DEF LegalTransition
  <2> QED BY <1>1, <1>2, <2>1, <2>3, PersistAccepted DEF PersistCommitAttempt, Settle
<1>3. CASE PersistRecordingAttempt
  <2> DEFINE n == [s EXCEPT !.phase = "round-recording"]
  <2>1. s.phase = "commits-settled" /\ n.phase = "round-recording" /\ Keeps(s, n, Settled) /\ n \in State
    BY <1>1, <1>3, AdvanceKeeps, AdvanceState DEF PersistRecordingAttempt, Phase, Settlement
  <2>2. \A r : r.state = s => LegalTransition(r, n)
    BY <2>1 DEF LegalTransition
  <2> QED BY <1>1, <1>3, <2>1, <2>2, PersistAccepted DEF PersistRecordingAttempt, Settle
<1>4. CASE PersistRecorded
  <2> DEFINE n == [s EXCEPT !.phase = "round-recorded"]
  <2>1. s.phase = "round-recording" /\ n.phase = "round-recorded" /\ Keeps(s, n, Settled) /\ n \in State
    BY <1>1, <1>4, AdvanceKeeps, AdvanceState DEF PersistRecorded, PcFits, Phase, Settlement
  <2>2. \A r : r.state = s => LegalTransition(r, n)
    BY <2>1 DEF LegalTransition
  <2> QED BY <1>1, <1>4, <2>1, <2>2, PersistAccepted DEF PersistRecorded, Settle
<1>5. CASE FinishUnchanged
  <2> DEFINE n == [s EXCEPT !.phase = "completed", !.result = "unchanged"]
  <2>1. s.phase = "round-recorded" /\ n \in State
    BY <1>1, <1>5, AdvanceState DEF FinishUnchanged, Phase, Settlement
  <2>2. n.phase = "completed" /\ n.result = "unchanged" /\ Keeps(s, n, Settled)
    BY <1>1 DEF State, Keeps, Settled
  <2>3. \A r : r.state = s => LegalTransition(r, n)
    BY <2>1, <2>2 DEF LegalTransition
  <2> QED BY <1>1, <1>5, <2>1, <2>3, PersistAccepted DEF FinishUnchanged, Settle
<1>6. CASE PrepareReport
  <2> DEFINE n == [s EXCEPT !.phase = "report-drafting"]
  <2>1. /\ s.phase = "round-recorded" /\ n.phase = "report-drafting"
        /\ Keeps(s, n, Settled) /\ n \in State
    BY <1>1, <1>6, AdvanceKeeps, AdvanceState DEF PrepareReport, Phase, Settlement
  <2>2. ChangedEvidence(s)
    BY <1>1, <1>6, <2>1 DEF PrepareReport, ChangedEvidence, SoundState, Settlement
  <2>3. \A r : r.state = s => LegalTransition(r, n)
    BY <2>1, <2>2 DEF LegalTransition
  <2> QED BY <1>1, <1>6, <2>1, <2>3, PersistAccepted DEF PrepareReport, Settle
<1>7. CASE FinishDraft
  <2> DEFINE n == [s EXCEPT !.phase = "report-verifying"]
  <2>1. s.phase = "report-drafting" /\ n.phase = "report-verifying" /\ Keeps(s, n, Settled) /\ n \in State
    BY <1>1, <1>7, AdvanceKeeps, AdvanceState DEF FinishDraft, PcFits, Drafting, Phase, Settlement
  <2>2. \A r : r.state = s => LegalTransition(r, n)
    BY <2>1 DEF LegalTransition
  <2> QED BY <1>1, <1>7, <2>1, <2>2, PersistAccepted DEF FinishDraft, Settle
<1> QED BY <1>2, <1>3, <1>4, <1>5, <1>6, <1>7

(* A new epoch is stamped with the revision its own write creates.         *)
LEMMA EpochAccepted ==
  ASSUME CoreInv, Present(row), row.state.phase = "report-drafting",
         row' = Swapped(row, [row.state EXCEPT !.epoch = row.rev + 1])
  PROVE  StoreStep
<1> DEFINE n == [row.state EXCEPT !.epoch = row.rev + 1]
<1>1. row.state \in State /\ SoundState(row.state) /\ row.rev + 1 \in Nat
  BY DEF CoreInv, Sound, Row
<1>2. /\ n \in State /\ n.phase = "report-drafting" /\ n.epoch = row.rev + 1
      /\ Keeps(row.state, n, {"base", "exec", "worker", "commits"})
  BY <1>1, EpochState
<1>3. LegalTransition(row, n)
  BY <1>2 DEF LegalTransition, ExtendsHandoffEpoch
<1> HIDE DEF n
<1> QED BY <1>2, <1>3, SwapAccepted DEF n

LEMMA WorkerAccepted ==
  ASSUME IInv, PlanWorkspace \/ PersistAttempt \/ LaunchWorker \/ WorkerReturns \/ ObserveWorker
  PROVE  StoreStep
<1> DEFINE s == fiber.op.state
<1>1. /\ CoreInv /\ head \in Nat /\ nextExec \in Nat /\ \A x \in DOMAIN turns : turns[x] \in Turn
      /\ s \in State /\ PcFits(fiber.pc, s.phase) /\ fiber.pc # "idle"
  BY SnapshotFacts DEF IInv, OutsideInv, PlanWorkspace, PersistAttempt, LaunchWorker,
     WorkerReturns, ObserveWorker
<1>2. CASE PlanWorkspace
  <2>1. fiber.pc = "plan" /\ s.phase = "claimed"
    BY <1>1, <1>2 DEF PlanWorkspace, PcFits
  <2>2. CASE Reject("preparing")
    BY <1>1, <2>1, <2>2, RejectAccepted DEF Reject, FailsIn, FailurePoint
  <2>3. CASE ~Reject("preparing")
    <3> DEFINE n == [s EXCEPT !.phase = "prepared", !.base = head]
    <3>1. n \in State /\ n.phase = "prepared"
      BY <1>1 DEF State, Phase
    <3>2. \A r : r.state = s => LegalTransition(r, n)
      BY <2>1, <3>1 DEF LegalTransition, Keeps
    <3> QED BY <1>1, <1>2, <2>3, <3>1, <3>2, PersistAccepted DEF PlanWorkspace, Settle
  <2> QED BY <2>2, <2>3
<1>3. CASE PersistAttempt
  <2> DEFINE n == [s EXCEPT !.phase = "worker-running", !.exec = nextExec]
  <2>1. n \in State /\ n.phase = "worker-running" /\ Keeps(s, n, {"base"})
    BY <1>1 DEF State, Phase, Keeps
  <2>2. \A r : r.state = s => LegalTransition(r, n)
    BY <1>3, <2>1 DEF LegalTransition, PersistAttempt
  <2> QED BY <1>1, <1>3, <2>1, <2>2, PersistAccepted DEF PersistAttempt
<1>4. CASE LaunchWorker
  <2>1. s.phase = "worker-running"
    BY <1>1, <1>4 DEF LaunchWorker, PcFits
  <2> QED BY <1>1, <1>4, <2>1, RejectAccepted DEF LaunchWorker, Reject, FailsIn, FailurePoint,
          durable, StoreStep
<1>5. CASE WorkerReturns \/ ObserveWorker
  <2> DEFINE e == s.exec
  <2>1. s.phase = "worker-running" /\ SettleWorker(e)
    BY <1>1, <1>5 DEF WorkerReturns, ObserveWorker, PcFits
  <2> HIDE DEF e
  <2>2. CASE Settle(Fail(s, "worker"))
    BY <1>1, <2>1, <2>2, RejectAccepted DEF FailsIn, FailurePoint
  <2>3. CASE ~Settle(Fail(s, "worker"))
    <3> DEFINE worker == WorkerReceipt(e)
               n == [s EXCEPT !.phase = "worker-settled", !.worker = worker]
    <3>1. e \in DOMAIN turns /\ Settle(n)
      BY <2>1, <2>3 DEF SettleWorker
    <3>2. worker \in BOOLEAN
      BY <1>1, <3>1 DEF BranchGained, WorkerReceipt, Turn
    <3> HIDE DEF worker
    <3>3. n \in State
      BY <1>1, <3>2 DEF State, Phase
    <3>4. n.phase = "worker-settled" /\ Keeps(s, n, {"base", "exec"})
      BY <1>1 DEF State, Keeps
    <3>5. \A r : r.state = s => LegalTransition(r, n)
      BY <2>1, <3>4 DEF LegalTransition
    <3> QED BY <1>1, <3>1, <3>3, <3>5, PersistAccepted DEF Settle
  <2> QED BY <2>2, <2>3
<1> QED BY <1>2, <1>3, <1>4, <1>5

LEMMA ReportAccepted ==
  ASSUME IInv, \/ SettleCommits \/ VerifyReport \/ RecordHandoff
               \/ WorkerUnreadable \/ RecordingFails \/ DraftFails
  PROVE  StoreStep
<1> DEFINE s == fiber.op.state
<1>1. /\ CoreInv /\ head \in Nat /\ s \in State /\ PcFits(fiber.pc, s.phase) /\ fiber.pc # "idle"
      /\ SoundState(s)
  BY SnapshotFacts DEF IInv, OutsideInv, SettleCommits, VerifyReport, RecordHandoff,
     WorkerUnreadable, RecordingFails, DraftFails, Drafting
<1>2. CASE SettleCommits
  <2> DEFINE changed == head > s.base
             n == [s EXCEPT !.phase = "commits-settled", !.commits = changed]
  <2>1. fiber.pc = "settle" /\ s.phase = "committing"
    BY <1>1, <1>2 DEF BranchGained, SettleCommits, PcFits
  <2>2. changed \in BOOLEAN /\ s.worker \in BOOLEAN
    BY <1>1 DEF State
  <2>3. CASE Settle(Fail(s, "committing"))
    BY <1>1, <2>1, <2>3, RejectAccepted DEF FailsIn, FailurePoint
  <2>4. CASE ~Settle(Fail(s, "committing"))
    <3>1. ~(s.worker # changed) /\ Settle(n)
      BY <1>2, <2>4 DEF BranchGained, SettleCommits, Reject
    <3> HIDE DEF changed
    <3>2. n \in State
      BY <1>1, <2>1, <2>2, <3>1, CommitsSettled
    <3>3. n.phase = "commits-settled" /\ Keeps(s, n, {"base", "exec", "worker"})
      BY <1>1 DEF State, Keeps
    <3>4. \A r : r.state = s => LegalTransition(r, n)
      BY <2>1, <3>3 DEF LegalTransition
    <3> QED BY <1>1, <3>1, <3>2, <3>4, PersistAccepted DEF Settle
  <2> QED BY <2>3, <2>4
<1>3. CASE VerifyReport
  <2> DEFINE n == [s EXCEPT !.phase = "completed", !.result = "changed"]
  <2>1. fiber.pc = "verify" /\ s.phase = "report-verifying"
    BY <1>1, <1>3 DEF VerifyReport, PcFits
  <2>2. CASE Reject("report-verifying")
    BY <1>1, <2>1, <2>2, RejectAccepted DEF Reject, FailsIn, FailurePoint
  <2>3. CASE Settle(n)
    <3>1. n \in State
      BY <1>1, <2>1, AdvanceState DEF Phase, Settlement
    <3>2. n.phase = "completed" /\ n.result = "changed" /\ Keeps(s, n, Settled)
      BY <1>1 DEF State, Keeps, Settled
    <3>3. \A r : r.state = s => LegalTransition(r, n)
      BY <2>1, <3>2 DEF LegalTransition
    <3> QED BY <1>1, <2>3, <3>1, <3>3, PersistAccepted DEF Settle
  <2> QED BY <1>3, <2>2, <2>3 DEF VerifyReport
<1>4. CASE RecordHandoff
  <2>1. row' \in {row, Swapped(row, [row.state EXCEPT !.epoch = row.rev + 1])}
    BY <1>4 DEF RecordHandoff
  <2>2. Present(row) /\ row.state.phase = "report-drafting"
    BY <1>1, <1>4, SnapshotFacts DEF RecordHandoff
  <2> QED BY <1>1, <2>1, <2>2, EpochAccepted DEF StoreStep
<1>5. CASE WorkerUnreadable
  BY <1>1, <1>5, RejectAccepted DEF WorkerUnreadable, Reject, PcFits, FailsIn, FailurePoint
<1>6. CASE RecordingFails
  BY <1>1, <1>6, RejectAccepted DEF RecordingFails, Reject, PcFits, FailsIn, FailurePoint
<1>7. CASE DraftFails
  BY <1>1, <1>7, RejectAccepted DEF DraftFails, Reject, PcFits, Drafting, FailsIn, FailurePoint
<1> QED BY <1>2, <1>3, <1>4, <1>5, <1>6, <1>7

(* A submit waiting on a drain is a submit of a dispatch.                  *)
FreshFits ==
  /\ fiber.freshOp # 0 => fiber.fresh \in Dispatch
  /\ ready.freshOp # 0 => ready.fresh \in Dispatch

LEMMA IdleFresh == Idle.freshOp = 0 /\ NoContinuation.freshOp = 0
BY DEF Idle, NoContinuation

LEMMA PersistFresh ==
  ASSUME CoreInv, FreshFits, NEW n, NEW pc, Persist(n, pc)
  PROVE  FreshFits'
<1>1. fiber \in Fiber /\ ready' = ready
  BY DEF CoreInv, Persist
<1>2. fiber'.freshOp = fiber.freshOp /\ fiber'.fresh = fiber.fresh
  BY <1>1 DEF Persist, Fiber
<1> QED BY <1>1, <1>2 DEF FreshFits

LEMMA SettleFresh ==
  ASSUME CoreInv, FreshFits, NEW n, Settle(n)
  PROVE  FreshFits'
BY PersistFresh DEF Settle

LEMMA StartFresh ==
  ASSUME FreshFits, NEW r, Start(r), ready'.freshOp = 0 \/ ready' = ready
  PROVE  FreshFits'
<1>1. Driving(r).freshOp = 0
  BY DEF Driving, Idle
<1> QED BY <1>1 DEF Start, FreshFits

LEMMA DriveFresh ==
  ASSUME CoreInv, FreshFits,
         \/ ThreadStep \/ EffectStep \/ RecordRound \/ Recapture \/ FileGeneration \/ FinishDraft
         \/ \E d \in Dispatch \cup {NoDispatch} : DrainTerminal(d),
         ~SubmitFresh
  PROVE  FreshFits'
<1>1. fiber \in Fiber /\ ready \in Continuation
  BY DEF CoreInv
<1>2. CASE \/ PersistAttempt \/ PersistCommitAttempt \/ PersistRecordingAttempt \/ PersistRecorded
           \/ FinishUnchanged \/ PrepareReport \/ FinishDraft
  BY <1>2, SettleFresh, PersistFresh DEF PersistAttempt, PersistCommitAttempt,
     PersistRecordingAttempt, PersistRecorded, FinishUnchanged, PrepareReport, FinishDraft
<1>3. CASE \/ PlanWorkspace \/ WorkerReturns \/ ObserveWorker \/ WorkerUnreadable \/ SettleCommits
           \/ RecordingFails \/ DraftFails \/ VerifyReport
  BY <1>3, SettleFresh DEF PlanWorkspace, WorkerReturns, ObserveWorker, SettleWorker,
     WorkerUnreadable, SettleCommits, RecordingFails, DraftFails, VerifyReport, Reject
<1>4. CASE LaunchWorker
  <2>1. CASE Reject("worker")
    BY <2>1, SettleFresh DEF Reject
  <2>2. CASE fiber' = [fiber EXCEPT !.pc = "turn"] /\ ready' = ready
    BY <1>1, <2>2 DEF FreshFits, Fiber
  <2> QED BY <1>4, <2>1, <2>2 DEF LaunchWorker
<1>5. CASE \/ RecordRound \/ Recapture \/ FileGeneration \/ RecordHandoff \/ ComposeReplacement
           \/ Redrive \/ ReplaceQueued
           \/ \E d \in Dispatch \cup {NoDispatch} : DrainTerminal(d)
  <2>1. fiber'.freshOp = fiber.freshOp /\ fiber'.fresh = fiber.fresh /\ ready' = ready
    BY <1>1, <1>5 DEF RecordRound, Recapture, FileGeneration, DraftStep, RecordHandoff,
       ComposeReplacement, Redrive, ReplaceQueued, DrainTerminal, Fiber
  <2> QED BY <2>1 DEF FreshFits
<1>6. CASE ClearQueued \/ RecordReturn \/ Retain \/ Superseded \/ DrainFails
  <2>1. EndDrive \/ RejectDrive
    BY <1>6 DEF ClearQueued, RecordReturn, Retain, Superseded, DrainFails
  <2>2. CASE EndDrive
    BY <2>2, IdleFresh DEF EndDrive, FreshFits
  <2>3. CASE RejectDrive
    BY <2>3, IdleFresh DEF RejectDrive, FreshFits, NoContinuation
  <2> QED BY <2>1, <2>2, <2>3
<1>7. CASE ClearDrained
  BY <1>7 DEF ClearDrained, FreshFits
<1>8. CASE ContinueRetry
  BY <1>8, IdleFresh, StartFresh DEF ContinueRetry, FreshFits
<1>9. CASE RenewHandoff
  <2>1. ready'.freshOp = ready.freshOp /\ ready.freshOp = 0
    BY <1>1, <1>9 DEF RenewHandoff, CoreInv, RenewFits, Continuation
  <2> QED BY <1>9, <2>1, StartFresh DEF RenewHandoff
<1> QED BY <1>2, <1>3, <1>4, <1>5, <1>6, <1>7, <1>8, <1>9 DEF ThreadStep, EffectStep

LEMMA CommandFresh ==
  ASSUME CoreInv, FreshFits, NEW d \in Dispatch, SubmitOperation(d),
         ready'.freshOp = 0 \/ ready' = ready
  PROVE  FreshFits'
<1>1. Start(row') \/ fiber' = fiber \/ fiber' = [Driving(row) EXCEPT !.freshOp = row.op, !.fresh = d]
  BY DEF SubmitOperation
<1>2. CASE fiber' = [Driving(row) EXCEPT !.freshOp = row.op, !.fresh = d]
  <2>1. fiber'.fresh = d
    BY <1>2, DrivingFiber DEF CoreInv, Fiber
  <2> QED BY <2>1 DEF FreshFits
<1> QED BY <1>1, <1>2, StartFresh DEF FreshFits

LEMMA RetryFresh ==
  ASSUME CoreInv, FreshFits, NEW awaited, RetryFailed(awaited)
  PROVE  FreshFits'
<1>1. fiber \in Fiber /\ ready \in Continuation
  BY DEF CoreInv
<1>2. ready'.freshOp = ready.freshOp /\ ready'.fresh = ready.fresh
  BY <1>1 DEF RetryFailed, Continuation
<1>3. \/ fiber'.freshOp = 0
      \/ fiber'.freshOp = fiber.freshOp /\ fiber'.fresh = fiber.fresh
  <2>1. CASE Running
    BY <1>1, <2>1 DEF RetryFailed, Fiber
  <2>2. CASE ~Running
    BY <1>1, <2>2 DEF RetryFailed, Driving, Idle
  <2> QED BY <2>1, <2>2
<1> QED BY <1>2, <1>3 DEF FreshFits

LEMMA FreshStep ==
  ASSUME CoreInv, FreshFits, Next
  PROVE  FreshFits'
<1>1. CASE SubmitFresh
  <2>1. ready.fresh \in Dispatch /\ ready \in Continuation
    BY <1>1 DEF SubmitFresh, FreshFits, CoreInv
  <2>2. ready'.freshOp = 0
    BY <1>1, <2>1 DEF SubmitFresh, Continuation
  <2> QED BY <1>1, <2>1, <2>2, CommandFresh DEF SubmitFresh
<1>2. CASE /\ ~SubmitFresh
           /\ \/ ThreadStep \/ EffectStep \/ RecordRound \/ Recapture \/ FileGeneration \/ FinishDraft
              \/ \E d \in Dispatch \cup {NoDispatch} : DrainTerminal(d)
  BY <1>2, DriveFresh
<1>3. ASSUME NEW d \in Dispatch, Submit(d) PROVE FreshFits'
  BY <1>3, CommandFresh DEF Submit
<1>4. ASSUME NEW d \in Dispatch, QueueBehind(d) PROVE FreshFits'
  BY <1>4, StartFresh DEF QueueBehind
<1>5. CASE Retry
  BY <1>5, RetryFresh DEF Retry
<1>6. CASE Recover
  <2>1. CASE RetryFailed(FALSE)
    BY <2>1, RetryFresh
  <2>2. CASE ready' = ready /\ IF Present(row) THEN Start(row') ELSE fiber' = fiber
    BY <2>2, StartFresh DEF FreshFits
  <2> QED BY <1>6, <2>1, <2>2 DEF Recover
<1>7. CASE Crash
  BY <1>7, IdleFresh DEF Crash, FreshFits
<1>8. CASE EnvironmentStep
  BY <1>8 DEF EnvironmentStep, HumanCommit, TurnEnds, FreshFits
<1> QED BY <1>1, <1>2, <1>3, <1>4, <1>5, <1>6, <1>7, <1>8 DEF Next

LEMMA NewAccepted ==
  ASSUME CoreInv, NEW d \in Dispatch, row' = NewOperation(nextOp, d),
         \/ ~Present(row) \/ (Returned(row) /\ ~row.rerun)
         \/ Present(row) /\ IsTerminal(row) /\ row.rerun
  PROVE  StoreStep
<1>1. row'.op = nextOp /\ row'.dispatch = d /\ row' = NewOperation(row'.op, row'.dispatch)
  BY DEF NewOperation
<1>2. nextOp \in Nat \ {0, row.op}
  BY DEF CoreInv, Row
<1> QED BY <1>1, <1>2, SameVocabulary DEF StoreStep, Store!Next, Store!Claim, Store!ReplaceAfterDrain

LEMMA RequeueAccepted ==
  ASSUME Present(row), row' \in {row, Requeued(row)}
  PROVE  StoreStep
<1>1. CASE row' = row
  BY <1>1 DEF StoreStep
<1>2. CASE row' = Requeued(row) /\ row.rerun
  BY <1>2 DEF Requeued, StoreStep
<1>3. CASE row' = Requeued(row) /\ ~row.rerun
  BY <1>3, SameVocabulary DEF StoreStep, Store!Next, Store!RequestRerun
<1> QED BY <1>1, <1>2, <1>3

LEMMA SubmitAccepted ==
  ASSUME CoreInv, NEW d \in Dispatch, SubmitOperation(d)
  PROVE  StoreStep
<1>1. CASE Claimable
  BY <1>1, NewAccepted DEF SubmitOperation, Claimable
<1>2. CASE ~Claimable
  <2>1. Present(row) /\ row' \in {row, Requeued(row)}
    BY <1>2 DEF SubmitOperation, Claimable
  <2> QED BY <2>1, RequeueAccepted
<1> QED BY <1>1, <1>2

LEMMA RetryAccepted ==
  ASSUME CoreInv, NEW awaited, RetryFailed(awaited)
  PROVE  StoreStep
<1> DEFINE s == row.state
           n == RetryState(s)
<1>1. s \in State /\ SoundState(s) /\ s.phase = "failed" /\ Present(row) /\ row' = Swapped(row, n)
  BY DEF RetryFailed, CoreInv, Row, Sound, NoRow, Claimed
<1>2. n \in State /\ n.phase = RetryPhase(s.at)
  BY <1>1, RetriedState
<1>3. Keeps(s, n, IF s.at = "worker" THEN {"base"} ELSE Settled)
  BY <1>1 DEF RetryState, State, Keeps, Settled
<1> HIDE DEF n
<1>4. LegalTransition(row, n)
  BY <1>1, <1>2, <1>3 DEF LegalTransition
<1> QED BY <1>1, <1>2, <1>4, SwapAccepted

LEMMA ClearAccepted ==
  ASSUME Present(row), IsTerminal(row), row' = NoRow
  PROVE  StoreStep
BY SameVocabulary DEF StoreStep, Store!Next, Store!Clear

LEMMA DrainAccepted ==
  ASSUME CoreInv, DrainDecisionFits, ReplaceQueued \/ ClearQueued \/ RecordReturn
  PROVE  StoreStep
<1>1. /\ fiber.pc = "apply" /\ row.op = fiber.op.op /\ IsTerminal(row) /\ Present(row)
      /\ row \in Row
  BY SnapshotFacts DEF ReplaceQueued, ClearQueued, RecordReturn, DrainDecisionFits, Exact
<1>2. CASE ReplaceQueued
  <2>1. fiber.draft \in Dispatch
    BY <1>2 DEF ReplaceQueued, CoreInv, DecisionFits
  <2> QED BY <1>1, <1>2, <2>1, NewAccepted DEF ReplaceQueued
<1>3. CASE ClearQueued
  BY <1>1, <1>3, ClearAccepted DEF ClearQueued
<1>4. CASE RecordReturn
  <2> DEFINE n == [row.state EXCEPT !.returned = TRUE]
  <2>1. row.state.phase = "completed" /\ ~row.state.returned /\ row.state \in State
    BY <1>1, <1>4 DEF RecordReturn, DrainDecisionFits, Row
  <2>2. n \in State /\ n.phase = "completed" /\ n.returned
    BY <2>1 DEF State
  <2>3. Keeps(row.state, n, Settled \cup {"result"})
    BY <2>1 DEF State, Keeps, Settled
  <2>4. LegalTransition(row, n)
    BY <2>1, <2>2, <2>3 DEF LegalTransition
  <2> QED BY <1>1, <1>4, <2>2, <2>4, SwapAccepted DEF RecordReturn
<1> QED BY <1>2, <1>3, <1>4

LEMMA StoreRefined ==
  ASSUME IInv, FreshFits, DrainDecisionFits, Next
  PROVE  StoreStep
<1>1. CoreInv
  BY DEF IInv
<1>2. CASE PlanWorkspace \/ PersistAttempt \/ LaunchWorker \/ WorkerReturns \/ ObserveWorker
  BY <1>2, WorkerAccepted
<1>3. CASE \/ PersistCommitAttempt \/ PersistRecordingAttempt \/ PersistRecorded
           \/ FinishUnchanged \/ PrepareReport \/ FinishDraft
  BY <1>1, <1>3, AdvanceAccepted
<1>4. CASE \/ SettleCommits \/ VerifyReport \/ RecordHandoff
           \/ WorkerUnreadable \/ RecordingFails \/ DraftFails
  BY <1>4, ReportAccepted
<1>5. CASE ReplaceQueued \/ ClearQueued \/ RecordReturn
  BY <1>1, <1>5, DrainAccepted
<1>6. CASE \/ RecordRound \/ Recapture \/ FileGeneration \/ Superseded \/ DrainFails
           \/ ComposeReplacement \/ Redrive \/ Retain \/ ContinueRetry \/ Crash \/ EnvironmentStep
           \/ \E d \in Dispatch \cup {NoDispatch} : DrainTerminal(d)
  BY <1>6 DEF RecordRound, Recapture, FileGeneration, DraftStep, Superseded, DrainFails,
     ComposeReplacement, Redrive, Retain, ContinueRetry, Crash, EnvironmentStep, HumanCommit,
     TurnEnds, DrainTerminal, durable, StoreStep
<1>7. CASE ClearDrained
  BY <1>7, ClearAccepted DEF ClearDrained, Present
<1>8. CASE SubmitFresh
  BY <1>1, <1>8, SubmitAccepted DEF SubmitFresh, FreshFits
<1>9. CASE RenewHandoff
  BY <1>1, <1>9, EpochAccepted DEF RenewHandoff, CoreInv, RenewFits
<1>10. ASSUME NEW d \in Dispatch, Submit(d) PROVE StoreStep
  BY <1>1, <1>10, SubmitAccepted DEF Submit
<1>11. ASSUME NEW d \in Dispatch, QueueBehind(d) PROVE StoreStep
  BY <1>11, RequeueAccepted DEF QueueBehind, Owned
<1>12. CASE Retry
  BY <1>1, <1>12, RetryAccepted DEF Retry
<1>13. CASE Recover
  <2>1. CASE RetryFailed(FALSE)
    BY <1>1, <2>1, RetryAccepted
  <2>2. CASE row' = IF row.state.phase = "report-drafting" /\ row.state.epoch # 0
                    THEN Swapped(row, [row.state EXCEPT !.epoch = row.rev + 1])
                    ELSE row
    <3>1. row.state.phase = "report-drafting" => Present(row)
      BY <1>1 DEF CoreInv, NoRow, Claimed
    <3> QED BY <1>1, <2>2, <3>1, EpochAccepted DEF StoreStep
  <2> QED BY <1>13, <2>1, <2>2 DEF Recover
<1> QED BY <1>2, <1>3, <1>4, <1>5, <1>6, <1>7, <1>8, <1>9, <1>10, <1>11, <1>12, <1>13
        DEF Next, ThreadStep, EffectStep

(* The coordinator only ever changes the durable row in ways its store     *)
(* accepts: no compare-and-swap it issues is an illegal transition, no     *)
(* clear or replacement names a row that is not terminal.                  *)
THEOREM ImplementsStore == Spec => StoreSpec
<1>1. Init => FreshFits /\ Store!Init
  BY IdleFresh, SameVocabulary DEF Init, FreshFits, Store!Init
<1>2. IInv /\ FreshFits /\ [Next]_execVars => FreshFits'
  BY FreshStep DEF IInv, FreshFits, execVars
<1>3. IInv /\ FreshFits /\ DrainDecisionFits /\ [Next]_execVars => [Store!Next]_(Store!vars)
  <2>1. CASE UNCHANGED execVars
    BY <2>1 DEF execVars, durable, Store!vars
  <2>2. ASSUME IInv, FreshFits, DrainDecisionFits, Next PROVE [Store!Next]_(Store!vars)
    BY <2>2, StoreRefined DEF StoreStep, Store!vars
  <2> QED BY <2>1, <2>2
<1>4. Spec => []FreshFits
  BY <1>1, <1>2, Inductive, PTL DEF Spec
<1> QED BY <1>1, <1>3, <1>4, Inductive, DecisionsFit, PTL DEF Spec, StoreSpec, Store!Spec

(* Writes other than the drain's keep the queued bit.                      *)
RerunKept == row.rerun => row'.rerun

LEMMA SwapKeeps ==
  ASSUME CoreInv, NEW n, row' = Swapped(row, n)
  PROVE  RerunKept
<1>1. row \in Row
  BY DEF CoreInv
<1>2. Swapped(row, n).rerun = row.rerun
  BY <1>1 DEF Swapped, Row
<1> QED BY <1>2 DEF RerunKept

LEMMA SettleKeeps ==
  ASSUME CoreInv, NEW n, NEW pc, Persist(n, pc) \/ Settle(n)
  PROVE  RerunKept
BY SwapKeeps DEF Persist, Settle, RerunKept

LEMMA RequeueKeeps ==
  ASSUME CoreInv, row' \in {row, Requeued(row)}
  PROVE  RerunKept
BY RequeuedRow DEF CoreInv, RerunKept

LEMMA SubmitKeeps ==
  ASSUME CoreInv, NEW d, SubmitOperation(d)
  PROVE  RerunKept
<1>1. CASE Claimable
  BY <1>1 DEF Claimable, CoreInv, NoRow, RerunKept
<1>2. CASE ~Claimable
  BY <1>2, RequeueKeeps DEF SubmitOperation
<1> QED BY <1>1, <1>2

LEMMA OthersKeepRerun ==
  ASSUME IInv, Next, ~ReplaceQueued, ~ClearQueued
  PROVE  RerunKept
<1>1. CoreInv
  BY DEF IInv
<1>2. CASE \/ PersistAttempt \/ PersistCommitAttempt \/ PersistRecordingAttempt \/ PersistRecorded
           \/ FinishUnchanged \/ PrepareReport \/ FinishDraft
  BY <1>1, <1>2, SettleKeeps DEF PersistAttempt, PersistCommitAttempt, PersistRecordingAttempt,
     PersistRecorded, FinishUnchanged, PrepareReport, FinishDraft
<1>3. CASE \/ PlanWorkspace \/ WorkerReturns \/ ObserveWorker \/ WorkerUnreadable \/ SettleCommits
           \/ RecordingFails \/ DraftFails \/ VerifyReport
  BY <1>1, <1>3, SettleKeeps DEF PlanWorkspace, WorkerReturns, ObserveWorker, SettleWorker,
     WorkerUnreadable, SettleCommits, RecordingFails, DraftFails, VerifyReport, Reject
<1>4. CASE LaunchWorker
  BY <1>1, <1>4, SettleKeeps DEF LaunchWorker, Reject, durable, RerunKept
<1>5. CASE RecordHandoff \/ RecordReturn \/ RenewHandoff
  BY <1>1, <1>5, SwapKeeps DEF RecordHandoff, RecordReturn, RenewHandoff, RerunKept
<1>6. CASE \/ RecordRound \/ Recapture \/ FileGeneration \/ Superseded \/ DrainFails
           \/ ComposeReplacement \/ Redrive \/ Retain \/ ContinueRetry \/ Crash \/ EnvironmentStep
           \/ \E d \in Dispatch \cup {NoDispatch} : DrainTerminal(d)
  BY <1>6 DEF RecordRound, Recapture, FileGeneration, DraftStep, Superseded, DrainFails,
     ComposeReplacement, Redrive, Retain, ContinueRetry, Crash, EnvironmentStep, HumanCommit,
     TurnEnds, DrainTerminal, durable, RerunKept
<1>7. CASE ClearDrained
  BY <1>7 DEF ClearDrained, RerunKept
<1>8. CASE SubmitFresh \/ \E d \in Dispatch : Submit(d)
  BY <1>1, <1>8, SubmitKeeps DEF SubmitFresh, Submit
<1>9. CASE \E d \in Dispatch : QueueBehind(d)
  BY <1>1, <1>9, RequeueKeeps DEF QueueBehind
<1>10. CASE Retry \/ Recover
  BY <1>1, <1>10, SwapKeeps DEF Retry, Recover, RetryFailed, RerunKept
<1> QED BY <1>2, <1>3, <1>4, <1>5, <1>6, <1>7, <1>8, <1>9, <1>10 DEF Next, ThreadStep, EffectStep

(* A queued dispatch survives every step but the drain that replaces or    *)
(* clears its terminal predecessor, so no late write of a stale snapshot   *)
(* erases it.                                                              *)
THEOREM QueuedSurvives == Spec => QueuedRerunSurvives
<1> DEFINE A == row.rerun /\ ~row'.rerun => IsTerminal(row) /\ fiber.pc = "apply" /\ row'.op # row.op
<1>1. ASSUME IInv, DrainDecisionFits, Next PROVE A
  <2>1. CASE ReplaceQueued \/ ClearQueued
    <3>1. fiber.pc = "apply" /\ Exact /\ CoreInv
      BY <1>1, <2>1 DEF ReplaceQueued, ClearQueued, IInv
    <3>2. IsTerminal(row)
      BY <1>1, <3>1 DEF DrainDecisionFits
    <3>3. row.op < nextOp /\ row.op # 0 /\ row.op \in Nat /\ nextOp \in Nat
      BY <3>1, SnapshotFacts DEF CoreInv, Row, Present
    <3>4. row'.op \in {0, nextOp}
      BY <2>1 DEF ReplaceQueued, ClearQueued, NewOperation, NoRow
    <3> QED BY <3>1, <3>2, <3>3, <3>4
  <2>2. CASE ~ReplaceQueued /\ ~ClearQueued
    BY <1>1, <2>2, OthersKeepRerun DEF RerunKept
  <2> QED BY <2>1, <2>2
<1>2. UNCHANGED execVars => A
  BY DEF execVars, durable
<1>3. IInv /\ DrainDecisionFits /\ [Next]_execVars => [A]_execVars
  BY <1>1, <1>2
<1> QED BY <1>3, Inductive, DecisionsFit, PTL DEF Spec, QueuedRerunSurvives
=============================================================================
