------------------------ MODULE RoundReceiptsProofs ------------------------
(***************************************************************************)
(* Proofs about what the durable row of RoundExecution claims: that its    *)
(* receipts are those of its own attempt, that a changed round has a       *)
(* commit behind it, that no write takes a receipt back, and that a live   *)
(* operation always has a drive().                                         *)
(***************************************************************************)
EXTENDS RoundExecutionProofs

-----------------------------------------------------------------------------
(* What a row claims, of the turns `ts' and the branch head `h'.           *)

(* The row is past a phase, or failed on the way out of one.               *)
Past(s, phases) == s.phase \in phases \/ (s.phase = "failed" /\ s.at \in phases)

(* Whoever launches an attempt does so for the operation that holds it.    *)
OwnAttempt(s, op, ts) ==
  /\ Past(s, SettledPhases) =>
       s.exec \in DOMAIN ts /\ ts[s.exec].op = op /\ ts[s.exec].status = "ready"
  /\ s.phase = "worker-running" /\ s.exec \in DOMAIN ts => ts[s.exec].op = op

(* Observed commits are still on the branch, and a report needs some.      *)
Reporting == {"report-drafting", "report-verifying"}
GainedCommit(s, h) ==
  /\ Past(s, Settlement \cup {"completed"}) /\ s.commits => h > s.base
  /\ Past(s, Reporting) \/ s.result = "changed" => s.commits

(* Only a report has a handoff, stamped with a revision already reached.   *)
EpochFits(s, rev) ==
  /\ s.epoch <= rev
  /\ s.epoch # 0 => Past(s, Reporting \cup {"completed"})

Founded(r, ts, h) ==
  OwnAttempt(r.state, r.op, ts) /\ GainedCommit(r.state, h) /\ EpochFits(r.state, r.rev)

ReceiptInv == Founded(row, turns, head) /\ Founded(fiber.op, turns, head)

(* A drive() that has not failed is in the phase of the row, and knows no  *)
(* rerun the row does not.                                                 *)
SnapshotHeld ==
  Running => /\ fiber.op.rerun => row.rerun
             /\ fiber.op.state.phase # "failed" => row.state.phase = fiber.op.state.phase

(* Without a drive(), a live operation has a continuation that starts one. *)
DrivenInv ==
  /\ SnapshotHeld
  /\ recovered /\ Present(row) /\ ~IsTerminal(row) /\ ~row.rerun
     /\ ~(AllowSupersede /\ row.state.phase = "report-drafting")
       => Running \/ ready.freshOp # 0 \/ ready.renew

-----------------------------------------------------------------------------
(* Every write of the row, as a change of its state.                       *)

(* The updates drive(), its drain, a retry and a renewed handoff make.     *)
Advances(s, n) ==
  \/ s.phase = "claimed" /\ n = [s EXCEPT !.phase = "prepared", !.base = head]
  \/ s.phase = "prepared" /\ n = [s EXCEPT !.phase = "worker-running", !.exec = nextExec]
  \/ /\ s.phase = "worker-running"
     /\ s.exec \in DOMAIN turns /\ turns[s.exec].status = "ready"
     /\ \E worker \in BOOLEAN : n = [s EXCEPT !.phase = "worker-settled", !.worker = worker]
  \/ s.phase = "worker-settled" /\ n = [s EXCEPT !.phase = "committing"]
  \/ /\ s.phase = "committing"
     /\ \E changed \in BOOLEAN :
          /\ s.worker = changed /\ (changed => head > s.base)
          /\ n = [s EXCEPT !.phase = "commits-settled", !.commits = changed]
  \/ s.phase = "commits-settled" /\ n = [s EXCEPT !.phase = "round-recording"]
  \/ s.phase = "round-recording" /\ n = [s EXCEPT !.phase = "round-recorded"]
  \/ s.phase = "round-recorded" /\ n = [s EXCEPT !.phase = "completed", !.result = "unchanged"]
  \/ s.phase = "round-recorded" /\ s.commits /\ n = [s EXCEPT !.phase = "report-drafting"]
  \/ s.phase = "report-drafting" /\ n = [s EXCEPT !.phase = "report-verifying"]
  \/ s.phase = "report-verifying" /\ n = [s EXCEPT !.phase = "completed", !.result = "changed"]

Rejects(s, n) == \E point \in FailurePoint : s.phase = FailsIn(point) /\ n = Fail(s, point)

Revises(r, n) ==
  \/ r.state.phase = "report-drafting" /\ n = [r.state EXCEPT !.epoch = r.rev + 1]
  \/ r.state.phase = "failed" /\ n = RetryState(r.state)
  \/ r.state.phase = "completed" /\ n = [r.state EXCEPT !.returned = TRUE]

RowWritten ==
  \/ row' = row \/ row' = NoRow \/ row' = Requeued(row)
  \/ \E d \in Dispatch \cup {NoDispatch} : row' = NewOperation(nextOp, d)
  \/ \E n \in State :
       /\ Advances(row.state, n) \/ Rejects(row.state, n) \/ Revises(row, n)
       /\ row' = Swapped(row, n)

(* The snapshot of drive() is the row, before or after the step, or what   *)
(* it was.                                                                 *)
SnapshotTaken == fiber'.op \in {fiber.op, row, row', NoRow}

(* persist() from the snapshot's state, which the row still has.           *)
LEMMA PersistWritten ==
  ASSUME CoreInv, fiber.pc # "idle", NEW n \in State, NEW pc, Persist(n, pc),
         Advances(fiber.op.state, n) \/ Rejects(fiber.op.state, n)
  PROVE  RowWritten /\ SnapshotTaken
<1>1. CASE PersistWrites
  <2>1. row' = Swapped(row, n) /\ row.state = fiber.op.state
    BY <1>1 DEF Persist, PersistWrites
  <2>2. fiber'.op = row'
    BY <1>1, <2>1, SnapshotFacts DEF Persist, Fiber
  <2> QED BY <2>1, <2>2 DEF RowWritten, SnapshotTaken
<1>2. CASE ~PersistWrites
  BY <1>2, SnapshotFacts DEF Persist, Fiber, RowWritten, SnapshotTaken
<1> QED BY <1>1, <1>2

LEMMA RejectWritten ==
  ASSUME CoreInv, fiber.pc # "idle", NEW point \in FailurePoint,
         fiber.op.state.phase = FailsIn(point), Settle(Fail(fiber.op.state, point))
  PROVE  RowWritten /\ SnapshotTaken
<1> DEFINE n == Fail(fiber.op.state, point)
<1>1. n \in State
  BY SnapshotFacts, FailState DEF FailsIn, FailurePoint
<1>2. Rejects(fiber.op.state, n)
  BY DEF Rejects
<1> HIDE DEF n
<1> QED BY <1>1, <1>2, PersistWritten DEF Settle, n

(* The steps of drive() up to a settled worker.                            *)
LEMMA WorkerWritten ==
  ASSUME IInv, PlanWorkspace \/ PersistAttempt \/ LaunchWorker \/ WorkerReturns \/ ObserveWorker
  PROVE  RowWritten /\ SnapshotTaken
<1> DEFINE s == fiber.op.state
<1>1. /\ CoreInv /\ head \in Nat /\ nextExec \in Nat /\ \A x \in DOMAIN turns : turns[x] \in Turn
      /\ s \in State /\ PcFits(fiber.pc, s.phase) /\ fiber.pc # "idle" /\ fiber \in Fiber
  BY SnapshotFacts DEF IInv, OutsideInv, PlanWorkspace, PersistAttempt, LaunchWorker,
     WorkerReturns, ObserveWorker
<1>2. CASE PlanWorkspace
  <2>1. fiber.pc = "plan" /\ s.phase = "claimed"
    BY <1>1, <1>2 DEF PlanWorkspace, PcFits
  <2>2. CASE Reject("preparing")
    BY <1>1, <2>1, <2>2, RejectWritten DEF Reject, FailsIn, FailurePoint
  <2>3. CASE ~Reject("preparing")
    <3> DEFINE n == [s EXCEPT !.phase = "prepared", !.base = head]
    <3>1. n \in State /\ Advances(s, n)
      BY <1>1, <2>1 DEF State, Phase, Advances
    <3> QED BY <1>1, <1>2, <2>3, <3>1, PersistWritten DEF PlanWorkspace, Settle
  <2> QED BY <2>2, <2>3
<1>3. CASE PersistAttempt
  <2> DEFINE n == [s EXCEPT !.phase = "worker-running", !.exec = nextExec]
  <2>1. n \in State /\ Advances(s, n)
    BY <1>1, <1>3 DEF State, Phase, Advances, PersistAttempt
  <2> QED BY <1>1, <1>3, <2>1, PersistWritten DEF PersistAttempt
<1>4. CASE LaunchWorker
  <2>1. s.phase = "worker-running"
    BY <1>1, <1>4 DEF LaunchWorker, PcFits
  <2>2. CASE Reject("worker")
    BY <1>1, <2>1, <2>2, RejectWritten DEF Reject, FailsIn, FailurePoint
  <2>3. CASE fiber' = [fiber EXCEPT !.pc = "turn"] /\ UNCHANGED durable
    BY <1>1, <2>3 DEF Fiber, durable, RowWritten, SnapshotTaken
  <2> QED BY <1>4, <2>2, <2>3 DEF LaunchWorker
<1>5. CASE WorkerReturns \/ ObserveWorker
  <2> DEFINE e == s.exec
  <2>1. s.phase = "worker-running" /\ SettleWorker(e)
    BY <1>1, <1>5 DEF WorkerReturns, ObserveWorker, PcFits
  <2> HIDE DEF e
  <2>2. CASE Settle(Fail(s, "worker"))
    BY <1>1, <2>1, <2>2, RejectWritten DEF FailsIn, FailurePoint
  <2>3. CASE ~Settle(Fail(s, "worker"))
    <3> DEFINE worker == WorkerReceipt(e)
               n == [s EXCEPT !.phase = "worker-settled", !.worker = worker]
    <3>1. e \in DOMAIN turns /\ turns[e].status = "ready" /\ Settle(n)
      BY <2>1, <2>3 DEF SettleWorker
    <3>2. worker \in BOOLEAN
      BY <1>1, <3>1 DEF BranchGained, WorkerReceipt, Turn
    <3> HIDE DEF worker
    <3>3. n \in State
      BY <1>1, <3>2 DEF State, Phase
    <3>4. Advances(s, n)
      BY <2>1, <3>1, <3>2 DEF Advances, e
    <3> QED BY <1>1, <3>1, <3>3, <3>4, PersistWritten DEF Settle
  <2> QED BY <2>2, <2>3
<1> QED BY <1>2, <1>3, <1>4, <1>5

(* The steps of drive() that only go on to the next phase.                 *)
LEMMA AdvanceWritten ==
  ASSUME CoreInv,
         \/ PersistCommitAttempt \/ PersistRecordingAttempt \/ PersistRecorded
         \/ FinishUnchanged \/ PrepareReport \/ FinishDraft
  PROVE  RowWritten /\ SnapshotTaken
<1> DEFINE s == fiber.op.state
<1>1. s \in State /\ SoundState(s) /\ PcFits(fiber.pc, s.phase) /\ fiber.pc # "idle"
  BY SnapshotFacts DEF PersistCommitAttempt, PersistRecordingAttempt, PersistRecorded,
     FinishUnchanged, PrepareReport, FinishDraft
<1>2. ASSUME NEW n \in State, Advances(s, n), Settle(n)
      PROVE  RowWritten /\ SnapshotTaken
  BY <1>1, <1>2, PersistWritten DEF Settle
<1> HIDE DEF s
<1>3. \A to \in Phase : [s EXCEPT !.phase = to] \in State
                        /\ [s EXCEPT !.phase = to, !.result = "unchanged"] \in State
  BY <1>1 DEF State
<1>4. CASE PersistCommitAttempt
  BY <1>1, <1>2, <1>3, <1>4 DEF PersistCommitAttempt, Advances, Phase, s
<1>5. CASE PersistRecordingAttempt
  BY <1>1, <1>2, <1>3, <1>5 DEF PersistRecordingAttempt, Advances, Phase, s
<1>6. CASE PersistRecorded
  BY <1>1, <1>2, <1>3, <1>6 DEF PersistRecorded, PcFits, Advances, Phase, s
<1>7. CASE FinishUnchanged
  BY <1>1, <1>2, <1>3, <1>7 DEF FinishUnchanged, Advances, Phase, s
<1>8. CASE PrepareReport
  <2>1. s.phase = "round-recorded" /\ s.commits
    BY <1>1, <1>8 DEF PrepareReport, SoundState, Settlement, s
  <2> QED BY <1>1, <1>2, <1>3, <1>8, <2>1 DEF PrepareReport, Advances, Phase, s
<1>9. CASE FinishDraft
  BY <1>1, <1>2, <1>3, <1>9 DEF FinishDraft, PcFits, Drafting, Advances, Phase, s
<1> QED BY <1>4, <1>5, <1>6, <1>7, <1>8, <1>9

(* The commits settled, the report verified, and effects that reject.      *)
LEMMA ReportWritten ==
  ASSUME IInv, \/ SettleCommits \/ VerifyReport \/ RecordHandoff
               \/ WorkerUnreadable \/ RecordingFails \/ DraftFails
  PROVE  RowWritten /\ SnapshotTaken
<1> DEFINE s == fiber.op.state
<1>1. /\ CoreInv /\ head \in Nat /\ s \in State /\ PcFits(fiber.pc, s.phase) /\ fiber.pc # "idle"
      /\ SoundState(s) /\ fiber \in Fiber /\ row \in Row /\ row.state \in State
  BY SnapshotFacts DEF IInv, OutsideInv, SettleCommits, VerifyReport, RecordHandoff,
     WorkerUnreadable, RecordingFails, DraftFails, Drafting, Row
<1>2. CASE SettleCommits
  <2> DEFINE changed == head > s.base
             n == [s EXCEPT !.phase = "commits-settled", !.commits = changed]
  <2>1. fiber.pc = "settle" /\ s.phase = "committing"
    BY <1>1, <1>2 DEF SettleCommits, PcFits
  <2>2. changed \in BOOLEAN /\ s.worker \in BOOLEAN
    BY <1>1 DEF State
  <2>3. CASE Settle(Fail(s, "committing"))
    BY <1>1, <2>1, <2>3, RejectWritten DEF FailsIn, FailurePoint
  <2>4. CASE ~Settle(Fail(s, "committing"))
    <3>1. ~(s.worker # changed) /\ Settle(n) /\ (changed => head > s.base)
      BY <1>2, <2>4 DEF BranchGained, SettleCommits, Reject
    <3> HIDE DEF changed
    <3>2. n \in State /\ s.worker = changed
      BY <1>1, <2>1, <2>2, <3>1, CommitsSettled
    <3>3. Advances(s, n)
      BY <2>1, <2>2, <3>1, <3>2 DEF Advances
    <3> QED BY <1>1, <3>1, <3>2, <3>3, PersistWritten DEF Settle
  <2> QED BY <2>3, <2>4
<1>3. CASE VerifyReport
  <2> DEFINE n == [s EXCEPT !.phase = "completed", !.result = "changed"]
  <2>1. fiber.pc = "verify" /\ s.phase = "report-verifying"
    BY <1>1, <1>3 DEF VerifyReport, PcFits
  <2>2. CASE Reject("report-verifying")
    BY <1>1, <2>1, <2>2, RejectWritten DEF Reject, FailsIn, FailurePoint
  <2>3. CASE Settle(n)
    <3>1. n \in State /\ Advances(s, n)
      BY <1>1, <2>1 DEF State, Phase, Advances
    <3> QED BY <1>1, <2>3, <3>1, PersistWritten DEF Settle
  <2> QED BY <1>3, <2>2, <2>3 DEF VerifyReport
<1>4. CASE RecordHandoff
  <2> DEFINE n == [row.state EXCEPT !.epoch = row.rev + 1]
  <2>1. row.state.phase = "report-drafting" /\ row' \in {row, Swapped(row, n)}
    BY <1>4 DEF RecordHandoff
  <2>2. n \in State /\ Revises(row, n)
    BY <1>1, <2>1 DEF State, Row, Revises
  <2>3. fiber'.op \in {fiber.op, row, row'}
    BY <1>1, <1>4 DEF RecordHandoff, Fiber
  <2> HIDE DEF n
  <2> QED BY <2>1, <2>2, <2>3 DEF RowWritten, SnapshotTaken
<1>5. CASE WorkerUnreadable
  BY <1>1, <1>5, RejectWritten DEF WorkerUnreadable, Reject, PcFits, FailsIn, FailurePoint
<1>6. CASE RecordingFails
  BY <1>1, <1>6, RejectWritten DEF RecordingFails, Reject, PcFits, FailsIn, FailurePoint
<1>7. CASE DraftFails
  BY <1>1, <1>7, RejectWritten DEF DraftFails, Reject, PcFits, Drafting, FailsIn, FailurePoint
<1> QED BY <1>2, <1>3, <1>4, <1>5, <1>6, <1>7

LEMMA StartTakes ==
  ASSUME CoreInv, NEW r \in Row, Start(r)
  PROVE  fiber'.op \in {fiber.op, r}
BY DrivingFiber DEF Start

LEMMA DrainWritten ==
  ASSUME CoreInv, Redrive \/ ReplaceQueued \/ ClearQueued \/ RecordReturn \/ Retain
  PROVE  RowWritten /\ SnapshotTaken
<1>1. fiber.pc = "apply" /\ fiber \in Fiber /\ row \in Row /\ row.state \in State
  BY SnapshotFacts DEF Redrive, ReplaceQueued, ClearQueued, RecordReturn, Retain, Row
<1>2. Idle.op = NoRow
  BY DEF Idle
<1>3. CASE Redrive
  BY <1>1, <1>3 DEF Redrive, durable, Fiber, RowWritten, SnapshotTaken
<1>4. CASE ReplaceQueued
  BY <1>1, <1>4 DEF ReplaceQueued, CoreInv, DecisionFits, Fiber, RowWritten, SnapshotTaken
<1>5. CASE ClearQueued
  BY <1>2, <1>5 DEF ClearQueued, EndDrive, RowWritten, SnapshotTaken
<1>6. CASE RecordReturn
  <2> DEFINE n == [row.state EXCEPT !.returned = TRUE]
  <2>1. row.state.phase = "completed"
    BY <1>1, <1>6 DEF RecordReturn, CoreInv, FiberOwnsRow, Running, DecisionFits
  <2>2. n \in State /\ Revises(row, n)
    BY <1>1, <2>1 DEF State, Revises
  <2> HIDE DEF n
  <2>3. row' = Swapped(row, n)
    BY <1>6 DEF RecordReturn, n
  <2> QED BY <1>2, <1>6, <2>2, <2>3 DEF RecordReturn, EndDrive, RowWritten, SnapshotTaken
<1>7. CASE Retain
  BY <1>2, <1>7 DEF Retain, EndDrive, durable, RowWritten, SnapshotTaken
<1> QED BY <1>3, <1>4, <1>5, <1>6, <1>7

LEMMA SubmitWritten ==
  ASSUME CoreInv, NEW d \in Dispatch \cup {NoDispatch}, SubmitOperation(d)
  PROVE  RowWritten /\ SnapshotTaken
<1>1. row \in Row /\ nextOp \in Nat
  BY DEF CoreInv
<1>2. CASE Claimable
  <2>1. row' = NewOperation(nextOp, d) /\ Start(row')
    BY <1>2 DEF SubmitOperation
  <2>2. row' \in Row
    BY <1>1, <2>1, NewRow
  <2>3. fiber'.op \in {fiber.op, row'}
    BY <2>1, <2>2 DEF Start, Driving, Idle
  <2> QED BY <2>1, <2>3 DEF RowWritten, SnapshotTaken
<1>3. CASE ~Claimable
  <2>1. row' \in {row, Requeued(row)}
    BY <1>3 DEF SubmitOperation
  <2>2. \/ Start(row') \/ fiber' = fiber
        \/ row' = row /\ fiber' = [Driving(row) EXCEPT !.freshOp = row.op, !.fresh = d]
    BY <1>3 DEF SubmitOperation
  <2>3. fiber'.op \in {fiber.op, row', row}
    BY <1>1, <2>2, DrivingFiber DEF Start, Driving, Idle
  <2> QED BY <2>1, <2>3 DEF RowWritten, SnapshotTaken
<1> QED BY <1>2, <1>3

LEMMA RetryWritten ==
  ASSUME CoreInv, NEW awaited, RetryFailed(awaited)
  PROVE  RowWritten /\ SnapshotTaken
<1> DEFINE n == RetryState(row.state)
<1>1. /\ row \in Row /\ row.state \in State /\ SoundState(row.state)
      /\ row.state.phase = "failed" /\ row' = Swapped(row, n) /\ fiber \in Fiber
  BY DEF RetryFailed, CoreInv, Row, Sound
<1>2. n \in State /\ Revises(row, n)
  BY <1>1, RetriedState DEF Revises
<1>3. fiber'.op \in {fiber.op, row'}
  <2>1. CASE Running
    BY <1>1, <2>1 DEF RetryFailed, Fiber
  <2>2. CASE ~Running
    BY <2>2 DEF RetryFailed, Driving, Idle
  <2> QED BY <2>1, <2>2
<1> HIDE DEF n
<1> QED BY <1>1, <1>2, <1>3 DEF RowWritten, SnapshotTaken

LEMMA RenewWritten ==
  ASSUME CoreInv, row.state.phase = "report-drafting",
         row' = Swapped(row, [row.state EXCEPT !.epoch = row.rev + 1])
  PROVE  RowWritten
<1> DEFINE n == [row.state EXCEPT !.epoch = row.rev + 1]
<1>1. n \in State /\ Revises(row, n)
  BY DEF CoreInv, Row, State, Revises
<1> HIDE DEF n
<1> QED BY <1>1 DEF RowWritten, n

LEMMA CommandWritten ==
  ASSUME CoreInv, \/ ClearDrained \/ SubmitFresh \/ ContinueRetry \/ RenewHandoff
                  \/ Retry \/ Recover \/ Crash
                  \/ \E d \in Dispatch : Submit(d) \/ QueueBehind(d)
  PROVE  RowWritten /\ SnapshotTaken
<1>1. row \in Row /\ ready \in Continuation
  BY DEF CoreInv
<1>2. CASE ClearDrained
  BY <1>2 DEF ClearDrained, RowWritten, SnapshotTaken
<1>3. CASE SubmitFresh
  BY <1>1, <1>3, SubmitWritten DEF SubmitFresh, Continuation
<1>4. CASE ContinueRetry
  <2>1. fiber'.op \in {fiber.op, row}
    BY <1>1, <1>4, StartTakes DEF ContinueRetry
  <2> QED BY <1>4, <2>1 DEF ContinueRetry, durable, RowWritten, SnapshotTaken
<1>5. CASE RenewHandoff
  <2>1. RowWritten
    BY <1>5, RenewWritten DEF RenewHandoff, CoreInv, RenewFits
  <2>2. fiber'.op \in {fiber.op, row'}
    BY <1>5 DEF RenewHandoff, Start, Driving, Idle
  <2> QED BY <2>1, <2>2 DEF SnapshotTaken
<1>6. CASE Retry
  BY <1>6, RetryWritten DEF Retry
<1>7. CASE Recover
  <2>1. CASE RetryFailed(FALSE)
    BY <2>1, RetryWritten
  <2>2. CASE /\ row' = IF row.state.phase = "report-drafting" /\ row.state.epoch # 0
                       THEN Swapped(row, [row.state EXCEPT !.epoch = row.rev + 1])
                       ELSE row
             /\ IF Present(row) THEN Start(row') ELSE fiber' = fiber
    <3>1. RowWritten
      BY <2>2, RenewWritten DEF RowWritten
    <3>2. fiber'.op \in {fiber.op, row'}
      BY <2>2 DEF Start, Driving, Idle
    <3> QED BY <3>1, <3>2 DEF SnapshotTaken
  <2> QED BY <1>7, <2>1, <2>2 DEF Recover
<1>8. CASE Crash
  BY <1>8 DEF Crash, durable, Idle, RowWritten, SnapshotTaken
<1>9. ASSUME NEW d \in Dispatch, Submit(d) PROVE RowWritten /\ SnapshotTaken
  BY <1>9, SubmitWritten DEF Submit
<1>10. ASSUME NEW d \in Dispatch, QueueBehind(d) PROVE RowWritten /\ SnapshotTaken
  <2>1. row' \in {row, Requeued(row)} /\ fiber'.op \in {fiber.op, row'}
    BY <1>10 DEF QueueBehind, Start, Driving, Idle
  <2> QED BY <2>1 DEF RowWritten, SnapshotTaken
<1> QED BY <1>2, <1>3, <1>4, <1>5, <1>6, <1>7, <1>8, <1>9, <1>10

(* Every step writes the row in one of the ways above, or not at all.      *)
LEMMA StepWritten ==
  ASSUME IInv, Next
  PROVE  RowWritten /\ SnapshotTaken
<1>1. CoreInv /\ fiber \in Fiber
  BY DEF IInv, CoreInv
<1>2. CASE PlanWorkspace \/ PersistAttempt \/ LaunchWorker \/ WorkerReturns \/ ObserveWorker
  BY <1>2, WorkerWritten
<1>3. CASE \/ PersistCommitAttempt \/ PersistRecordingAttempt \/ PersistRecorded
           \/ FinishUnchanged \/ PrepareReport \/ FinishDraft
  BY <1>1, <1>3, AdvanceWritten
<1>4. CASE \/ SettleCommits \/ VerifyReport \/ RecordHandoff
           \/ WorkerUnreadable \/ RecordingFails \/ DraftFails
  BY <1>4, ReportWritten
<1>5. CASE Redrive \/ ReplaceQueued \/ ClearQueued \/ RecordReturn \/ Retain
  BY <1>1, <1>5, DrainWritten
<1>6. CASE \/ ClearDrained \/ SubmitFresh \/ ContinueRetry \/ RenewHandoff \/ Retry \/ Recover
           \/ Crash \/ \E d \in Dispatch : Submit(d) \/ QueueBehind(d)
  BY <1>1, <1>6, CommandWritten
<1>7. CASE \/ RecordRound \/ Recapture \/ FileGeneration \/ ComposeReplacement
           \/ \E d \in Dispatch \cup {NoDispatch} : DrainTerminal(d)
  BY <1>1, <1>7 DEF RecordRound, Recapture, FileGeneration, DraftStep, ComposeReplacement,
     DrainTerminal, durable, Fiber, RowWritten, SnapshotTaken
<1>8. CASE Superseded \/ DrainFails
  BY <1>8 DEF Superseded, DrainFails, EndDrive, RejectDrive, Idle, durable, RowWritten,
     SnapshotTaken
<1>9. CASE EnvironmentStep
  BY <1>9 DEF EnvironmentStep, HumanCommit, TurnEnds, durable, RowWritten, SnapshotTaken
<1> QED BY <1>2, <1>3, <1>4, <1>5, <1>6, <1>7, <1>8, <1>9 DEF Next, ThreadStep, EffectStep

-----------------------------------------------------------------------------
(* What a row claims survives its writes.                                  *)

LEMMA NewFounded ==
  ASSUME NEW ts, NEW h
  PROVE  /\ Founded(NoRow, ts, h)
         /\ \A id, d : Founded(NewOperation(id, d), ts, h)
BY DEF Founded, NoRow, NewOperation, Claimed, OwnAttempt, GainedCommit, EpochFits, Past,
   SettledPhases, Settlement, Reporting

LEMMA RequeuedFounded ==
  ASSUME NEW r \in Row, NEW ts, NEW h, Founded(r, ts, h)
  PROVE  Founded(Requeued(r), ts, h)
<1>1. /\ Requeued(r).op = r.op /\ Requeued(r).state = r.state /\ Requeued(r).rev >= r.rev
      /\ Requeued(r).rev \in Nat /\ r.rev \in Nat /\ r.state.epoch \in Nat
  BY RequeuedRow DEF Row, State
<1>2. r.state.epoch <= r.rev => r.state.epoch <= Requeued(r).rev
  BY <1>1
<1> QED BY <1>1, <1>2 DEF Founded, EpochFits

(* Going forward, each phase adds the receipt its own claim needs.         *)
LEMMA AdvanceFounded ==
  ASSUME NEW s \in State, NEW n \in State, NEW op, SoundState(s),
         \A e \in DOMAIN turns : e < nextExec, nextExec \in Nat, head \in Nat,
         OwnAttempt(s, op, turns), GainedCommit(s, head), s.epoch # 0 => Past(s, Reporting \cup {"completed"}),
         Advances(s, n)
  PROVE  /\ OwnAttempt(n, op, turns) /\ GainedCommit(n, head)
         /\ n.epoch = s.epoch /\ (n.epoch # 0 => Past(n, Reporting \cup {"completed"}))
<1> USE DEF Past, SettledPhases, Settlement, Reporting
<1>1. CASE s.phase = "claimed" /\ n = [s EXCEPT !.phase = "prepared", !.base = head]
  <2>1. n.phase = "prepared" /\ n.result = s.result /\ n.epoch = s.epoch
    BY <1>1 DEF State
  <2> QED BY <1>1, <2>1 DEF OwnAttempt, GainedCommit, SoundState
<1>2. CASE s.phase = "prepared" /\ n = [s EXCEPT !.phase = "worker-running", !.exec = nextExec]
  <2>1. n.phase = "worker-running" /\ n.result = s.result /\ n.epoch = s.epoch /\ n.exec = nextExec
    BY <1>2 DEF State
  <2>2. nextExec \notin DOMAIN turns
    OBVIOUS
  <2> QED BY <1>2, <2>1, <2>2 DEF OwnAttempt, GainedCommit, SoundState
<1>3. CASE /\ s.phase = "worker-running"
           /\ s.exec \in DOMAIN turns /\ turns[s.exec].status = "ready"
           /\ \E worker \in BOOLEAN : n = [s EXCEPT !.phase = "worker-settled", !.worker = worker]
  <2>1. n.phase = "worker-settled" /\ n.result = s.result /\ n.epoch = s.epoch /\ n.exec = s.exec
    BY <1>3 DEF State
  <2> QED BY <1>3, <2>1 DEF OwnAttempt, GainedCommit, SoundState
<1>4. CASE /\ s.phase = "committing"
           /\ \E changed \in BOOLEAN :
                /\ s.worker = changed /\ (changed => head > s.base)
                /\ n = [s EXCEPT !.phase = "commits-settled", !.commits = changed]
  <2>1. /\ n.phase = "commits-settled" /\ n.result = s.result /\ n.epoch = s.epoch
        /\ n.exec = s.exec /\ n.base = s.base /\ (n.commits => head > s.base)
    BY <1>4 DEF State
  <2> QED BY <1>4, <2>1 DEF OwnAttempt, GainedCommit, SoundState
<1>5. ASSUME /\ s.phase \in {"worker-settled", "commits-settled", "round-recording", "round-recorded",
                         "report-drafting", "report-verifying"}
             /\ n.exec = s.exec /\ n.base = s.base /\ n.commits = s.commits /\ n.epoch = s.epoch
             /\ \/ s.phase = "worker-settled" /\ n.phase = "committing" /\ n.result = s.result
                \/ /\ s.phase = "commits-settled" /\ n.phase = "round-recording"
                   /\ n.result = s.result
                \/ s.phase = "round-recording" /\ n.phase = "round-recorded" /\ n.result = s.result
                \/ s.phase = "round-recorded" /\ n.phase = "completed" /\ n.result = "unchanged"
                \/ /\ s.phase = "round-recorded" /\ s.commits
                   /\ n.phase = "report-drafting" /\ n.result = s.result
                \/ /\ s.phase = "report-drafting" /\ n.phase = "report-verifying"
                   /\ n.result = s.result
                \/ s.phase = "report-verifying" /\ n.phase = "completed" /\ n.result = "changed"
      PROVE  /\ OwnAttempt(n, op, turns) /\ GainedCommit(n, head)
             /\ n.epoch = s.epoch /\ (n.epoch # 0 => Past(n, Reporting \cup {"completed"}))
  BY <1>5 DEF OwnAttempt, GainedCommit, SoundState
<1>6. CASE \/ s.phase = "worker-settled" /\ n = [s EXCEPT !.phase = "committing"]
           \/ s.phase = "commits-settled" /\ n = [s EXCEPT !.phase = "round-recording"]
           \/ s.phase = "round-recording" /\ n = [s EXCEPT !.phase = "round-recorded"]
           \/ s.phase = "round-recorded" /\ n = [s EXCEPT !.phase = "completed", !.result = "unchanged"]
           \/ s.phase = "round-recorded" /\ s.commits /\ n = [s EXCEPT !.phase = "report-drafting"]
           \/ s.phase = "report-drafting" /\ n = [s EXCEPT !.phase = "report-verifying"]
           \/ s.phase = "report-verifying" /\ n = [s EXCEPT !.phase = "completed", !.result = "changed"]
  <2>1. /\ n.exec = s.exec /\ n.base = s.base /\ n.commits = s.commits /\ n.epoch = s.epoch
    BY <1>6 DEF State
  <2> QED BY <1>5, <1>6, <2>1 DEF State
<1> QED BY <1>1, <1>2, <1>3, <1>4, <1>6 DEF Advances

(* A failure claims what the phase it left had claimed.                    *)
LEMMA RejectFounded ==
  ASSUME NEW s \in State, NEW n \in State, NEW op, NEW ts, NEW h, SoundState(s),
         OwnAttempt(s, op, ts), GainedCommit(s, h), s.epoch # 0 => Past(s, Reporting \cup {"completed"}),
         Rejects(s, n)
  PROVE  /\ OwnAttempt(n, op, ts) /\ GainedCommit(n, h)
         /\ n.epoch = s.epoch /\ (n.epoch # 0 => Past(n, Reporting \cup {"completed"}))
<1>1. PICK point \in FailurePoint : s.phase = FailsIn(point) /\ n = Fail(s, point)
  BY DEF Rejects
<1>2. /\ n.phase = "failed" /\ n.at = point /\ n.exec = s.exec /\ n.base = s.base
      /\ n.commits = s.commits /\ n.epoch = s.epoch /\ n.result = s.result
  BY <1>1 DEF Fail, State
<1>3. point \in SettledPhases \cup Settlement \cup Reporting => s.phase = point
  BY <1>1 DEF FailsIn, FailurePoint, SettledPhases, Settlement, Reporting
<1>4. s.phase \in {"claimed", "worker-running", "committing", "round-recording"} \cup Reporting
  BY <1>1 DEF FailsIn, FailurePoint, Reporting
<1>5. s.phase \in Reporting => point = s.phase
  BY <1>1 DEF FailsIn, FailurePoint, Reporting
<1>6. /\ \A X : Past(n, X) => point \in X \/ "failed" \in X
      /\ \A X : s.phase \in X => Past(s, X)
  BY <1>2 DEF Past
<1>7. OwnAttempt(n, op, ts)
  BY <1>2, <1>3, <1>6 DEF OwnAttempt, SettledPhases
<1>8. s.result = "none"
  BY <1>4 DEF SoundState, Reporting
<1>9. GainedCommit(n, h)
  BY <1>2, <1>3, <1>6, <1>8 DEF GainedCommit, Settlement, Reporting, FailurePoint
<1>10. n.epoch # 0 => Past(n, Reporting \cup {"completed"})
  BY <1>2, <1>4, <1>5 DEF Past, Reporting
<1> QED BY <1>2, <1>7, <1>9, <1>10

(* A retry goes back to the phase that failed, and a new epoch is that of  *)
(* the revision its write creates.                                         *)
LEMMA ReviseFounded ==
  ASSUME NEW r \in Row, NEW n \in State, NEW ts, NEW h, SoundState(r.state),
         Founded(r, ts, h), Revises(r, n)
  PROVE  /\ OwnAttempt(n, r.op, ts) /\ GainedCommit(n, h)
         /\ n.epoch \in {r.state.epoch, r.rev + 1}
         /\ n.epoch # 0 => Past(n, Reporting \cup {"completed"})
<1> DEFINE s == r.state
<1>1. s \in State /\ OwnAttempt(s, r.op, ts) /\ GainedCommit(s, h) /\ EpochFits(s, r.rev)
  BY DEF Founded, Row
<1> HIDE DEF s
<1>2. CASE s.phase = "report-drafting" /\ n = [s EXCEPT !.epoch = r.rev + 1]
  <2>1. /\ n.phase = "report-drafting" /\ n.exec = s.exec /\ n.base = s.base
        /\ n.commits = s.commits /\ n.epoch = r.rev + 1 /\ n.result = s.result
    BY <1>1, <1>2 DEF State
  <2> QED BY <1>1, <1>2, <2>1 DEF OwnAttempt, GainedCommit, Past, Reporting, Settlement,
          SettledPhases, s
<1>3. CASE s.phase = "completed" /\ n = [s EXCEPT !.returned = TRUE]
  <2>1. /\ n.phase = "completed" /\ n.exec = s.exec /\ n.base = s.base
        /\ n.commits = s.commits /\ n.epoch = s.epoch /\ n.result = s.result
    BY <1>1, <1>3 DEF State
  <2> QED BY <1>1, <1>3, <2>1 DEF OwnAttempt, GainedCommit, Past, Reporting, Settlement,
          SettledPhases, s
<1>4. CASE s.phase = "failed" /\ n = RetryState(s)
  <2>1. s.at \in FailurePoint /\ s.result = "none"
    BY <1>4 DEF SoundState, s
  <2>2. /\ n.phase = RetryPhase(s.at) /\ n.base = s.base /\ n.commits = s.commits
        /\ n.epoch = s.epoch /\ n.result = s.result
        /\ s.at # "worker" => n.exec = s.exec
    BY <1>1, <1>4 DEF RetryState, State
  <2>3. n.phase \in {"claimed", "prepared"} \/ n.phase = s.at
    BY <2>2 DEF RetryPhase
  <2>4. CASE n.phase \in {"claimed", "prepared"}
    <3>1. s.at \in {"preparing", "worker"}
      BY <2>1, <2>2, <2>4 DEF RetryPhase, FailurePoint
    <3>2. s.epoch = 0
      BY <1>1, <1>4, <3>1 DEF EpochFits, Past, Reporting
    <3> QED BY <2>1, <2>2, <2>4, <3>2 DEF OwnAttempt, GainedCommit, Past, Reporting, Settlement,
            SettledPhases, s
  <2>5. CASE n.phase = s.at
    <3>1. s.at \in {"committing", "round-recording", "report-drafting", "report-verifying"}
      BY <2>1, <2>2, <2>5 DEF RetryPhase, FailurePoint
    <3>2. n.exec = s.exec
      BY <2>2, <3>1
    <3>3. OwnAttempt(n, r.op, ts)
      BY <1>1, <1>4, <2>5, <3>1, <3>2 DEF OwnAttempt, Past, SettledPhases
    <3>4. GainedCommit(n, h)
      BY <1>1, <1>4, <2>1, <2>2, <2>5, <3>1 DEF GainedCommit, Past, Reporting, Settlement
    <3>5. n.epoch # 0 => Past(n, Reporting \cup {"completed"})
      BY <1>1, <1>4, <2>2, <2>5, <3>1 DEF EpochFits, Past, Reporting
    <3> QED BY <2>2, <3>3, <3>4, <3>5 DEF s
  <2> QED BY <2>3, <2>4, <2>5
<1> QED BY <1>2, <1>3, <1>4 DEF Revises, s

LEMMA SwappedFounded ==
  ASSUME NEW r \in Row, NEW n \in State, NEW ts, NEW h,
         OwnAttempt(n, r.op, ts), GainedCommit(n, h),
         n.epoch \in {r.state.epoch, r.rev + 1}, r.state.epoch <= r.rev,
         n.epoch # 0 => Past(n, Reporting \cup {"completed"})
  PROVE  Founded(Swapped(r, n), ts, h)
<1>1. Swapped(r, n).state = n /\ Swapped(r, n).op = r.op /\ Swapped(r, n).rev = r.rev + 1
  BY SwappedRow
<1>2. r.rev \in Nat /\ r.state.epoch \in Nat
  BY DEF Row, State
<1>3. n.epoch <= r.rev + 1
  BY <1>2
<1> QED BY <1>1, <1>3 DEF Founded, EpochFits

LEMMA WrittenFounded ==
  ASSUME IInv, ReceiptInv, RowWritten
  PROVE  Founded(row', turns, head)
<1>1. /\ row \in Row /\ row.state \in State /\ SoundState(row.state) /\ head \in Nat
      /\ nextExec \in Nat /\ \A e \in DOMAIN turns : e < nextExec
  BY DEF IInv, CoreInv, OutsideInv, LaunchFits, Sound, Row
<1>2. /\ Founded(row, turns, head) /\ row.state.epoch <= row.rev
      /\ OwnAttempt(row.state, row.op, turns) /\ GainedCommit(row.state, head)
      /\ row.state.epoch # 0 => Past(row.state, Reporting \cup {"completed"})
  BY DEF ReceiptInv, Founded, EpochFits
<1>3. ASSUME NEW n \in State, Advances(row.state, n), row' = Swapped(row, n)
      PROVE  Founded(row', turns, head)
  <2>1. /\ OwnAttempt(n, row.op, turns) /\ GainedCommit(n, head) /\ n.epoch = row.state.epoch
        /\ n.epoch # 0 => Past(n, Reporting \cup {"completed"})
    BY <1>1, <1>2, <1>3, AdvanceFounded
  <2>2. Founded(Swapped(row, n), turns, head)
    BY <1>1, <1>2, <2>1, SwappedFounded
  <2> QED BY <1>3, <2>2
<1>4. ASSUME NEW n \in State, Rejects(row.state, n), row' = Swapped(row, n)
      PROVE  Founded(row', turns, head)
  <2>1. /\ OwnAttempt(n, row.op, turns) /\ GainedCommit(n, head) /\ n.epoch = row.state.epoch
        /\ n.epoch # 0 => Past(n, Reporting \cup {"completed"})
    BY <1>1, <1>2, <1>4, RejectFounded
  <2>2. Founded(Swapped(row, n), turns, head)
    BY <1>1, <1>2, <2>1, SwappedFounded
  <2> QED BY <1>4, <2>2
<1>5. ASSUME NEW n \in State, Revises(row, n), row' = Swapped(row, n)
      PROVE  Founded(row', turns, head)
  <2>1. /\ OwnAttempt(n, row.op, turns) /\ GainedCommit(n, head)
        /\ n.epoch \in {row.state.epoch, row.rev + 1}
        /\ n.epoch # 0 => Past(n, Reporting \cup {"completed"})
    BY <1>1, <1>2, <1>5, ReviseFounded
  <2>2. Founded(Swapped(row, n), turns, head)
    BY <1>1, <1>2, <2>1, SwappedFounded
  <2> QED BY <1>5, <2>2
<1>6. CASE row' = row \/ row' = NoRow \/ row' = Requeued(row)
           \/ \E d \in Dispatch \cup {NoDispatch} : row' = NewOperation(nextOp, d)
  BY <1>1, <1>2, <1>6, NewFounded, RequeuedFounded
<1> QED BY <1>3, <1>4, <1>5, <1>6 DEF RowWritten

-----------------------------------------------------------------------------
(* What a row claims survives the turns and commits of others.             *)

LEMMA GrownFounded ==
  ASSUME NEW r \in Row, NEW ts, NEW us, NEW h \in Nat, NEW k \in Nat, Founded(r, ts, h),
         h <= k, DOMAIN ts \subseteq DOMAIN us,
         \A e \in DOMAIN ts : us[e].op = ts[e].op /\ (ts[e].status = "ready" => us[e].status = "ready"),
         \A e \in DOMAIN us \ DOMAIN ts : us[e].op = r.op
  PROVE  Founded(r, us, k)
<1>1. r.state.base \in Nat
  BY DEF Row, State
<1>2. OwnAttempt(r.state, r.op, us)
  BY DEF Founded, OwnAttempt
<1>3. GainedCommit(r.state, k)
  BY <1>1 DEF Founded, GainedCommit
<1> QED BY <1>2, <1>3 DEF Founded

(* The attempts in DOMAIN turns stay, and what finished stays finished.    *)
LEMMA OutsideGrows ==
  ASSUME IInv, Next
  PROVE  /\ head' \in Nat /\ head <= head' /\ DOMAIN turns \subseteq DOMAIN turns'
         /\ \A e \in DOMAIN turns :
              turns'[e].op = turns[e].op /\ (turns[e].status = "ready" => turns'[e].status = "ready")
         /\ \A e \in DOMAIN turns' \ DOMAIN turns :
              turns'[e].op = row.op /\ fiber'.op = fiber.op /\ row' = row /\ fiber.op.op = row.op
<1>1. /\ CoreInv /\ head \in Nat /\ head' \in Nat /\ fiber \in Fiber /\ CountsType
      /\ \A e \in DOMAIN turns : turns[e] \in Turn
  BY OutsideStep DEF IInv, CoreInv, OutsideInv, CountsType
<1>2. CASE LaunchWorker /\ ~Reject("worker")
  <2> DEFINE e == fiber.op.state.exec
             turn == [op |-> fiber.op.op, status |-> "running", edited |-> FALSE,
                      committed |-> FALSE, launches |-> 1]
  <2>1. fiber.pc = "launch" /\ e \notin DOMAIN turns /\ fiber.op.op = row.op
    BY <1>1, <1>2, SnapshotFacts DEF LaunchWorker, IInv, OutsideInv, LaunchFits
  <2>2. /\ turns' = [x \in DOMAIN turns \cup {e} |-> IF x # e THEN turns[x] ELSE turn]
        /\ fiber' = [fiber EXCEPT !.pc = "turn"] /\ row' = row /\ head' = head
    BY <1>2, <2>1 DEF LaunchWorker, durable
  <2>3. fiber'.op = fiber.op
    BY <1>1, <2>2 DEF Fiber
  <2>4. turn.op = fiber.op.op
    OBVIOUS
  <2> HIDE DEF e, turn
  <2>5. /\ DOMAIN turns' = DOMAIN turns \cup {e} /\ turns'[e] = turn
        /\ \A x \in DOMAIN turns : turns'[x] = turns[x]
    BY <2>1, <2>2
  <2> QED BY <1>1, <2>1, <2>2, <2>3, <2>4, <2>5
<1>3. ASSUME NEW e \in DOMAIN turns, TurnEnds(e)
      PROVE  /\ head <= head' /\ DOMAIN turns' = DOMAIN turns
             /\ \A x \in DOMAIN turns :
                  turns'[x].op = turns[x].op /\ (turns[x].status = "ready" => turns'[x].status = "ready")
  <2>1. PICK status \in {"ready", "failed", "lost"}, edited \in BOOLEAN, commit \in {0, 1} :
          /\ turns' = [turns EXCEPT ![e] = [@ EXCEPT !.status = status, !.edited = edited,
                                                     !.committed = commit = 1]]
          /\ head' = head + commit
    BY <1>3 DEF TurnEnds
  <2>2. turns[e] \in Turn /\ turns[e].status = "running"
    BY <1>1, <1>3 DEF TurnEnds
  <2> DEFINE committed == commit = 1
             turn == [turns[e] EXCEPT !.status = status, !.edited = edited,
                                      !.committed = committed]
  <2>3. turns' = [turns EXCEPT ![e] = turn]
    BY <2>1
  <2>4. turn.op = turns[e].op
    BY <2>2 DEF Turn
  <2> HIDE DEF turn
  <2>5. head <= head'
    BY <1>1, <2>1
  <2> QED BY <2>2, <2>3, <2>4, <2>5
<1>4. CASE HumanCommit
  BY <1>1, <1>4 DEF HumanCommit
<1>5. CASE /\ ~(LaunchWorker /\ ~Reject("worker")) /\ ~HumanCommit
           /\ ~\E e \in DOMAIN turns : TurnEnds(e)
  <2>1. turns' = turns /\ head' = head
    <3>1. CASE \/ PersistAttempt \/ PersistCommitAttempt \/ PersistRecordingAttempt
               \/ PersistRecorded \/ FinishUnchanged \/ PrepareReport \/ FinishDraft
               \/ Redrive \/ ReplaceQueued \/ ClearQueued \/ RecordReturn \/ Retain
               \/ ClearDrained \/ SubmitFresh \/ ContinueRetry \/ RenewHandoff
      BY <3>1 DEF PersistAttempt, PersistCommitAttempt, PersistRecordingAttempt, PersistRecorded,
         FinishUnchanged, PrepareReport, FinishDraft, Redrive, ReplaceQueued, ClearQueued,
         RecordReturn, Retain, ClearDrained, SubmitFresh, ContinueRetry, RenewHandoff, outside
    <3>2. CASE \/ PlanWorkspace \/ LaunchWorker \/ WorkerReturns \/ ObserveWorker
               \/ WorkerUnreadable \/ SettleCommits \/ RecordingFails \/ RecordHandoff
               \/ DraftFails \/ Superseded \/ VerifyReport \/ ComposeReplacement \/ DrainFails
      BY <1>5, <3>2 DEF PlanWorkspace, LaunchWorker, WorkerReturns, ObserveWorker,
         WorkerUnreadable, SettleCommits, RecordingFails, RecordHandoff, DraftFails, Superseded,
         VerifyReport, ComposeReplacement, DrainFails, Reject, outside
    <3>3. CASE \/ RecordRound \/ Recapture \/ FileGeneration \/ Retry \/ Recover \/ Crash
               \/ \E d \in Dispatch \cup {NoDispatch} : DrainTerminal(d)
               \/ \E d \in Dispatch : Submit(d) \/ QueueBehind(d)
      BY <3>3 DEF RecordRound, Recapture, FileGeneration, DraftStep, DrainTerminal, Submit,
         QueueBehind, Retry, Recover, Crash, outside
    <3> QED BY <1>5, <3>1, <3>2, <3>3 DEF Next, ThreadStep, EffectStep, EnvironmentStep
  <2> QED BY <1>1, <2>1
<1> QED BY <1>1, <1>2, <1>3, <1>4, <1>5

LEMMA ReceiptStep ==
  ASSUME IInv, ReceiptInv, Next
  PROVE  ReceiptInv'
<1>1. RowWritten /\ SnapshotTaken
  BY StepWritten
<1>2. /\ Founded(row, turns, head) /\ Founded(fiber.op, turns, head)
      /\ Founded(row', turns, head) /\ Founded(NoRow, turns, head)
  BY <1>1, WrittenFounded, NewFounded DEF ReceiptInv
<1>3. Founded(fiber'.op, turns, head)
  BY <1>1, <1>2 DEF SnapshotTaken
<1>4. row' \in Row /\ fiber'.op \in Row /\ head \in Nat
  BY StepInv DEF IInv, CoreInv, OutsideInv, Fiber
<1>5. \A e \in DOMAIN turns' \ DOMAIN turns :
        turns'[e].op = row'.op /\ turns'[e].op = fiber'.op.op
  BY OutsideGrows
<1> DEFINE r == row'
           f == fiber'.op
           us == turns'
           k == head'
<1>6. /\ k \in Nat /\ head <= k /\ DOMAIN turns \subseteq DOMAIN us
      /\ \A e \in DOMAIN turns : us[e].op = turns[e].op /\ (turns[e].status = "ready" => us[e].status = "ready")
  BY OutsideGrows
<1>7. /\ r \in Row /\ f \in Row /\ Founded(r, turns, head) /\ Founded(f, turns, head)
      /\ \A e \in DOMAIN us \ DOMAIN turns : us[e].op = r.op /\ us[e].op = f.op
  BY <1>2, <1>3, <1>4, <1>5
<1> HIDE DEF r, f, us, k
<1>8. Founded(r, us, k) /\ Founded(f, us, k)
  BY <1>4, <1>6, <1>7, GrownFounded
<1> QED BY <1>8 DEF ReceiptInv, r, f, us, k

(* What the durable row and every snapshot of it claim is so, across every *)
(* crash, retry, late answer and commit of the reviewer's.                 *)
THEOREM ReceiptsFounded == Spec => []ReceiptInv
<1>1. Init => ReceiptInv
  BY NewFounded DEF Init, Idle, ReceiptInv
<1>2. IInv /\ ReceiptInv /\ UNCHANGED execVars => ReceiptInv'
  BY DEF ReceiptInv, execVars, durable, outside
<1>3. IInv /\ ReceiptInv /\ [Next]_execVars => ReceiptInv'
  BY <1>2, ReceiptStep
<1> QED BY <1>1, <1>3, Inductive, PTL DEF Spec

(* A settled worker is the finished turn of this operation's own attempt.  *)
THEOREM ReceiptIsOwn == Spec => []ReceiptOfOwnAttempt
<1>1. ReceiptInv => ReceiptOfOwnAttempt
  BY DEF ReceiptInv, Founded, OwnAttempt, Past, ReceiptOfOwnAttempt
<1> QED BY <1>1, ReceiptsFounded, PTL

(* A round reported as changed has a commit of its own on the branch.      *)
THEOREM RoundHasCommit == Spec => []NoRoundWithoutCommit
<1>1. IInv /\ ReceiptInv => NoRoundWithoutCommit
  <2> SUFFICES ASSUME IInv, ReceiptInv,
                      row.state.phase \in {"report-drafting", "report-verifying"}
                      \/ row.state.result = "changed"
               PROVE  head > row.state.base
    BY DEF NoRoundWithoutCommit
  <2>1. GainedCommit(row.state, head) /\ row.state.commits
    BY DEF ReceiptInv, Founded, GainedCommit, Past, Reporting
  <2>2. row.state.result = "changed" => row.state.phase = "completed"
    BY DEF IInv, CoreInv, Sound, SoundState
  <2> QED BY <2>1, <2>2 DEF GainedCommit, Past, Settlement
<1> QED BY <1>1, ReceiptsFounded, Inductive, PTL

-----------------------------------------------------------------------------
(* No write takes a receipt back.                                          *)

LEMMA StateKeepsReceipts ==
  ASSUME NEW r \in Row, NEW n \in State, NEW ts, NEW h, Founded(r, ts, h), SoundState(r.state),
         Advances(r.state, n) \/ Rejects(r.state, n) \/ Revises(r, n)
  PROVE  /\ r.state.phase \in SettledPhases \ {"worker-settled"}
              => Keeps(r.state, n, {"base", "exec", "worker"})
         /\ n.epoch >= r.state.epoch
<1> DEFINE s == r.state
<1>1. s \in State /\ r.rev \in Nat /\ s.epoch \in Nat /\ s.epoch <= r.rev
  BY DEF Row, State, Founded, EpochFits
<1>2. ASSUME Advances(s, n)
      PROVE  /\ s.phase \in SettledPhases \ {"worker-settled"}
                  => Keeps(s, n, {"base", "exec", "worker"})
             /\ n.epoch = s.epoch
  BY <1>1, <1>2 DEF Advances, State, SettledPhases, Keeps
<1>3. ASSUME Rejects(s, n)
      PROVE  Keeps(s, n, {"base", "exec", "worker"}) /\ n.epoch = s.epoch
  BY <1>1, <1>3 DEF Rejects, Fail, State, Keeps
<1>4. ASSUME Revises(r, n)
      PROVE  /\ s.phase \in SettledPhases \ {"worker-settled"}
                  => Keeps(s, n, {"base", "exec", "worker"})
             /\ n.epoch \in {s.epoch, r.rev + 1}
  BY <1>1, <1>4 DEF Revises, RetryState, State, SettledPhases, Keeps
<1> QED BY <1>1, <1>2, <1>3, <1>4

(* While an operation owns the session its revision only grows, its        *)
(* receipts stay once the worker's is committed to, and its handoff is     *)
(* never set back to an earlier epoch.                                     *)
THEOREM ReceiptsKept == Spec => ReceiptsSurvive
<1> DEFINE A == row'.op = row.op =>
                  /\ row'.rev >= row.rev
                  /\ row.state.phase \in SettledPhases \ {"worker-settled"}
                       => Keeps(row.state, row'.state, {"base", "exec", "worker"})
                  /\ row.state.epoch # 0 => row'.state.epoch >= row.state.epoch
<1>1. ASSUME IInv, ReceiptInv, Next PROVE A
  <2>1. /\ row \in Row /\ row.state \in State /\ SoundState(row.state) /\ row.op < nextOp
        /\ nextOp \in Nat \ {0} /\ (Present(row) \/ row = NoRow)
        /\ row.rev \in Nat /\ row.op \in Nat /\ row.state.epoch \in Nat
    BY <1>1 DEF IInv, CoreInv, Sound, Row, State
  <2>2. CASE row' = row
    BY <2>1, <2>2 DEF Keeps
  <2>3. CASE row' = NoRow
    BY <2>1, <2>3, <2>2 DEF NoRow, Present
  <2>4. ASSUME NEW d, row' = NewOperation(nextOp, d) PROVE A
    BY <2>1, <2>4 DEF NewOperation
  <2>5. CASE row' = Requeued(row)
    BY <2>1, <2>5, RequeuedRow DEF Keeps
  <2>6. ASSUME NEW n \in State, row' = Swapped(row, n),
               Advances(row.state, n) \/ Rejects(row.state, n) \/ Revises(row, n)
        PROVE  A
    <3>1. row'.state = n /\ row'.rev = row.rev + 1
      BY <2>1, <2>6, SwappedRow
    <3>2. /\ row.state.phase \in SettledPhases \ {"worker-settled"}
               => Keeps(row.state, n, {"base", "exec", "worker"})
          /\ n.epoch >= row.state.epoch
      BY <1>1, <2>1, <2>6, StateKeepsReceipts DEF ReceiptInv
    <3> QED BY <2>1, <3>1, <3>2
  <2> QED BY <1>1, <2>2, <2>3, <2>4, <2>5, <2>6, StepWritten DEF RowWritten
<1>2. IInv /\ UNCHANGED execVars => A
  BY DEF execVars, durable, Keeps, IInv, CoreInv, Row, State
<1>3. IInv /\ ReceiptInv /\ [Next]_execVars => [A]_execVars
  BY <1>1, <1>2
<1> QED BY <1>3, Inductive, ReceiptsFounded, PTL DEF Spec, ReceiptsSurvive

-----------------------------------------------------------------------------
(* A live operation has a drive().                                         *)

(* How a step may leave the drive() in flight.                             *)
TakesRow == Running' /\ fiber'.op = row'
KeepsSnapshot ==
  /\ Running /\ Running' /\ fiber'.op = fiber.op
  /\ row'.state.phase = row.state.phase \/ row.state.phase = "failed"
  /\ RerunKept
StaysIdle ==
  /\ ~Running /\ ~Running'
  /\ \/ ~Present(row') \/ ready'.renew \/ ~recovered'
     \/ /\ row' = row /\ recovered' = recovered
        /\ ready.freshOp # 0 \/ ready.renew => ready'.freshOp # 0 \/ ready'.renew
EndsDriven ==
  /\ ~Running'
  /\ \/ ~Present(row') \/ IsTerminal(row') \/ ~recovered' \/ row'.rerun
     \/ AllowSupersede /\ row'.state.phase = "report-drafting"
DriveMoves == TakesRow \/ KeepsSnapshot \/ StaysIdle \/ EndsDriven

LEMMA MovesDriven ==
  ASSUME DrivenInv, DriveMoves
  PROVE  DrivenInv'
<1>1. CASE TakesRow
  BY <1>1 DEF TakesRow, DrivenInv, SnapshotHeld
<1>2. CASE KeepsSnapshot
  BY <1>2 DEF KeepsSnapshot, RerunKept, DrivenInv, SnapshotHeld
<1>3. CASE StaysIdle
  BY <1>3 DEF StaysIdle, DrivenInv, SnapshotHeld, Present, IsTerminal
<1>4. CASE EndsDriven
  BY <1>4 DEF EndsDriven, DrivenInv, SnapshotHeld, Present, IsTerminal
<1> QED BY <1>1, <1>2, <1>3, <1>4 DEF DriveMoves

LEMMA PersistMoves ==
  ASSUME CoreInv, fiber.pc # "idle", NEW n, NEW pc \in Pc \ {"idle"}, Persist(n, pc)
  PROVE  DriveMoves
<1>1. CASE PersistWrites
  BY <1>1, SnapshotFacts DEF Persist, Fiber, Running, DriveMoves, TakesRow
<1>2. CASE ~PersistWrites
  <2>1. EffectOf(row.state.phase) # "idle"
    BY SnapshotFacts, EffectOfFits DEF Row, State
  <2> QED BY <1>2, <2>1, SnapshotFacts DEF Persist, Fiber, Running, DriveMoves, TakesRow
<1> QED BY <1>1, <1>2

LEMMA SettleMoves ==
  ASSUME CoreInv, fiber.pc # "idle", NEW n, Settle(n)
  PROVE  DriveMoves
<1>1. EffectOf(n.phase) \in Pc \ {"idle"}
  BY DEF EffectOf, Pc
<1> QED BY <1>1, PersistMoves DEF Settle

LEMMA StartMoves ==
  ASSUME CoreInv, row' \in Row, Start(row'), row'.state.phase = row.state.phase \/ ~Running
                                             \/ row.state.phase = "failed",
         RerunKept \/ ~Running
  PROVE  DriveMoves
<1>1. CASE Running
  BY <1>1 DEF Start, Running, DriveMoves, KeepsSnapshot
<1>2. CASE ~Running
  <2>1. Driving(row').op = row' /\ Driving(row').pc # "idle"
    BY DrivingFiber, EffectOfFits DEF Row, State
  <2> QED BY <1>2, <2>1 DEF Start, Running, DriveMoves, TakesRow
<1> QED BY <1>1, <1>2

(* The steps of drive() stay with the row, or leave it as it was.          *)
LEMMA EffectMoves ==
  ASSUME CoreInv,
         \/ PersistAttempt \/ PersistCommitAttempt \/ PersistRecordingAttempt \/ PersistRecorded
         \/ FinishUnchanged \/ PrepareReport \/ FinishDraft
         \/ PlanWorkspace \/ LaunchWorker \/ WorkerReturns \/ ObserveWorker \/ WorkerUnreadable
         \/ SettleCommits \/ RecordingFails \/ RecordHandoff \/ DraftFails \/ VerifyReport
         \/ RecordRound \/ Recapture \/ FileGeneration \/ ComposeReplacement
         \/ \E d \in Dispatch \cup {NoDispatch} : DrainTerminal(d)
  PROVE  DriveMoves
<1>1. fiber \in Fiber
  BY DEF CoreInv
<1>2. CASE PersistAttempt
  BY <1>2, PersistMoves DEF PersistAttempt, Pc
<1>3. CASE \/ PersistCommitAttempt \/ PersistRecordingAttempt \/ PersistRecorded
           \/ FinishUnchanged \/ PrepareReport \/ FinishDraft
           \/ PlanWorkspace \/ WorkerReturns \/ ObserveWorker \/ WorkerUnreadable
           \/ SettleCommits \/ RecordingFails \/ DraftFails \/ VerifyReport
  BY <1>3, SettleMoves DEF PersistCommitAttempt, PersistRecordingAttempt, PersistRecorded,
     FinishUnchanged, PrepareReport, FinishDraft, PlanWorkspace, WorkerReturns, ObserveWorker,
     SettleWorker, WorkerUnreadable, SettleCommits, RecordingFails, DraftFails, Drafting,
     VerifyReport, Reject
<1>4. CASE LaunchWorker
  <2>1. CASE Reject("worker")
    BY <1>4, <2>1, SettleMoves DEF LaunchWorker, Reject
  <2>2. CASE fiber.pc = "launch" /\ fiber' = [fiber EXCEPT !.pc = "turn"] /\ UNCHANGED durable
    BY <1>1, <2>2 DEF Fiber, durable, Running, RerunKept, DriveMoves, KeepsSnapshot
  <2> QED BY <1>4, <2>1, <2>2 DEF LaunchWorker
<1>5. CASE RecordHandoff
  <2> DEFINE n == [row.state EXCEPT !.epoch = row.rev + 1]
  <2>1. CASE row' = row /\ fiber' = [fiber EXCEPT !.op = fiber.op, !.pc = "handed"]
    BY <1>1, <1>5, <2>1 DEF RecordHandoff, Fiber, Running, RerunKept, DriveMoves, KeepsSnapshot
  <2>2. CASE fiber' = [fiber EXCEPT !.op = row', !.pc = "handed"]
    BY <1>1, <2>2 DEF Fiber, Running, DriveMoves, TakesRow
  <2> QED BY <1>5, <2>1, <2>2 DEF RecordHandoff
<1>6. CASE RecordRound \/ Recapture \/ FileGeneration \/ ComposeReplacement
  <2>1. /\ fiber.pc # "idle" /\ row' = row
        /\ fiber'.op = fiber.op /\ fiber'.pc # "idle"
    BY <1>1, <1>6 DEF RecordRound, Recapture, FileGeneration, DraftStep, ComposeReplacement,
       durable, Fiber
  <2> QED BY <2>1 DEF Running, RerunKept, DriveMoves, KeepsSnapshot
<1>7. ASSUME NEW d \in Dispatch \cup {NoDispatch}, DrainTerminal(d) PROVE DriveMoves
  <2>1. /\ fiber.pc # "idle" /\ row' = row /\ fiber'.op = fiber.op /\ fiber'.pc # "idle"
    BY <1>1, <1>7 DEF DrainTerminal, durable, Fiber
  <2> QED BY <2>1 DEF Running, RerunKept, DriveMoves, KeepsSnapshot
<1> QED BY <1>2, <1>3, <1>4, <1>5, <1>6, <1>7

(* A drive() ends on a terminal row, on one taken over, or on one whose    *)
(* rerun is still queued.                                                  *)
LEMMA EndMoves ==
  ASSUME CoreInv, DrivenInv, Superseded \/ DrainFails \/ ClearQueued \/ RecordReturn \/ Retain
  PROVE  DriveMoves
<1>1. /\ ~Running' /\ fiber.pc # "idle" /\ Running
  BY DEF Superseded, DrainFails, ClearQueued, RecordReturn, Retain, EndDrive, RejectDrive, Idle,
     Running, Drafting
<1>2. /\ fiber.op.rerun => row.rerun
      /\ fiber.op.state.phase # "failed" => row.state.phase = fiber.op.state.phase
      /\ PcFits(fiber.pc, fiber.op.state.phase)
  BY <1>1, SnapshotFacts DEF DrivenInv, SnapshotHeld
<1>3. CASE Superseded
  <2>1. AllowSupersede /\ row'.state.phase = "report-drafting"
    BY <1>2, <1>3 DEF Superseded, durable, PcFits
  <2> QED BY <1>1, <2>1 DEF DriveMoves, EndsDriven
<1>4. CASE DrainFails
  <2>1. row' = row /\ fiber.op.state.phase \in {"completed", "failed"}
    BY <1>2, <1>4 DEF DrainFails, durable, PcFits
  <2>2. fiber.op.rerun \/ fiber.op.state.phase = "completed"
    BY <1>4, <2>1 DEF DrainFails, DrainRetains
  <2> QED BY <1>1, <1>2, <2>1, <2>2 DEF DriveMoves, EndsDriven, IsTerminal
<1>5. CASE ClearQueued
  BY <1>1, <1>5 DEF ClearQueued, NoRow, Present, DriveMoves, EndsDriven
<1>6. CASE RecordReturn
  <2>1. row.state.phase = "completed" /\ row \in Row /\ row.state \in State
    BY <1>1, <1>6, SnapshotFacts DEF RecordReturn, CoreInv, FiberOwnsRow, DecisionFits, Row
  <2> DEFINE n == [row.state EXCEPT !.returned = TRUE]
  <2>2. n \in State /\ n.phase = "completed"
    BY <2>1 DEF State
  <2> HIDE DEF n
  <2>3. row'.state = n
    BY <1>6, <2>1, <2>2, SwappedRow DEF RecordReturn, n
  <2> QED BY <1>1, <2>2, <2>3 DEF DriveMoves, EndsDriven, IsTerminal
<1>7. CASE Retain
  <2>1. row' = row /\ row = fiber.op
    BY <1>1, <1>7 DEF Retain, durable, CoreInv, FiberOwnsRow
  <2>2. row'.state.phase \in {"completed", "failed"}
    BY <1>2, <1>7, <2>1 DEF Retain, PcFits
  <2> QED BY <1>1, <2>2 DEF DriveMoves, EndsDriven, IsTerminal
<1> QED BY <1>3, <1>4, <1>5, <1>6, <1>7

LEMMA SubmitMoves ==
  ASSUME CoreInv, Running => ~Busy, NEW d \in Dispatch \cup {NoDispatch}, SubmitOperation(d)
  PROVE  DriveMoves
<1>1. row \in Row /\ nextOp \in Nat /\ (Running => Present(row) /\ ~Returned(row))
  BY ReturnedBusy DEF CoreInv, FiberOwnsRow
<1>2. CASE Claimable
  <2>1. ~Running /\ row' = NewOperation(nextOp, d) /\ Start(row')
    BY <1>1, <1>2 DEF Claimable, SubmitOperation
  <2>2. row' \in Row
    BY <1>1, <2>1, NewRow
  <2> QED BY <2>1, <2>2, StartMoves
<1>3. CASE ~Claimable
  <2>1. row' \in {row, Requeued(row)}
    BY <1>3 DEF SubmitOperation
  <2>2. row' \in Row /\ row'.state = row.state /\ RerunKept
    BY <1>1, <2>1, RequeuedRow, RequeueKeeps
  <2>3. CASE Start(row')
    BY <2>2, <2>3, StartMoves
  <2>4. CASE Running /\ fiber' = fiber
    BY <2>2, <2>4 DEF Running, DriveMoves, KeepsSnapshot
  <2>5. CASE row' = row /\ fiber' = [Driving(row) EXCEPT !.freshOp = row.op, !.fresh = d]
    <3>1. Driving(row).op = row /\ Driving(row).pc # "idle" /\ Driving(row) \in Fiber
      BY <1>1, DrivingFiber, EffectOfFits DEF Row, State
    <3>2. fiber'.op = row' /\ fiber'.pc # "idle"
      BY <2>5, <3>1 DEF Fiber
    <3> QED BY <3>2 DEF Running, DriveMoves, TakesRow
  <2> QED BY <1>3, <2>3, <2>4, <2>5 DEF SubmitOperation
<1> QED BY <1>2, <1>3

LEMMA RetryMoves ==
  ASSUME CoreInv, NEW awaited, RetryFailed(awaited)
  PROVE  DriveMoves
<1>1. /\ row \in Row /\ row.state.phase = "failed" /\ fiber \in Fiber /\ ready \in Continuation
      /\ row' = Swapped(row, RetryState(row.state)) /\ Sound(row)
  BY DEF RetryFailed, CoreInv
<1>2. row' \in Row /\ RerunKept
  BY <1>1, RetriedRow, SwapKeeps
<1>3. CASE Running
  BY <1>1, <1>2, <1>3 DEF RetryFailed, Fiber, Running, DriveMoves, KeepsSnapshot
<1>4. CASE ~Running /\ row.state.at = "report-drafting" /\ row.state.epoch # 0
  BY <1>1, <1>4 DEF RetryFailed, Continuation, Running, DriveMoves, StaysIdle
<1>5. CASE ~Running /\ ~(row.state.at = "report-drafting" /\ row.state.epoch # 0)
  <2>1. Start(row')
    BY <1>5 DEF RetryFailed, Start
  <2> QED BY <1>2, <1>5, <2>1, StartMoves
<1> QED BY <1>3, <1>4, <1>5

LEMMA RenewMoves ==
  ASSUME CoreInv, row.state.phase = "report-drafting",
         row' = Swapped(row, [row.state EXCEPT !.epoch = row.rev + 1]), Start(row')
  PROVE  DriveMoves
<1>1. row' \in Row /\ row'.state.phase = "report-drafting" /\ RerunKept
  BY RenewedRow, SwapKeeps
<1> QED BY <1>1, StartMoves

LEMMA CommandMoves ==
  ASSUME CoreInv, \/ ClearDrained \/ SubmitFresh \/ ContinueRetry \/ RenewHandoff
                  \/ Retry \/ Recover \/ Crash
                  \/ \E d \in Dispatch : Submit(d) \/ QueueBehind(d)
  PROVE  DriveMoves
<1>1. row \in Row /\ ready \in Continuation
  BY DEF CoreInv
<1>2. CASE ClearDrained
  BY <1>2 DEF ClearDrained, NoRow, Present, Running, DriveMoves, StaysIdle
<1>3. CASE SubmitFresh
  BY <1>1, <1>3, SubmitMoves DEF SubmitFresh, Continuation, Running
<1>4. CASE ContinueRetry
  <2>1. row' = row /\ recovered' = recovered /\ ready.freshOp = 0 /\ ~ready.renew
    BY <1>4 DEF ContinueRetry, durable
  <2>2. CASE Start(row)
    BY <1>1, <2>1, <2>2, StartMoves DEF RerunKept
  <2>3. CASE fiber' = fiber
    BY <2>1, <2>3 DEF Running, RerunKept, DriveMoves, KeepsSnapshot, StaysIdle
  <2> QED BY <1>4, <2>2, <2>3 DEF ContinueRetry
<1>5. CASE RenewHandoff
  BY <1>5, RenewMoves DEF RenewHandoff, CoreInv, RenewFits
<1>6. CASE Retry
  BY <1>6, RetryMoves DEF Retry
<1>7. CASE Recover
  <2>1. CASE RetryFailed(FALSE)
    BY <2>1, RetryMoves
  <2>2. CASE /\ row' = IF row.state.phase = "report-drafting" /\ row.state.epoch # 0
                       THEN Swapped(row, [row.state EXCEPT !.epoch = row.rev + 1])
                       ELSE row
             /\ IF Present(row) THEN Start(row') ELSE fiber' = fiber
    <3>1. CASE ~Present(row)
      <4>1. ~Running /\ row' = row
        BY <2>2, <3>1 DEF CoreInv, FiberOwnsRow, NoRow, Claimed
      <4> QED BY <2>2, <3>1, <4>1 DEF Running, DriveMoves, StaysIdle
    <3>2. CASE Present(row) /\ row.state.phase = "report-drafting" /\ row.state.epoch # 0
      BY <2>2, <3>2, RenewMoves
    <3>3. CASE Present(row) /\ ~(row.state.phase = "report-drafting" /\ row.state.epoch # 0)
      BY <1>1, <2>2, <3>3, StartMoves DEF RerunKept
    <3> QED BY <3>1, <3>2, <3>3
  <2> QED BY <1>7, <2>1, <2>2 DEF Recover
<1>8. CASE Crash
  BY <1>8 DEF Crash, Idle, Running, DriveMoves, EndsDriven
<1>9. ASSUME NEW d \in Dispatch, Submit(d) PROVE DriveMoves
  BY <1>9, SubmitMoves DEF Submit
<1>10. ASSUME NEW d \in Dispatch, QueueBehind(d) PROVE DriveMoves
  <2>1. row' \in {row, Requeued(row)} /\ Start(row')
    BY <1>10 DEF QueueBehind
  <2>2. row' \in Row /\ row'.state = row.state /\ RerunKept
    BY <1>1, <2>1, RequeuedRow, RequeueKeeps
  <2> QED BY <2>1, <2>2, StartMoves
<1> QED BY <1>2, <1>3, <1>4, <1>5, <1>6, <1>7, <1>8, <1>9, <1>10

LEMMA DrivenStep ==
  ASSUME IInv, DrivenInv, Next
  PROVE  DrivenInv'
<1>1. CoreInv /\ fiber \in Fiber
  BY DEF IInv, CoreInv
<1>2. CASE \/ PersistAttempt \/ PersistCommitAttempt \/ PersistRecordingAttempt \/ PersistRecorded
           \/ FinishUnchanged \/ PrepareReport \/ FinishDraft
           \/ PlanWorkspace \/ LaunchWorker \/ WorkerReturns \/ ObserveWorker \/ WorkerUnreadable
           \/ SettleCommits \/ RecordingFails \/ RecordHandoff \/ DraftFails \/ VerifyReport
           \/ RecordRound \/ Recapture \/ FileGeneration \/ ComposeReplacement
           \/ \E d \in Dispatch \cup {NoDispatch} : DrainTerminal(d)
  BY <1>1, <1>2, EffectMoves, MovesDriven
<1>3. CASE Superseded \/ DrainFails \/ ClearQueued \/ RecordReturn \/ Retain
  BY <1>1, <1>3, EndMoves, MovesDriven
<1>4. CASE Redrive \/ ReplaceQueued
  <2>1. fiber'.op = row' /\ fiber'.pc = EffectOf(row'.state.phase)
    <3>1. CASE Redrive
      BY <1>1, <3>1 DEF Redrive, durable, Fiber
    <3>2. CASE ReplaceQueued
      <4>1. row'.state.phase = "claimed"
        BY <3>2 DEF ReplaceQueued, NewOperation, Claimed
      <4> QED BY <1>1, <3>2, <4>1 DEF ReplaceQueued, Fiber
    <3> QED BY <1>4, <3>1, <3>2
  <2>2. row'.state.phase \in Phase
    BY <1>4, StepInv DEF IInv, CoreInv, Row, State
  <2>3. TakesRow
    BY <2>1, <2>2, EffectOfFits DEF TakesRow, Running
  <2> QED BY <2>3, MovesDriven DEF DriveMoves
<1>5. CASE \/ ClearDrained \/ SubmitFresh \/ ContinueRetry \/ RenewHandoff \/ Retry \/ Recover
           \/ Crash \/ \E d \in Dispatch : Submit(d) \/ QueueBehind(d)
  BY <1>1, <1>5, CommandMoves, MovesDriven
<1>6. CASE EnvironmentStep
  <2>1. row' = row /\ fiber' = fiber /\ ready' = ready /\ recovered' = recovered
    BY <1>6 DEF EnvironmentStep, HumanCommit, TurnEnds, durable
  <2>2. DriveMoves
    BY <2>1 DEF Running, RerunKept, DriveMoves, KeepsSnapshot, StaysIdle
  <2> QED BY <2>2, MovesDriven
<1> QED BY <1>2, <1>3, <1>4, <1>5, <1>6 DEF Next, ThreadStep, EffectStep

(* After recovery no live operation is left without a drive(), whatever    *)
(* effect rejected, unless its attempt was taken over or its rerun waits.  *)
THEOREM LiveDriven == Spec => []LiveOperationDriven
<1>1. Init => DrivenInv
  BY DEF Init, Idle, DrivenInv, SnapshotHeld, Running
<1>2. IInv /\ DrivenInv /\ UNCHANGED execVars => DrivenInv'
  BY DEF execVars, durable, DrivenInv, SnapshotHeld, Running, Present, IsTerminal
<1>3. IInv /\ DrivenInv /\ [Next]_execVars => DrivenInv'
  BY <1>2, DrivenStep
<1>4. DrivenInv => LiveOperationDriven
  BY DEF DrivenInv, LiveOperationDriven, NoContinuation
<1>5. Spec => []DrivenInv
  BY <1>1, <1>3, Inductive, PTL DEF Spec
<1> QED BY <1>4, <1>5, PTL
=============================================================================
