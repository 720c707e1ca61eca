---------------------------- MODULE RoundDispatch ----------------------------
(***************************************************************************)
(* The round.dispatch command (packages/server/src/dispatch/round.ts) over *)
(* the coordinator of RoundExecution: which asks a dispatch names, which   *)
(* the daemon consumes and when, and what the rounds ledger remembers.     *)
(*                                                                         *)
(* An ask occurrence is an ask at the log position that created or last    *)
(* changed it, so an edited, restored or re-staged ask is a new occurrence.*)
(* A dispatch is identified by the patchset and the occurrences it sends.  *)
(***************************************************************************)
EXTENDS RoundExecution, FiniteSets, Sequences

CONSTANTS Ask,         \* ask identities
          MaxEdits     \* reviewer edits of the draft

ASSUME MaxEditsAssumption == MaxEdits \in Nat

VARIABLES
  staged,     \* durable: the log position of each staged ask, 0 if not staged
  seq,        \* durable: length of the ask log
  patchset,   \* durable: the active patchset, named by the operation that captured it
  ledger,     \* durable: the session's round records, in round order
  calls,      \* round.dispatch commands past their first await
  memo,       \* `inFlight': dispatches kicked in this process
  waiting,    \* the kicked dispatches whose `settled' promise is pending
  accepted,   \* history: occurrences answered `dispatched: true'
  edits       \* budget spent

askLog == <<staged, seq, edits>>
dispatchVars == <<askLog, patchset, ledger, calls, memo, waiting, accepted>>
allVars == <<execVars, dispatchVars>>

Occurrence == [ask : Ask, rev : Nat \ {0}]
Record == [dispatch : Dispatch, regeneration : {"pending", "not-needed", "real"}, op : Nat]
Call == [dispatch : Dispatch, stage : {"entering", "composing"}]

DispatchInit ==
  /\ Init
  /\ staged = [a \in Ask |-> 0]
  /\ seq = 0 /\ patchset = 0 /\ edits = 0
  /\ ledger = <<>>
  /\ calls = {} /\ memo = {} /\ waiting = {} /\ accepted = {}

-----------------------------------------------------------------------------
(* Asks and records.                                                       *)

Current(st) == {[ask |-> a, rev |-> st[a]] : a \in {b \in Ask : st[b] # 0}}

(* Fault: an ask is consumed whatever was done to it since the dispatch.   *)
ConsumedById(occurrences) == {o \in occurrences : staged[o.ask] # 0}

(* consumeCurrentAskOccurrences: only occurrences that are still current,  *)
(* in one atomic batch of unstage events.                                  *)
Consumed(occurrences) == {o \in occurrences : staged[o.ask] = o.rev}
Consume(occurrences) ==
  /\ staged' = [a \in Ask |-> IF \E o \in Consumed(occurrences) : o.ask = a
                              THEN 0 ELSE staged[a]]
  /\ seq' = seq + Cardinality(Consumed(occurrences))
  /\ edits' = edits

(* The work order of a draft; NoDispatch when no ask is addressed.         *)
DraftOf(ps, occurrences) ==
  IF occurrences = {} THEN NoDispatch ELSE [ps |-> ps, asks |-> occurrences]

(* Fault: a record is appended even over its own placeholder.              *)
RecordedApart(rec) == Append(ledger, rec)

(* RoundRecordStore.record: a dispatch whose real generation is filed      *)
(* keeps it; its placeholder is replaced in place; anything else appends.  *)
Recorded(rec) ==
  LET same == {i \in DOMAIN ledger : ledger[i].dispatch = rec.dispatch} IN
  CASE \E i \in same : ledger[i].regeneration = "real" -> ledger
    [] same # {} /\ \A i \in same : ledger[i].regeneration # "real" ->
         [i \in DOMAIN ledger |-> IF i \in same /\ \A j \in same : j <= i
                                  THEN rec ELSE ledger[i]]
    [] OTHER -> Append(ledger, rec)

Fallen(op, how) == [dispatch |-> op.dispatch, regeneration |-> how, op |-> op.op]

(* The occurrences the ledger takes for finished, and the last record a    *)
(* dispatch resumes: one whose regeneration is still pending.              *)
FinishedOccurrences ==
  UNION {ledger[i].dispatch.asks :
           i \in {j \in DOMAIN ledger : ledger[j].regeneration # "pending"}}
Pending == {i \in DOMAIN ledger : ledger[i].regeneration = "pending"}
Resumable == ledger[CHOOSE i \in Pending : \A j \in Pending : j <= i].dispatch

-----------------------------------------------------------------------------
(* Fault: a rejected kick leaves the memo but is still waited for.         *)
KicksSettleHalf ==
  IF Running /\ fiber'.pc = "idle"
  THEN IF faults' # faults
       THEN waiting' = waiting /\ memo' = memo \ waiting
       ELSE waiting' = waiting \cap {fiber.fresh} /\ memo' = memo
  ELSE UNCHANGED <<waiting, memo>>

(* The kicked dispatches: `settled' follows the drive() that serves them,  *)
(* and only its rejection evicts the memo.                                 *)
KicksSettle ==
  IF Running /\ fiber'.pc = "idle"
  THEN IF faults' # faults
       THEN waiting' = {} /\ memo' = memo \ waiting
       ELSE waiting' = waiting \cap {fiber.fresh} /\ memo' = memo
  ELSE UNCHANGED <<waiting, memo>>

DraftUntouched == UNCHANGED <<askLog, patchset, ledger, calls, accepted>>

CoordinatorStep ==
  /\ ThreadStep \/ EffectStep
  /\ KicksSettle
  /\ DraftUntouched

RecordPlaceholder ==
  /\ RecordRound
  /\ ledger' = Recorded(Fallen(fiber.op, "pending"))
  /\ UNCHANGED <<askLog, patchset, calls, memo, waiting, accepted>>

RecaptureReview ==
  /\ Recapture
  /\ patchset' = fiber.op.op
  /\ UNCHANGED <<askLog, ledger, calls, memo, waiting, accepted>>

FileRealGeneration ==
  /\ FileGeneration
  /\ ledger' = Recorded(Fallen(fiber.op, "real"))
  /\ UNCHANGED <<askLog, patchset, calls, memo, waiting, accepted>>

(* The drafted report must be the one the last record of the dispatch has. *)
Filed(op) ==
  LET same == {i \in DOMAIN ledger : ledger[i].dispatch = op.dispatch} IN
  \E i \in same : (\A j \in same : j <= i) /\ ledger[i].regeneration = "real" /\ ledger[i].op = op.op

(* Fault: the report is not compared with the recorded one.                *)
FinishDraftUnchecked == FinishDraft /\ UNCHANGED dispatchVars

FinishFiledDraft ==
  /\ FinishDraft
  /\ Filed(fiber.op)
  /\ UNCHANGED dispatchVars

(* The ledger kept a record another operation filed for the same dispatch. *)
DraftUnfiled ==
  /\ fiber.pc = "filed"
  /\ ~Filed(fiber.op)
  /\ Settle(Fail(fiber.op.state, "report-drafting"))
  /\ UNCHANGED <<outside, faults, dispatchVars>>

(* Fault: only a changed round consumes its occurrences.                   *)
DrainChangedOnly ==
  LET handback == fiber.op.state.result = "changed" /\ ~fiber.op.state.returned IN
  /\ fiber.pc = "drain"
  /\ IF handback THEN Consume(fiber.op.dispatch.asks) ELSE UNCHANGED askLog
  /\ DrainTerminal(DraftOf(patchset, Current(staged')))
  /\ UNCHANGED <<patchset, ledger, calls, memo, waiting, accepted>>

(* drainTerminal: an unchanged round is settled in the ledger, then a      *)
(* completed round's occurrences are consumed, and only then is the live   *)
(* draft read for the round queued behind it.                              *)
Drain ==
  LET handback == fiber.op.state.phase = "completed" /\ ~fiber.op.state.returned IN
  /\ fiber.pc = "drain"
  /\ IF handback THEN Consume(fiber.op.dispatch.asks) ELSE UNCHANGED askLog
  /\ DrainTerminal(DraftOf(patchset, Current(staged')))
  /\ ledger' = IF handback /\ fiber.op.state.result = "unchanged"
               THEN Recorded(Fallen(fiber.op, "not-needed")) ELSE ledger
  /\ UNCHANGED <<patchset, calls, memo, waiting, accepted>>

-----------------------------------------------------------------------------
(* Commands.                                                               *)

EditDraft ==
  /\ ~Busy
  /\ edits < MaxEdits
  /\ edits' = edits + 1
  /\ seq' = seq + 1
  /\ UNCHANGED <<execVars, patchset, ledger, calls, memo, waiting, accepted>>

(* stage, edit, restore: the ask's occurrence moves to this event.         *)
StageAsk(a) == EditDraft /\ staged' = [staged EXCEPT ![a] = seq + 1]

(* unstage, retire.                                                        *)
UnstageAsk(a) == EditDraft /\ staged[a] # 0 /\ staged' = [staged EXCEPT ![a] = 0]

(* round.dispatch up to its first await: crash repair of the draft, then a *)
(* resumable record, or else the live draft.                               *)
Dispatched(d) ==
  /\ requests' = requests + 1
  /\ calls' = IF d = NoDispatch THEN calls
              ELSE calls \cup {[dispatch |-> d, stage |-> "entering"]}

DispatchRound ==
  /\ ~Busy
  /\ requests < MaxRequests
  /\ Consume(FinishedOccurrences)
  /\ Dispatched(IF Pending # {} THEN Resumable ELSE DraftOf(patchset, Current(staged')))
  /\ UNCHANGED <<row, nextOp, outside, fiber, ready, recovered, retries, faults, crashes>>
  /\ UNCHANGED <<patchset, ledger, memo, waiting, accepted>>

Answer(d) == accepted' = accepted \cup d.asks

(* queueRoundIfActive: the durable owner gets first refusal.               *)
QueueOnOwner(c) ==
  /\ ~Busy
  /\ c.stage = "entering" /\ Owned
  /\ row' = IF row.dispatch = c.dispatch THEN row ELSE Requeued(row)
  /\ Start(row')
  /\ calls' = calls \ {c}
  /\ Answer(c.dispatch)
  /\ UNCHANGED <<nextOp, outside, ready, recovered, budgets>>
  /\ UNCHANGED <<askLog, patchset, ledger, memo, waiting>>

(* No owner: the memo answers for a dispatch this process already kicked.  *)
(* While that kick still composes, its answer is this call's answer too.   *)
Composing(d) == [dispatch |-> d, stage |-> "composing"] \in calls

JoinKick(c) ==
  /\ ~Busy
  /\ c.stage = "entering" /\ ~Owned
  /\ c.dispatch \in memo
  /\ calls' = calls \ {c}
  /\ IF Composing(c.dispatch) THEN accepted' = accepted ELSE Answer(c.dispatch)
  /\ UNCHANGED <<execVars, askLog, patchset, ledger, memo, waiting>>

ComposeOrder(c) ==
  /\ ~Busy
  /\ c.stage = "entering" /\ ~Owned
  /\ c.dispatch \notin memo
  /\ memo' = memo \cup {c.dispatch}
  /\ calls' = (calls \ {c}) \cup {[c EXCEPT !.stage = "composing"]}
  /\ UNCHANGED <<execVars, askLog, patchset, ledger, waiting, accepted>>

Kick(c) ==
  /\ ~Busy
  /\ c.stage = "composing"
  /\ SubmitOperation(c.dispatch)
  /\ calls' = calls \ {c}
  /\ waiting' = waiting \cup {c.dispatch}
  /\ Answer(c.dispatch)
  /\ UNCHANGED <<outside, ready, recovered, budgets>>
  /\ UNCHANGED <<askLog, patchset, ledger, memo>>

KickFails(c) ==
  /\ ~Busy
  /\ c.stage = "composing"
  /\ faults < MaxFaults
  /\ faults' = faults + 1
  /\ memo' = memo \ {c.dispatch}
  /\ calls' = calls \ {c}
  /\ UNCHANGED <<durable, outside, fiber, ready, recovered, requests, retries, crashes>>
  /\ UNCHANGED <<askLog, patchset, ledger, waiting, accepted>>

RetryRound == Retry /\ UNCHANGED dispatchVars

RestartDaemon ==
  /\ Crash
  /\ calls' = {} /\ memo' = {} /\ waiting' = {}
  /\ UNCHANGED <<askLog, patchset, ledger, accepted>>

Unaffected == (Recover \/ EnvironmentStep) /\ UNCHANGED dispatchVars

-----------------------------------------------------------------------------
DispatchNext ==
  \/ CoordinatorStep
  \/ RecordPlaceholder \/ RecaptureReview \/ FileRealGeneration
  \/ FinishFiledDraft \/ DraftUnfiled \/ Drain
  \/ \E a \in Ask : StageAsk(a) \/ UnstageAsk(a)
  \/ DispatchRound
  \/ \E c \in calls : QueueOnOwner(c) \/ JoinKick(c) \/ ComposeOrder(c) \/ Kick(c) \/ KickFails(c)
  \/ RetryRound \/ RestartDaemon \/ Unaffected

DispatchSpec == DispatchInit /\ [][DispatchNext]_allVars

-----------------------------------------------------------------------------
(* Properties.                                                             *)

(* The one type invariant.                                                 *)
DispatchTypeOK ==
  /\ TypeOK
  /\ staged \in [Ask -> Nat] /\ seq \in Nat /\ patchset \in Nat /\ edits \in Nat
  /\ \A i \in DOMAIN ledger : ledger[i] \in Record
  /\ calls \subseteq Call
  /\ waiting \subseteq memo /\ memo \subseteq Dispatch
  /\ accepted \subseteq Occurrence

(* The daemon takes an ask off the draft only when the ledger holds a      *)
(* finished record of that very occurrence: an ask edited or re-staged     *)
(* while its round ran stays on the draft.                                 *)
ExactConsumption ==
  [][\A a \in Ask :
       staged[a] # 0 /\ staged'[a] = 0 /\ edits' = edits =>
         \E i \in DOMAIN ledger' :
           /\ ledger'[i].regeneration # "pending"
           /\ [ask |-> a, rev |-> staged[a]] \in ledger'[i].dispatch.asks]_allVars

(* A handed-back round left nothing to send again: its occurrences are off *)
(* the draft and its record is finished, whatever crashed in between.      *)
ReturnedIsDrained ==
  Returned(row) =>
    /\ row.dispatch.asks \cap Current(staged) = {}
    /\ row.dispatch.asks \subseteq FinishedOccurrences

(* One ledger record per dispatch, through every retry and re-dispatch.    *)
OneRecordPerDispatch ==
  \A i, j \in DOMAIN ledger : ledger[i].dispatch = ledger[j].dispatch => i = j

(* A report goes to verification, and a changed round completes, only on   *)
(* the generation its own operation filed: an operation that runs a        *)
(* dispatch another one finished never passes that one's record for its    *)
(* own, and the record stays filed while the row rests on it.              *)
ReportIsFiled ==
  row.state.phase = "report-verifying" \/ row.state.result = "changed" => Filed(row)

(* Documented: a failed kick is evicted, so an identical dispatch retries. *)
JoinedKickRuns ==
  [][\A c \in calls : JoinKick(c) => Running \/ Composing(c.dispatch)]_allVars

(* Documented: a dispatch received during handback is queued and replaces  *)
(* the operation before it: the replacement sends every accepted ask that  *)
(* is still on the draft and not already finished.                         *)
ReplacementSendsAccepted ==
  [][row.rerun /\ Present(row') /\ row'.op # row.op =>
       (accepted \cap Current(staged)) \ FinishedOccurrences \subseteq row'.dispatch.asks]_allVars
=============================================================================
