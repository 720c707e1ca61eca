# Rennet: a TLA+ development

Rennet is a code-review host: a daemon holds review *sessions*, the reviewer
stages *asks* about a change, and *dispatching* them starts a *round*: a coding
agent works on the reviewed branch, the daemon observes its commits, records the
round, re-captures the review, drafts and verifies a report, and hands the round
back. A round takes minutes to hours, spends money, and changes the user's
branch; it must survive failures of every effect, a second dispatch while it
runs, edits of the draft, and the daemon's death at any moment.

This development models the round first, and then what surrounds it: the
generations of boards that rounds and opened reviews draft, the client's
connection to the daemon, the publication of a review on a forge, and the start
and stop of the daemon by the desktop shell.

Paths below are relative to the repository; `packages/` is abbreviated away in
the tables.

## 1. The system

### 1.1 Parts

| Part | State it keeps | Operations | Hard part |
|---|---|---|---|
| Durable round operation (`adapters/src/round-operation-store.ts`) | one SQLite row per session: operation, dispatch, revision, rerun bit, phase and receipts | claimOrReplaceReturned, compareAndSwap, requestRerun, replaceAfterDrain, clear, clearAfterDrain | conflicts, legal transitions |
| Round execution coordinator (`server/src/runtime/round-execution.ts`) | `inFlight`: one drive() promise per session | submit, resume, retry, recover; drive, drain | awaits between snapshot and write, crash between attempt and receipt, a queue of one |
| Round effects (`adapters/src/round-execution-effects.ts`, ports in `server/src/create-server.ts`) | git, the sidecar, the board | plan, runWorker, observeWorker, settleCommits, recordRound, draftReport, verifyReport, drainTerminal, composeReplacement | every one may reject or be repeated |
| Round dispatch command (`server/src/dispatch/round.ts`) | `inFlight` memo of kicked dispatches | round.dispatch, round.retry | work composed across a model call |
| Rounds ledger (`adapters/src/round-store.ts`) | round records per session | record, read | one record per dispatch under retry |
| Rounds runtime (`server/src/runtime/rounds.ts`), generation store (`adapters/src/round-store.ts`) | board generations under a revision, board metadata, one queue of runs per session | open or round regeneration: claim, reveal, reject, file, freeze | attempts that overlap, in one daemon or two; a version read and written over later |
| Ask log (`adapters/src/ask-log-store.ts`, `parsed-file-cache.ts`) | append-only event file per session, parsed-file memo | append, appendMany, read | write that lands and then throws |
| Ask projection (`core/src/exits/ask-projection.ts`) | none (a fold) | applyAskEvent, receiptFor | undo exactness |
| Ask commands (`server/src/dispatch/ask.ts`) | none | ask.*, finding.*, quote.*, verdict.*, comment.* | |
| Composition root (`server/src/create-server.ts`) | wiring | | |
| Session sidecar (`server/src/t3/*`, vendored t3) | threads, turns, checkpoints | start turn, wait, read checkpoint | outlives the daemon |
| Lens pipeline (`server/src/runtime/lens-pipeline.ts`) | none (lanes that settle) | draft the lanes of a generation | a lane's board and its place in the generation are two writes |
| Connection supervisor (`client/src/connection-supervisor.ts`) and bridge (`ws-bridge.ts`), over the daemon's listener (`server/src/ws-listener.ts`) | reachability, one bridge, reconnect timer, subscription registry, projection versions, offline queue | connect, reconnect, close, subscribe, invoke, flush, reconcile | hooks of replaced bridges, a token read that outlives its attempt, a read that races pushes |
| Publication (`server/src/dispatch/publish.ts`, `adapters/src/github-publish.ts`, `gitlab-forge.ts`) | kept openers, markers in flight, receipts | compose, publish | lost answer, late request, crash between post and receipt |
| Desktop daemon lifecycle (`apps/desktop/src/main/daemon-supervisor.ts`, `server/src/supervise.ts`, `daemon.ts`) | one chain of operations per data directory, the ensure in flight, child handle, claim file | ensure, stop, restart on version skew | start and stop races, a claim that is not the process's |
| Session entry, project processing, baseline watching, worktrees, pairing, round view of the app, settings, harness adapters, review analysis, capture | see `PROJECT.json` | | |

### 1.2 How they interact

```
 reviewer --ask.*--> ask log <----consume occurrences---+
    |                  | fold                           |
    +--round.dispatch--+--> coordinator --drainTerminal-+
                                |  |  \--record--> rounds ledger <--real generation-- rounds runtime
             compare-and-swap   |  \---turn--> sidecar (survives the daemon)
                                v
                         durable operation row

 desktop shell --ensure/stop--> daemon process <--claim file--> other launchers
       |                             ^
       +-- connection supervisor ----+-- socket: calls, reads, pushed projections
 reviewer --publish--> in-flight markers --query, post--> forge
```

The rounds runtime drafts an opened review into the generation of its patchset,
which every session over that patchset shares, and a round into a generation of
its own. The connection supervisor sends commands (`ask.*` among them) and is
pushed the projection of the ask log after every append. Publishing reads the
draft and never changes it.

Everything in the daemon runs on one JavaScript thread. Its concurrency is that
of promises: between two awaits nothing else runs, at an await anything may. The
durable writes (SQLite transactions, fsynced files) are synchronous. A crash can
fall anywhere.

### 1.3 What must be right

* A drive() in flight never writes over another operation's row, nor over a
  write that landed while it awaited.
* A worker attempt starts at most one turn, and is settled on its own turn only.
* A round is reported as changed only when the branch gained a commit.
* A dispatch queued behind a round is neither lost nor left undrainable.
* After a restart every live operation is driven, and every round ends.
* The asks that were sent leave the draft, those and no others, exactly when
  their round finished; the ledger has one record per dispatch and the report
  belongs to the operation that filed it.
* The draft is the fold of the durable log, whatever failed; a receipt undoes
  its event.
* A superseded drafting attempt leaves nothing in the generation of its
  successor, a returned round is readable, and what a round freezes is what it
  read.
* One socket at a time; a status that is true; a call that runs at most once; a
  projection that never goes back, and is complete once the client is online.
* One review per draft on the forge, and a receipt only of a whole one.
* The installer is told to go on only when no daemon runs; every call about the
  daemon is answered, and an update that failed gives the port back.

`PROJECT.json` lists, under "hazards", each place in the code where one of these
can go wrong, and the properties aimed at it.

## 2. The modules

| Module | Models | Built on |
|---|---|---|
| `RoundOperation` | the row, its phases, failure points, legal transitions | |
| `RoundOperationStore` | **abstract specification**: every way the store lets a row change | `RoundOperation` |
| `RoundExecution` | the coordinator over its ports, sidecar and git, with crashes | `RoundOperation`; implements `RoundOperationStore` |
| `RoundDispatch` | round.dispatch over the coordinator: draft, ledger, memo | `RoundExecution` |
| `AskLog` | the ask log, its memo, its fold, receipts and revisions | |
| `GenerationOwnership` | drafting runs over the revisioned generations and the board metadata | |
| `ConnectionSupervisor` | the client's supervisor, its bridges and the daemon's end of their sockets | |
| `PublishedOnce` | **abstract specification**: what publishing promises the author | |
| `ReviewPublication` | compose, publish, the receipts and the forge | implements `PublishedOnce` |
| `DaemonLifecycle` | ensure and stop of one data directory's daemon, its processes and claim | |
| `RoundExecutionProofs`, `ConnectionSupervisorProofs`, `ReviewPublicationProofs`, `DaemonLifecycleProofs`, `GenerationOwnershipProofs`, `AskLogProofs` | theorems | the module of that name, TLAPS |
| `RoundReceiptsProofs` | theorems about the receipts of the row, and that a live operation is driven | `RoundExecutionProofs` |
| `RoundDispatchProofs` | theorems about the command over the coordinator | `RoundDispatch`, `RoundReceiptsProofs` |
| `MC...` | TLC instances | |

Definitions whose comment begins with "Fault:" are not part of any
specification: each is a definition with a plausible bug put in, which the
property named for it in `PROJECT.json` ("mutants") must catch.

### 2.1 RoundOperation and RoundOperationStore

A row is `[op, dispatch, rev, rerun, state]`. `op = 0` is the absent row.
Receipts are abstracted to what later code decides on: `base` (the workspace's
source head), `exec` (the worker attempt's execution id), `worker` and `commits`
(whether the settled worker and the observed range carry a change), `epoch` (the
revision at which the report handoff was last persisted), `result`, `returned`
(the handback was acknowledged). Evidence that is *partial* is not told apart
from full evidence: the code treats it like a disagreement, which fails the same
effect. `LegalTransition` is `assertLegalTransition`, `RetryPhase` the state a
Retry resumes. The errors the store throws have no action: an action of
`RoundOperationStore` is an accepted call, and that the coordinator never makes
another is the property `StoreSpec`.

### 2.2 RoundExecution

`fiber` is the drive() promise: the point it has reached (`pc`) and the snapshot
it holds (`op`). An action is what runs between two points where something else
may run. Two kinds of point exist: an await on an effect, where every command,
the environment and a crash may intervene, and a durable write inside a
synchronous segment, after which only a crash may. `Busy` says that the thread
is inside such a segment; every other action of the daemon is guarded by
`~Busy`, `Crash` never is.

| `pc` | Where drive() is |
|---|---|
| `run` | in front of the next durable write |
| `plan`, `settle`, `record`, `draft`, `recaptured`, `handed`, `filed`, `verify` | awaiting the port of that phase |
| `launch`, `turn` | a new worker attempt: before its start, and while its turn runs |
| `observe` | a recovered attempt: waiting for its checkpoint |
| `recorded` | the port has written the ledger, the row does not know yet |
| `drain`, `compose`, `apply` | drainTerminal, composeReplacement, and the write the decision leads to |

`ready` holds what a settled drive() wakes: a submit that waited for the drain of
the terminal before it (`drainBeforeFreshSubmit`), a retry that waited for it,
and the second write of a retry of a handed-off report. They run before anything
else does.

* `persist` (`Persist`) retries on a conflict that only moved the rerun bit,
  and otherwise adopts the row it finds. `ReplaceQueued`, `ClearQueued` and
  `RecordReturn` need the exact row that was decided on, else drive() starts over
  from the latest one.
* The branches of the code that throw because a row is missing, foreign or
  cannot be drained are absent on purpose. `FiberOwnsRow`, `DrainDecisionFits`,
  `NoUndrainableRow` and `StoreSpec` show they cannot be taken.
* The sidecar's turns (`turns`) survive a daemon crash and go on (`TurnEnds`).
  A turn may end ready or failed, and its checkpoint may stay unreadable. A start
  sent twice for one execution id is counted, not hidden (`launches`).
* The branch (`head`) moves by the worker or by a human. A rewritten branch makes
  commit observation reject.
* `Recover` runs behind the listener, so commands can precede it.
* Another process may take a drafting attempt over (`Superseded`). Two daemons on
  one data directory are the exception; the safety run allows it, the liveness
  run does not.

One session is modelled: rows, drives and boards of different sessions share
nothing but the process. `round.retry` reaches coordinator.retry only for a
failed row (the command checks), so retry's "not failed, start" branch has no
action.

### 2.3 RoundDispatch

Extends the coordinator with the draft (`staged`, `seq`), the active patchset,
the ledger, and the process's memo of kicked dispatches. A dispatch *is* its
patchset and its ask occurrences. round.dispatch is taken in the code's three
segments: crash repair of the draft and the choice between a pending record and
the live draft (`DispatchRound`), the owner and memo checks after the first
await (`QueueOnOwner`, `JoinKick`, `ComposeOrder`), and the submit after the work
order is composed (`Kick`, `KickFails`). The ports that touch the draft or the
ledger refine the coordinator's actions of the same name. A record's `op` is the
operation whose id its generation id is derived from. A drafting whose dispatch
already has the real record of another operation fails (`DraftUnfiled`): `record()`
keeps that record, and draftReport finds it is not its own.

An ask is reduced to the log position of its current occurrence. `AskLog` checks
that what a dispatch sends and later consumes is computed from the event log that
way (`ConsumedAsSent`).

### 2.4 AskLog

The durable log, the parsed-file memo and both folds: the projection
(`Applied`) and the occurrence revisions (`Revised`). The file's stamp is the
length of the log: every write lands a longer file. A write may throw after its
rename (the directory flush), which leaves the memo stale and the log longer.
A corrupt file refuses every call and has no states worth exploring. Both folds
are recursive functions over the positions of the log (`AppliedAll`,
`RevisedAll`), which TLC evaluates and the proofs can unfold.

### 2.5 GenerationOwnership

A *run* (`runBoardRegeneration`, in the background for an opened review, from
the operation for a round) reads its prior generation, waits for the session's
earlier runs (`tail`, the code's `tails`), selects or mints its generation,
and then drafts. What it selects is what it read before it waited, unless it is a
round over landed code, which reads again. `pc` is where it is: `clear` (the metadata of its own slots goes
first), `claim`, `report`, `draft` and `reveal` alternating per lane, then the
terminal boundary `drafted`, `judge`, `reject` or `file`, `freeze`, `record`,
`return`. `persistAttempt`'s write is two steps (`ReadVersion`,
`SaveIfRevision`), because another daemon over the same data directory may write
between them; each is refused when the version is not the run's own attempt, or
not the one it read.

An attempt is known by its reserved board slots. A lane's result is `board`,
`absent` (nothing to put on a board), `failed` (for good) or `retry`. `Core` are the
required lenses, a board or an admitted absence of which a round needs, and `Boarded`
those of them that settle no absence (`Missing`, the code's
`missingRequiredCoreLens`): over a change of code `Boarded` is the sequence, over one
of specifications alone, where the host settles `spec-only` for it, nothing. A
round's slots are derived from its operation
and thus the same on every retry, an open's are fresh. `Crash(S)` stops the
daemon of the sessions in S: their runs are gone, the stores stay. Whether the
project context moved, whether a stored report verifies and whether drafting
fails are free choices.

### 2.6 ConnectionSupervisor

`made` counts the bridges, `live` says that `#bridge` is the last of them. A
socket is `connecting`, `open` (handshake answered on the wire), `ready` (the
client has seen it) or `closed`. `down[b]` are the frames on their way to the
client, in order, lost when the socket closes; `reqs` are the requests the daemon
has not answered, handled concurrently as `runRequest` does. A read of the
projection and the sending of its answer are two steps, so pushes may overtake
it: that is the race the version check of `#reconcile` is for.

| Action | Code |
|---|---|
| `TokenResolves`, `TokenRejects`, `TimerFires` | `#connect` around its await, `#scheduleReconnect` |
| `Handshake`, `Drop`, `ReceiveServerInfo`, `ReceiveRejected` | the bridge's hooks and `#onLifecycle` |
| `ReceivePush`, `ReceiveRead`, `ReceiveReply` | pushed frames, the answer in `#reconcile`, settled calls |
| `Subscribe`, `Unsubscribe`, `Invoke`, `Close` | the methods the shells call |
| `Write`, `RunCall`, `ReadLog`, `SendAnswer`, `LoseRequest` | the daemon's listener and its broadcast |

The ask projection stands for the channels, which register and reconcile alike;
it is its log's length, since `AskLog` says what it contains. `held[l]` is the
map a registration's disposer closes over.

### 2.7 ReviewPublication and PublishedOnce

A marker is a draft with its opener. Composing (`Compose`, `OpenerDrafted`) keeps
one opener per draft. `publish.review` is the phases `query`, `head`, `posting`,
`posted`, and for GitLab's approval `approved`, `headAgain`, `approving`,
`approvalPosted`; `batched` chooses the provider. `GiveUp` is a lost answer, a
timeout, or a receipt that cannot be written, at any phase; a request given up
while it was on its way is a *stray* that may land later (`LandStray`). `Crash`
forgets what is in memory. An approval whose call was given up on its way may arrive
later too (`late`, `LandLateApproval`); approving twice is approving once, so one such
request stands for all. `PublishedOnce` is what the author is promised:
drafts become published, never unpublished, and are confirmed only when published
as a whole.

### 2.8 DaemonLifecycle

`chain` is the promise chain of a data directory (`hostOps`); its head runs, and
`pc` is the await it is at. `Ensure` folds onto the ensure in flight only while
that one is the chain's tail. An ensure probes, restarts a daemon of another
version at most `SkewLimit` times, spawns and waits; a stop probes, asks, and goes
on to SIGTERM and SIGKILL. A process is `starting`, `up`, `asked` (to stop) or
`gone`; the claim is written when it comes up, and left behind by a crash.
Processes the shell did not start (`OtherLauncher`) may appear at any time. `Procs` is
a pool of pids: one that exited is given out again once nothing names it (`Free`), so
no run of restarts ends because the processes do. A probe
of a live daemon may time out and then reads as stale; one that throws fails the
ensure or the stop it belongs to. A signal the system refuses (any error but ESRCH)
fails a stop at once, and in a restart on skew goes unnoticed. `serving` and `handed` are
the shell's own state: whether windows are given the port, and whether the
installer was told to go on. One update is prepared at a time (`Preparing`, the
updater's `applyInFlight`), but a second one may be while the first is handed over,
and `RecoverAfterApplyFailure` may give the first up then. Two history variables
record what `InstallerSafe` excepts: `beside`, an ensure spawned beside a live
process or left one starting, and `overtaken`, an apply was given up while the next
was prepared.

## 3. What TLC checks

| Run | Specification and bounds | Distinct states | Shows |
|---|---|---|---|
| `execution` | 2 dispatches, 2 requests, 1 retry, 1 failing effect, 1 crash, 1 commit, supersession | 639k | `TypeOK`, `FiberOwnsRow`, `WorkerLaunchedOnce`, `ReceiptOfOwnAttempt`, `NoRoundWithoutCommit`, `NoUndrainableRow`, `DrainDecisionFits`, `LiveOperationDriven`; `QueuedRerunSurvives`, `ReceiptsSurvive`; implements `RoundOperationStore` |
| `execution_live` | the same without retry and supersession, with fairness, without symmetry | 78k | `DriveEnds`, `OperationSettles` |
| `dispatch` | 2 asks, 2 edits, 2 requests, 1 retry, 1 failing effect or crash, 2 commits | 1.9M | `DispatchTypeOK`, `OneRecordPerDispatch`, `ReturnedIsDrained`, `ReportIsFiled`; `ExactConsumption` |
| `asks` | 2 asks, 2 bodies, 2 places, every event kind, 3 events, 1 dispatch | 147k | `ReadsAreFold`, `ReceiptUndoesOutsideLedger`, `ConsumedAsSent` |
| `generation` | 2 sessions over one patchset, 1 lens that must draft a board, 3 runs, 1 crash, symmetry | 960k | `TypeOK`, `ReturnedIsReadable`; `AttemptsContinue`, `FrozenAsRead` |
| `supervisor` | 1 subscription, 2 calls, a queue of 1, 2 bridges, 1 write of another actor, with fairness | 318k | `TypeOK`, `OnlineIsReady`, `OneSocket`, `CalledOnce`, `Reconciled`; `PaintsForward`, `QueuedSettles` |
| `publication` | 2 drafts (one an approval), 2 concurrent calls, 2 openers, 2 edits, 3 posts, 1 moved head, 2 faults, with fairness | 349k | `TypeOK`, `OneReviewPerDraft`; `FlightEnds`; implements `PublishedOnce` |
| `daemon` | 2 ensures, 1 update, 1 quit, 2 processes at a time, 1 of another launcher, 1 restart on skew, with fairness | 454k | `TypeOK`, `InstallerSafe`, `ServesAgain`; `CallsSettle` |
| `dispatch_join`, `dispatch_replace`, `unsubscribed`, `thawed` | smaller | stops at the counterexample | section 4 |

**Bounds.** A session has one owner and a queue of one, so two dispatch
identities and two requests produce every relation between a running and a
queued round; dispatch identities and asks are interchangeable, hence the
symmetry sets (never under liveness). In `execution`, one failing effect, one
retry and one crash meet at every pair of points, and `MaxHead = 1`: the code compares the observed
head with the base, never counts commits. In `dispatch` a second commit is what a
second changed round of one dispatch takes; `LateCommit` allows it only with one
edit, a crash and a retry, where such a round can occur. `MaxSeq` and `MaxOps` of
`MCRoundDispatch` bound the *set of dispatch identities*: the log positions two
edits and the daemon's own unstage events can reach, and the operations
the requests can create. An effect fails or the daemon crashes, not both, and a failing effect meets a
second edit or a retry, not both (`OneDisturbance`); the theorems cover every
combination. In `asks`, three events
reach every pair of an event and its receipt over a retired ledger or a re-staged ask, and a dispatch, an edit and a
consumption.

In `generation`, three runs are an attempt, the one that overtakes it from the
other session, and the retry or the round that meets both. The lens
is one that must draft a board. With one of each class (a sequence, a required lens
that may find nothing, an optional one) one session passes with two runs and a crash
(1.7M states), and two sessions with two runs and none; with two lenses,
two sessions pass with two runs and a crash (471k). These were checked by hand, also
that `ReturnedIsReadable` is violated where a failed required lens passes for a clean
one; the theorem covers any lenses. In `supervisor`,
two bridges are a connection and its replacement, with every frame of the first
still possible; the queue of 1 under two calls meets its cap. In `publication`,
two faults are a lost answer and the crash that follows, or a request that is
given up twice; two drafts and two openers are what a second marker takes. In
`daemon`, two processes are the one that should be gone and the one started beside
or after it. What could keep a call waiting is a wait without an end, or a daemon that
is restarted over and over; since pids are given out again the second is ended by
the cap on restarts alone, and a mutant for each is refuted. With two updates
instead of the quit the run passes too (433k states), and with both the safety
properties do (2.8M), checked by hand; the theorems cover every number of each.

**Deadlock** checking is off: when the budgets are spent and nothing runs, the
system rests.

**Fairness.** In `RoundExecution`: weak fairness of the thread and of
each effect port: a git or model call resolves or rejects, the sidecar ends each
turn, and a started daemon reaches recover(), which `create-server.ts` calls on
every start. The start of a turn and its checkpoint are waited for with a
deadline (`t3/client.ts`, `t3/handoff.ts`); the turn itself is not, so that an
agent's turn ends is an assumption about the sidecar. Nothing makes a
reviewer act, an effect fail or the daemon crash; "crashes stop" is the budget
`MaxCrashes`, without which no daemon finishes anything.

In `ConnectionSupervisor`: token reads settle, an armed timer fires, a connecting
socket is answered, frames are delivered and the daemon answers. No socket is
obliged to drop, and the last one the bound allows stays up, without which no
queue is ever flushed. In `ReviewPublication`: a call goes on, because its
requests have deadlines (`GiveUp` needs none of it). In `DaemonLifecycle`: the
operation at the head of the chain goes on, because every wait in it has a
deadline; nothing is assumed of any daemon. `GenerationOwnership` is safety only.

**Exceptions the properties name.** `LiveOperationDriven` leaves rows with a
queued rerun out: if recover()'s own retry of a failed operation lands while a
dispatch's drain of it is composing, and that drain then rejects, the row is live,
a rerun is queued and nothing drives it until the next dispatch or restart. It
takes two failing effects in one drain window. `OneReviewPerDraft` allows one more
review for each request that landed after its call had ended. `InstallerSafe`
leaves out daemons of other launchers and the histories in `beside` and
`overtaken`, and says nothing about these: section 4 has what happens in them.
`QueuedSettles` leaves out supervisors that were closed, and a token store that
rejected, after which nothing connects again. `Reconciled` speaks of the listeners
registered before the bridge was made: one added to a live bridge is given the
next push and nothing before it.

## 4. Where code and documents disagree

Four disagreements have a run that TLC refutes; `PROJECT.json` ("findings")
quotes the sentence.

* `dispatch_join`: the memo of kicked dispatches evicts on rejection, and the
  drive of a *failed round* resolves; an identical dispatch is answered
  `dispatched: true` from the memo and nothing runs ("a failed kick is evicted so
  an identical re-dispatch retries").
* `dispatch_replace`: with a rerun queued, a third dispatch writes nothing, so the
  drain that is composing the replacement cannot notice it; its ask is accepted,
  not in the replacement and not queued.
* `unsubscribed`: the disposer of a subscription looks in the map of the bridge
  that was current when it was made; after a reconnect the consumer is gone from
  the registry and its listener still attached, and is given what is pushed ("so a
  consumer unsubscribe detaches the live listener too").
* `thawed`: "freeze a generation immutable" (`rounds.ts:365`). An open reads its
  prior generation before it waits in the session's queue; a round ahead of it
  freezes that generation; the open restores its copy, whose attempt the ownership
  check takes for the current one, and saves it live again (`:2077`). The same write
  can put back older outcomes of the lanes of a settled generation, which is why
  `AttemptsContinue` speaks of the lanes of an attempt that is drafting.

The others are known from the models, where the property they would refute is
stated with its exception:

* A turn the daemon gives up observing (`t3/handoff.ts:320`) is not ended, and the
  next dispatch starts another in the same workspace ("one round at a time, one
  worker running", `docs/developing/concepts/handoff-and-exits.md:604`).
* A work order composed before another round claimed the session
  (`dispatch/round.ts:326`) is submitted as it is after that round finished, and
  sends finished asks to a worker again ("B's ask snapshot and authored work order
  are rebuilt after A's exact occurrences drain", `:306`).
* A dispatch is identified by its occurrences so that "the second dispatch of the
  same asks coalesces onto the first" (`handoff-and-exits.md:528`) and "the durable
  completed placeholder/real record is the cross-restart guard"
  (`dispatch/round.ts:328`). The record is read before the first await and not again:
  a call that is still entering or composing while the same dispatch is retried or
  recovered, and finishes, kicks it once more. Its worker runs again; the draft and
  the ledger stay right, and if it lands a commit its drafting fails
  (`create-server.ts:4850`), because the ledger keeps the first record. An earlier
  form of `ReportIsFiled`, that no operation ever drafts under another's record, is
  refuted by this; the one stated says what the code does guarantee.
* A filed real generation is taken for a finished round (`dispatch/round.ts:260`)
  while the operation is still drafting, and may yet fail ("proof that these exact
  occurrences finished end to end", `:257`).
* `receiptFor` is called an exact undo (`ask-projection.ts:8`). The receipt of a
  retire of an ask that is not staged is a restore (`:175`), no undo when the retired
  ledger holds that ask; that of a restore over an ask staged again is none either.
  Without these two exceptions TLC refutes `ReceiptUndoesOutsideLedger` with an ask
  staged, retired and retired again.
* A sequential retry of a publication "relies on the adapter's marker idempotency"
  (`dispatch/publish.ts:206`); a request whose caller gave up may reach the forge
  after the retry's query, and then there are two reviews.
* The chain of start and stop is there so that a stop cannot find `absent` while an
  ensure is mid-spawn (`daemon-supervisor.ts:68`); an ensure whose wait timed out
  has settled, its child is still starting, and the next stop does find `absent`.
  Without `~beside` TLC refutes `InstallerSafe` with one ensure and one update.
* A repeated choice is deduplicated "so two install handoffs can never race"
  (`auto-update.ts:317`), but only while an apply is in flight, and the watchdog of
  a hand-off is not cleared. If the user applies again after a hand-off that led
  nowhere, that watchdog fires during the second preparation; the recovery queues an
  ensure behind the second stop, and a daemon is started while the installer is told
  to go on. Without `~overtaken` TLC refutes `InstallerSafe` with one ensure and two
  updates.
* The port is withheld "while a teardown is in flight (tray Quit completely, update
  apply)" (`index.ts:321`), but a preparation that fails gives it back (`:496`) though
  a quit queued behind it has yet to stop the daemon. That no window is given the port
  while a stop is pending is refuted by one update and a quit.
* A lens that must draft a board is said to admit no absence (`rounds.ts:583`); over a
  change of specifications alone it does (`protocol/src/board/kind-tables.ts:131`).
* The claim of a new attempt saves over a frozen generation too (`rounds.ts:1277`):
  `FrozenStays` leaves claims out.
* A superseded draft is dropped because "a later attempt owns this review's
  generation and will compose it" (`create-server.ts:5275`); where sessions share a
  patchset the later attempt may compose the other session's.

Also met, and conceded by the code: a retry of a failed worker runs from the same
base and counts the failed attempt's commits as its own; the failure names the
range for the reviewer (`priorCommitNote`). And a dispatch whose record is still
pending is resumed after a failure or restart through a fresh operation, whose
worker runs again.

## 5. What is proved

Eight modules of theorems are checked by TLAPS (SMT, Zenon and LS4). They hold for
every value of the constants, from the assumptions the modules declare and no
others, but for one: the theorems about `RoundDispatch` hold under `AllDispatches`,
see 5.7.

| Module | Theorem | Statement |
|---|---|---|
| `RoundExecutionProofs` | `Inductive` | `Spec => []IInv` |
| | `TypeCorrect` | `Spec => []TypeOK` |
| | `DriveOwnsRow` | `Spec => []FiberOwnsRow` |
| | `LaunchedOnce` | `Spec => []WorkerLaunchedOnce` |
| | `NothingUndrainable` | `Spec => []NoUndrainableRow` |
| | `DecisionsFit` | `Spec => []DrainDecisionFits` |
| | `ImplementsStore` | `Spec => StoreSpec`: the coordinator implements `RoundOperationStore` |
| | `QueuedSurvives` | `Spec => QueuedRerunSurvives` |
| `RoundReceiptsProofs` | `ReceiptsFounded` | `Spec => []ReceiptInv` |
| | `ReceiptIsOwn` | `Spec => []ReceiptOfOwnAttempt` |
| | `RoundHasCommit` | `Spec => []NoRoundWithoutCommit` |
| | `ReceiptsKept` | `Spec => ReceiptsSurvive` |
| | `LiveDriven` | `Spec => []LiveOperationDriven` |
| `RoundDispatchProofs` | `DispatchInductive` | `DispatchSpec => []DInv` |
| | `DispatchTyped` | `DispatchSpec => []DispatchTypeOK` |
| | `OneRecordEach` | `DispatchSpec => []OneRecordPerDispatch` |
| | `ReportsFiled` | `DispatchSpec => []ReportIsFiled` |
| | `ReturnedDrained` | `DispatchSpec => []ReturnedIsDrained` |
| | `ConsumedExactly` | `DispatchSpec => ExactConsumption` |
| `ReviewPublicationProofs` | `TypeCorrect` | `Spec => []TypeOK` |
| | `OneReview` | `Spec => []OneReviewPerDraft` |
| | `Implements` | `Spec => KeepsPromise`: publishing implements `PublishedOnce` |
| `ConnectionSupervisorProofs` | `OneSocketUp` | `Spec => []OneSocket` |
| | `OnlineTruthful` | `Spec => []OnlineIsReady` |
| | `RunOnce` | `Spec => []CalledOnce` |
| | `NeverOlder` | `Spec => PaintsForward` |
| | `SupervisorTypes` | `Spec => []TypeOK` |
| | `CaughtUp` | `Spec => []Reconciled` |
| `DaemonLifecycleProofs` | `LifecycleInductive` | `Spec => []IInv` |
| | `TypeCorrect` | `Spec => []TypeOK` |
| | `InstallerFindsNone` | `Spec => []InstallerSafe` |
| | `PortComesBack` | `Spec => []ServesAgain` |
| `AskLogProofs` | `LogInductive` | `Spec => []LogInv` |
| | `FoldRead` | `Spec => []ReadsAreFold` |
| | `UndoOutsideLedger` | `Spec => []ReceiptUndoesOutsideLedger` |
| | `ConsumptionAsSent` | `Spec => ConsumedAsSent` |
| `GenerationOwnershipProofs` | `OwnershipInductive` | `Spec => []IInv` |
| | `TypeCorrect` | `Spec => []TypeOK` |
| | `AttemptGoesOn` | `Spec => AttemptsContinue` |
| | `FreezesWhatItRead` | `Spec => FrozenAsRead` |
| | `LeavesReadable` | `Spec => []ReturnedIsReadable` |

### 5.1 The round

**The inductive invariant.** `FiberOwnsRow` is not inductive. That a
compare-and-swap from the snapshot is a legal transition needs to know which
phase the snapshot is in, so `PcFits` ties every `pc` to a phase. A command that
runs at an await may only requeue the row or retry a failed one, so the row can
change phase under a drive only at a terminal: `TerminalHeld` says that a
terminal row is always the very state the drive in flight holds, which is why a
second drive cannot start and why the drain's decision still means something.
`DecisionFits` carries the decision across the segment boundary. `SoundState`
carries the receipts' agreement (`worker = commits` once settled), from which a
report is drafted only on changed evidence, and that only a completion is ever
returned. `RenewFits` says the second write of a retry meets the row the first
one left. `LaunchFits`, beside these, says that execution ids are fresh, and that
a drive about to launch holds one nobody has launched.

**The shape.** Four lemmas cover the ways a step may leave row and drive
(`HoldsRow`, `KeepsFiber`, `KeepsRow`, `GoesIdle`); then one lemma per action
(`PlanWorkspaceInv`, ... , `RecoverInv`), gathered in `ThreadStepInv`,
`EffectStepInv` and `CoreStep`, and the turns' half in `OutsideStep`. The second
part of the module shows each write to be one of the store's (`SwapAccepted`, ...,
`StoreRefined`); `SameVocabulary` relates the instance's operators to the
coordinator's own.

### 5.2 Publishing

`IInv` is `TypeOK`, `OneMarker` (a draft's kept opener is the only one any preview,
call, receipt or review of it carries), `SingleFlight` (a call past `Begin` has its
marker in flight, and two such calls have different markers), `Counted` (the
reviews of a marker are at most the strays that landed and one more, and none
while a call that found none is about to post), and `Evident` (what a call past
its post goes by, and what every receipt says, is on the forge). `OneMarker` and
`Counted` give `OneReviewPerDraft`; `Evident` gives the refinement, one action at a
time: landing is `Publish`, finishing is `Confirm`, everything else stutters.

### 5.3 The connection

Three invariants, each resting on the one before. `ConnInv` ties status, token,
timer and the current bridge's socket together, above all in the time *between*
bridges, when a token is being read and no socket is up. `CallsInv` says of every
request and reply in transit which call it belongs to and how often that has run,
so that a call on the queue has no request anywhere. `PaintInv` is about the order
of projections in one socket: a push is newer than everything painted and than
every push in front of it, and an answer that could still be painted, because its
version is the current one, is no older than what is painted. The last step of
`NeverOlder` reads the two painting actions off `PaintInv`.

### 5.4 The daemon

`InstallerSafe` says that nothing lives at the end of a stop; the invariant says
why. `Single`: but for the excepted histories, one process at most is alive, and it is
the one an ensure waits for, or the one the claim names, and under a stop that is
past its probe that stop's target; so what a stop sees exit is the last, whatever pid
it had before. `PortClosed`: from the preparation of an update until it is applied or
given up the port is closed, so no ensure is queued behind it. `Calls` (the chain
holds pending calls, each once, and what is queued or in flight follows itself) is
what folding needs, `OwnPlaces` and `Known` what the two kinds of operation share.

### 5.5 The generations

`Apart` is the heart: the slots a session's boards, runs and round carry belong to
that session alone, and those to come are new. Only one run of a session is past
its queue, so two runs that write have different slots, and a write of one makes
every other's attempt a stranger to the document. Per run: `Claiming` (nothing is
settled before the claim), `Reading` (while the revision is the one it read, the
document holds its attempt), `Revealing` (what the document of its attempt has
settled, the run has settled so too) and `Preceding` (while the predecessor's
revision is the one it took, the document is the one it read). `AttemptGoesOn` and
`FreezesWhatItRead` read these off at the step. `LeavesReadable` needs a second
part, `BInv`: a run has the board of every lane it calls so (`Backed`), a round's
document is what it filed until it returns (`Filed`), and an open that drafts
does so under other slots than the round's (`OwnSlots`), so that an open that
meets a returned round's slots can only write back what it restored whole.

### 5.6 The receipts of a round

`RoundReceiptsProofs` needs two invariants beside `IInv`.

`ReceiptInv` is about what a row *claims*: a row past its worker, or failed on the
way out of a later phase, names a turn of its own operation that ended ready; a row
with observed commits has a base below the branch head; a handoff epoch is never
ahead of the revision. It is stated of the drive's snapshot as well as of the row,
since a snapshot becomes the row at the next write, and it says what a *failed* row
keeps, since that is what a retry resumes from. Turns and branch only grow
(`EnvironmentStep`), so nothing the environment does can take a claim's ground away.
`ReceiptsKept` reads `ReceiptsSurvive` off the possible updates of a row (`Advances`
and the commands' own).

`DrivenInv` is what `LiveOperationDriven` needs to survive a step: between two
awaits the row may be live without a drive only while a continuation that starts
one is ready, and a drive that has not failed is in the row's own phase and knows
no rerun the row does not (`SnapshotHeld`), so a drive never goes idle on a
row it still has to run.

### 5.7 The dispatch

`DInv` adds to the coordinator's invariants:

* `AskInv`: an ask is staged no later than the end of the log, so the next edit
  makes an occurrence nobody has sent; finitely many are staged, which makes the
  length of the log after a consumption a number.
* `HeldInv`: every dispatch that a row, a snapshot, a call, a record or a drain's
  draft holds was composed from occurrences the log already has, so none of them
  can name what the reviewer stages later; and a drive on the row's operation holds
  the row's dispatch.
* `KickInv`: a dispatch that is being composed is in the memo and not waited for.
* `LedgerInv`: one record per dispatch. `Recorded` preserves it in each of its three
  cases.
* `ReportInv`: a row past verification has its own real record in the ledger. It
  survives every other writer because `record()` never replaces a real record.
* `ReturnInv`: from the drain's decision to return a round, and after, none of the
  round's occurrences is staged and a finished record names each. It needs `HeldInv`
  (a new occurrence is none of them) and that finished records stay finished.

`AllDispatches` says that `Dispatch`, a constant of the coordinator, is the set of
all pairs of a patchset and a set of occurrences. The code forms identities by
hashing those two for any draft, so no draft lacks an identity; TLC's instance is
that set cut off at `MaxOps` and `MaxSeq`, which its budgets cannot exceed.

### 5.8 Catching up

`Reconciled` says that a client that is online and owed nothing shows the whole
log; `CatchInv` says why while it is still owed something. Over a ready socket, for
each listener the bridge inherited, either it shows the log, or the push of the
whole log is in the socket (`Due`), or a reread of the counted version is under way
from its request to its answer, and such an answer carries the log or is followed
by a push of what came after it. `Carried` says that a socket carries nothing of
this before its handshake, when no write would have been pushed to it.

### 5.9 The ask log

Its properties relate a fold over a log to the same fold over a longer one, so they
need induction on the length of the log. The induction theorems of the library take
an operator, which no prover here can instantiate; but the library also says that
`<` is well founded on `Nat`, and gives every nonempty set a minimal element
(`NatLessThanWellFounded`, `WFMin`), both about sets. `LeastOf` and `Induction` follow,
and from them that a fold passes through the states of its steps (`FoldRuns`,
`RevRuns`), that two such runs are one (`SameRun`), that folding a concatenation is
folding twice (`FoldConcat`), and that what each event preserves a log does
(`RevisedPreserves`).

`LogInv` has two parts:

* `CacheInv`: a memo stamped with the stamp of the file holds the file, and its
  projection is unset or the fold of the events beside it. A flush that threw leaves
  a memo with a smaller stamp, never one with the same stamp and other events.
* `SentInv`: of each occurrence sent, that while its ask has the revision it was
  sent with, its body is the body sent. It survives any event because a revision that
  is given out is the number of the event, larger than all before (`RevState`), and
  a body is not replaced without giving one out (`RevisionKept`). This is the step
  the fault `RevisedUnlessEdited` breaks.

That undo is exact (`UndoExact`) is a fact about any projection and any event, one
lemma per family of kinds; the projections of a log are typed by `AppliedTyped`.
Line comments need that a path is only kept with a comment (`Comments`), or
clearing the first one would leave an empty path behind.

### 5.10 Only model-checked

All liveness (`DriveEnds`, `OperationSettles`, `QueuedSettles`, `FlightEnds`,
`CallsSettle`) stays with TLC: liveness under fairness and ENABLED cannot be
proved. `JoinedKickRuns`, `ReplacementSendsAccepted`, `UnsubscribedIsSilent` and
`FrozenStays` are refuted and have no theorem. Every other property of a passing run is a theorem.

## 6. Not modelled

* Prompts, parsing, wording, progress events, transcripts: no control depends on
  them.
* Row decoding and migration of older rows and records, malformed stored receipts.
* What a lane of the lens pipeline does to draft its board; its outcome is free.
* The pushed channels other than the ask projection, admission tokens, the
  bridge's own reconnect (the supervisor turns it off).
* Opening a pull request (`publish.submitPr`): a push and a creation with their own
  receipts.
* Windows, menus, boot migrations, and the updater but for preparing, applying and
  failing.
* The append that lands and throws reaches no client in any model: `AskLog` and
  `ConnectionSupervisor` are not composed.
* Everything listed `not_modelled` in `PROJECT.json`, with the reason. Most of the
  repository's code is of that kind: analyses of text and diffs, wire and domain
  schemas, provider adapters and views, which keep no state that a step of another
  actor could spoil.

## 7. Plan

1. Proofs: an abstract specification of the ledger and the draft (what a dispatch
   promises the reviewer) that `RoundDispatch` implements.
2. `AskLog`'s failing flush under `ConnectionSupervisor`'s broadcast.
3. `BaselineAdvance`: debounce, coalescing, cancellation; the pass that sees the
   last ref.
4. The journal of project processing, and `publish.submitPr`.
5. `RoundView`: the app's round machine over the snapshots `RoundExecution`
   publishes; WSL daemons as a second launcher of `DaemonLifecycle`.

## 8. Running

```
tlc -workers 2 -config MCRoundExecution.cfg MCRoundExecution.tla
tlapm RoundExecutionProofs.tla
```

`PROJECT.json` lists every run with its configuration, the expected outcome, the
mutants, and the source lines each definition translates.
