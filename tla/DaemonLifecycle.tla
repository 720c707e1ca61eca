--------------------------- MODULE DaemonLifecycle ---------------------------
(***************************************************************************)
(* Starting and stopping the daemon of one data directory from the desktop *)
(* shell (apps/desktop/src/main/daemon-supervisor.ts and its callers in    *)
(* index.ts), the probe and spawn it uses (packages/server/src/            *)
(* supervise.ts), and the daemon's claim (daemon.ts, daemon-file.ts).      *)
(*                                                                         *)
(* A daemon is known by its process, which stands for its pid and port;    *)
(* once nothing names a process that exited, a new one may have its pid.   *)
(***************************************************************************)
EXTENDS Naturals, Sequences, SequencesExt

CONSTANTS
  Ensures,    \* calls of ensureDaemon
  Stops,      \* calls of stopOwnedDaemon
  Updates,    \* the stops that prepare an update; the others quit
  SkewLimit,  \* SKEW_RESTART_LIMIT
  MaxProcs,   \* bound: processes that run or are still named
  MaxOthers   \* bound: daemons another launcher starts

ASSUME LifecycleAssumption ==
  /\ Updates \subseteq Stops /\ Ensures \cap Stops = {}
  /\ {SkewLimit, MaxOthers} \subseteq Nat /\ MaxProcs \in Nat \ {0}

Ops == Ensures \cup Stops
Procs == 1..MaxProcs
None == "none"

VARIABLES
  chain,      \* hostOps: the operations queued and not settled; the first runs
  inFlight,   \* hostInFlight
  joined,     \* the ensure each ensure follows: itself unless it folded
  outcome,    \* what each call was told: "new", "pending", "failed",
              \* "stopped", or the version of the daemon whose port it got
  pc,         \* where the running operation is
  target,     \* the daemon it verified, or 0
  handle,     \* the child handle the running stop took, or 0
  skew,       \* hostSkewRestarts
  child,      \* hostChildren: a process whose exit has not been seen, or 0
  proc,       \* each process: "gone", "starting", "up" or "asked"
  version,    \* the server version of each that runs: "ours", "other", or
              \* "incompatible"
  claim,      \* the process daemon.json names, or 0
  others,     \* daemons another launcher started
  serving,    \* index.ts's daemonDataDir is set
  handed,     \* the updater is applying: the installer was told to go on
  beside,     \* history: a daemon was spawned beside a live one, or left starting
  overtaken   \* history: one apply was given up while the next was prepared

ops == <<chain, inFlight, joined, outcome>>
run == <<pc, target, handle, skew>>
processes == <<proc, version, others>>
app == <<serving, handed, overtaken>>
vars == <<ops, run, child, processes, claim, app, beside>>

Versions == {"ours", "other", "incompatible"}

(* A daemon of an earlier run of the app may still be there. *)
Init ==
  /\ chain = <<>> /\ inFlight = None
  /\ joined = [e \in Ensures |-> e]
  /\ outcome = [o \in Ops |-> "new"]
  /\ pc = "idle" /\ target = 0 /\ handle = 0 /\ skew = 0 /\ child = 0
  /\ claim \in 0..1 /\ others = 0
  /\ proc = [p \in Procs |-> IF p = claim THEN "up" ELSE "gone"]
  /\ version \in {[p \in Procs |-> IF p = claim THEN v ELSE "ours"] : v \in Versions}
  /\ serving = TRUE /\ handed = FALSE /\ beside = FALSE /\ overtaken = FALSE

-----------------------------------------------------------------------------
(* Helpers *)

Alive(p) == proc[p] \in {"starting", "up", "asked"}
Free(p) == proc[p] = "gone" /\ p \notin {claim, child, target, handle}
Running(o) == chain # <<>> /\ Head(chain) = o

(* The process exits: a child's handle is dropped when it does. *)
Exit(p) ==
  /\ proc' = [proc EXCEPT ![p] = "gone"]
  /\ version' = [version EXCEPT ![p] = "ours"]
  /\ child' = IF child = p THEN 0 ELSE child
  /\ UNCHANGED others

Signal(p) == proc' = [proc EXCEPT ![p] = IF @ \in {"starting", "up"} THEN "asked" ELSE @]

RemoveClaim(p) == claim' = IF claim = p THEN 0 ELSE claim

(* chainDaemonOp *)
Queue(o) ==
  /\ chain' = Append(chain, o)
  /\ pc' = IF chain = <<>> THEN "probe" ELSE pc

(* Fault: a settled ensure stays in flight. *)
SettleInFlight(o, result) ==
  LET told == {o} \cup {e \in Ensures : joined[e] = o}
  IN /\ chain' = Tail(chain)
     /\ pc' = IF Len(chain) > 1 THEN "probe" ELSE "idle"
     /\ target' = 0 /\ handle' = 0
     /\ outcome' = [x \in Ops |-> IF x \in told THEN result ELSE outcome[x]]
     /\ joined' = [e \in Ensures |-> IF e \in told THEN e ELSE joined[e]]
     /\ UNCHANGED inFlight

(* The running operation settles and the next one starts.  Every call that *)
(* folded onto it is told the same.                                        *)
Settle(o, result) ==
  LET told == {o} \cup {e \in Ensures : joined[e] = o}
  IN /\ chain' = Tail(chain)
     /\ pc' = IF Len(chain) > 1 THEN "probe" ELSE "idle"
     /\ target' = 0 /\ handle' = 0
     /\ outcome' = [x \in Ops |-> IF x \in told THEN result ELSE outcome[x]]
     /\ inFlight' = IF inFlight = o THEN None ELSE inFlight
     /\ joined' = [e \in Ensures |-> IF e \in told THEN e ELSE joined[e]]

-----------------------------------------------------------------------------
(* Requests *)

Request(o) ==
  /\ outcome[o] = "new"
  /\ outcome' = [outcome EXCEPT ![o] = "pending"]

(* ensureDaemon: fold onto the ensure in flight while it is the chain's    *)
(* tail, and otherwise queue one.                                          *)
Ensure(e) ==
  /\ Request(e)
  /\ IF inFlight # None /\ Last(chain) = inFlight
       THEN /\ joined' = [joined EXCEPT ![e] = inFlight]
            /\ UNCHANGED <<chain, inFlight, pc>>
       ELSE /\ Queue(e)
            /\ inFlight' = e
            /\ UNCHANGED joined
  /\ UNCHANGED <<target, handle, skew, child, processes, claim, beside>>

(* The window asks for the port (rennet:ws-port), as boot and the recovery *)
(* from a failed preparation do.                                           *)
AskPort(e) == serving /\ Ensure(e) /\ UNCHANGED app

(* applyInFlight: one update at a time is prepared. *)
Preparing == \E u \in Updates : outcome[u] = "pending"

(* Quit completely, or the preparation of an update: no port is handed out *)
(* from here on, then the daemon is stopped.                               *)
Stop(s) ==
  /\ Request(s)
  /\ s \in Updates => ~Preparing
  /\ Queue(s)
  /\ serving' = FALSE
  /\ UNCHANGED <<inFlight, joined, target, handle, skew, child, processes, claim, handed, overtaken, beside>>

(* handleUpdaterError, also by the watchdog of the hand-off: the update was *)
(* not applied after all, the app stays and ensures again.                  *)
RecoverAfterApplyFailure(e) ==
  /\ handed
  /\ handed' = FALSE /\ serving' = TRUE
  /\ overtaken' = (overtaken \/ Preparing)
  /\ Ensure(e)

-----------------------------------------------------------------------------
(* ensureDaemonOnce *)

(* findHealthyDaemon; a daemon too busy to answer in time reads as stale. *)
Verdicts ==
  IF claim = 0 THEN {"absent"}
  ELSE {"stale"} \cup (IF proc[claim] \notin {"up", "asked"} THEN {}
                       ELSE IF version[claim] = "incompatible" THEN {"incompatible"}
                       ELSE {"healthy"})

Fail(o) == Settle(o, "failed") /\ UNCHANGED <<skew, child, processes, claim>>

(* Fault: a restart is not counted. *)
RestartUncounted(e) ==
  /\ pc' = "ask" /\ target' = claim
  /\ UNCHANGED <<ops, handle, skew, child, processes, claim>>

(* restartSkewedDaemon, up to asking it to shut down; refused at the cap. *)
RestartSkewed(e) ==
  IF skew >= SkewLimit
    THEN Fail(e)
    ELSE /\ skew' = skew + 1
         /\ pc' = "ask" /\ target' = claim
         /\ UNCHANGED <<ops, handle, child, processes, claim>>

(* A healthy daemon is the answer when it runs the app's own version. *)
UseHealthy(e) ==
  IF version[claim] = "ours"
    THEN /\ Settle(e, version[claim])
         /\ skew' = 0
         /\ UNCHANGED <<child, processes, claim>>
    ELSE RestartSkewed(e)

(* A probe that throws rejects the ensure. *)
EnsureProbe(e) ==
  /\ Running(e) /\ pc = "probe"
  /\ \/ Fail(e)
     \/ "healthy" \in Verdicts /\ UseHealthy(e)
     \/ "incompatible" \in Verdicts /\ RestartSkewed(e)
     \/ /\ Verdicts \cap {"absent", "stale"} # {}
        /\ pc' = "spawn"
        /\ UNCHANGED <<ops, target, handle, skew, child, processes, claim>>
  /\ UNCHANGED <<app, beside>>

(* The shutdown request, or SIGTERM when nothing acknowledges it; neither  *)
(* need reach the daemon, and an error of the signal is passed over.       *)
AskSkewed(e) ==
  /\ Running(e) /\ pc = "ask"
  /\ Signal(target) \/ UNCHANGED proc
  /\ pc' = "clear"
  /\ UNCHANGED <<ops, target, handle, skew, child, version, others, claim, app, beside>>

(* waitForClaimGone: the claim was dropped or the wait timed out. *)
ClaimGone(e) ==
  /\ Running(e) /\ pc = "clear"
  /\ pc' = "spawn" /\ target' = 0
  /\ UNCHANGED <<ops, handle, skew, child, processes, claim, app, beside>>

Start(p) == Free(p) /\ proc' = [proc EXCEPT ![p] = "starting"]

Spawn(e) ==
  /\ Running(e) /\ pc = "spawn"
  /\ \E p \in Procs : Start(p) /\ child' = p
  /\ pc' = "wait"
  /\ beside' = (beside \/ \E p \in Procs : Alive(p))
  /\ UNCHANGED <<ops, target, handle, skew, version, others, claim, app>>

SpawnFails(e) ==
  /\ Running(e) /\ pc = "spawn"
  /\ Fail(e)
  /\ UNCHANGED <<app, beside>>

(* waitForHealthy: an incompatible daemon is not an answer.  What becomes  *)
(* healthy may be another daemon than the one this ensure spawned.         *)
BecomesHealthy(e) ==
  /\ Running(e) /\ pc = "wait"
  /\ "healthy" \in Verdicts
  /\ UseHealthy(e)
  /\ beside' = (beside \/ child \notin {0, claim})
  /\ UNCHANGED app

(* Fault: the wait for a healthy daemon has no deadline. *)
WaitsForever(e) == FALSE /\ UNCHANGED vars

(* Its deadline passes; the process it waited for is left alone. *)
GiveUpWaiting(e) ==
  /\ Running(e) /\ pc = "wait"
  /\ Fail(e)
  /\ beside' = (beside \/ child # 0)
  /\ UNCHANGED app

-----------------------------------------------------------------------------
(* stopOwnedDaemonOnce *)

(* Fault: a preparation that failed does not give the port back. *)
SettleStopForgets(s, result) ==
  /\ Settle(s, result)
  /\ handed' = IF s \in Updates THEN result = "stopped" ELSE handed
  /\ UNCHANGED <<serving, overtaken>>

(* An update goes on when the daemon is stopped; otherwise the app stays   *)
(* and hands out the port again.                                           *)
SettleStop(s, result) ==
  /\ Settle(s, result)
  /\ handed' = IF s \in Updates THEN result = "stopped" ELSE handed
  /\ serving' = IF s \in Updates /\ result = "failed" THEN TRUE ELSE serving
  /\ UNCHANGED overtaken

(* A claim that cannot be verified is never signalled: alive, it fails the *)
(* stop; dead, it is removed.  A probe that throws fails the stop as well. *)
StopProbe(s) ==
  /\ Running(s) /\ pc = "probe"
  /\ \/ SettleStop(s, "failed") /\ UNCHANGED claim
     \/ "absent" \in Verdicts /\ SettleStop(s, "stopped") /\ UNCHANGED claim
     \/ /\ "stale" \in Verdicts
        /\ IF Alive(claim) THEN SettleStop(s, "failed") /\ UNCHANGED claim
                           ELSE SettleStop(s, "stopped") /\ claim' = 0
     \/ /\ Verdicts \cap {"healthy", "incompatible"} # {}
        /\ target' = claim /\ handle' = child /\ pc' = "ask"
        /\ UNCHANGED <<ops, claim, app>>
  /\ UNCHANGED <<skew, child, processes, beside>>

(* The ack may be lost though the daemon heard the request. *)
StopAsk(s) ==
  /\ Running(s) /\ pc = "ask"
  /\ \/ proc[target] = "up" /\ Signal(target) /\ pc' \in {"acked", "term"}
     \/ UNCHANGED proc /\ pc' = "term"
  /\ UNCHANGED <<ops, target, handle, skew, child, version, others, claim, app, beside>>

(* Fault: an acknowledged request is taken for an exit. *)
AckedIsExited ==
  \/ pc = "acked"
  \/ IF handle # 0 THEN ~Alive(handle) ELSE claim # target /\ ~Alive(target)

(* daemonExited: a child's own exit, or for an inherited daemon a claim    *)
(* that names another process and a process that is gone.                  *)
Exited ==
  IF handle # 0 THEN ~Alive(handle) ELSE claim # target /\ ~Alive(target)

StopExited(s) ==
  /\ Running(s) /\ pc \in {"acked", "terminated", "killed"} /\ Exited
  /\ RemoveClaim(target)
  /\ SettleStop(s, "stopped")
  /\ UNCHANGED <<skew, child, processes, beside>>

StopTimesOut(s) ==
  /\ Running(s) /\ pc \in {"acked", "terminated", "killed"} /\ ~Exited
  /\ IF pc = "killed"
       THEN SettleStop(s, "failed")
       ELSE /\ pc' = IF pc = "acked" THEN "term" ELSE "kill"
            /\ UNCHANGED <<ops, target, handle, app>>
  /\ UNCHANGED <<skew, child, processes, claim, beside>>

(* SIGTERM, then SIGKILL; a process that is gone already (ESRCH) counts,   *)
(* and a signal that is refused fails the stop.                            *)
StopSignals(s) ==
  /\ Running(s) /\ pc \in {"term", "kill"}
  /\ \/ /\ ~Alive(target)
        /\ RemoveClaim(target)
        /\ SettleStop(s, "stopped")
        /\ UNCHANGED <<child, processes>>
     \/ /\ Alive(target)
        /\ SettleStop(s, "failed")
        /\ UNCHANGED <<child, processes, claim>>
     \/ /\ Alive(target)
        /\ IF pc = "term" THEN Signal(target) /\ UNCHANGED <<child, version, others>>
                          ELSE Exit(target)
        /\ pc' = IF pc = "term" THEN "terminated" ELSE "killed"
        /\ UNCHANGED <<ops, target, handle, claim, app>>
  /\ UNCHANGED <<skew, beside>>

-----------------------------------------------------------------------------
(* The daemon processes and other launchers *)

(* runDaemon: the listener is up and the claim written in one step. *)
ComesUp(p) ==
  /\ proc[p] = "starting"
  /\ proc' = [proc EXCEPT ![p] = "up"]
  /\ claim' = p
  /\ UNCHANGED <<ops, run, child, version, others, app, beside>>

(* A daemon told to stop removes its claim, if it is still its own. *)
ShutsDown(p) ==
  /\ proc[p] = "asked"
  /\ Exit(p)
  /\ RemoveClaim(p)
  /\ UNCHANGED <<ops, run, app, beside>>

(* A daemon that fails to start or crashes leaves its claim. *)
Crashes(p) ==
  /\ Alive(p)
  /\ Exit(p)
  /\ UNCHANGED <<ops, run, claim, app, beside>>

(* The CLI, or another installation, starts a daemon of its version. *)
OtherLauncher(v) ==
  /\ others < MaxOthers
  /\ others' = others + 1
  /\ \E p \in Procs : Start(p) /\ version' = [version EXCEPT ![p] = v]
  /\ UNCHANGED <<ops, run, child, claim, app, beside>>

-----------------------------------------------------------------------------
Shell == (\E e \in Ensures : AskPort(e) \/ RecoverAfterApplyFailure(e)) \/ \E s \in Stops : Stop(s)

EnsureStep(e) ==
  \/ EnsureProbe(e) \/ AskSkewed(e) \/ ClaimGone(e) \/ Spawn(e) \/ SpawnFails(e)
  \/ BecomesHealthy(e) \/ GiveUpWaiting(e)

StopStep(s) ==
  StopProbe(s) \/ StopAsk(s) \/ StopExited(s) \/ StopTimesOut(s) \/ StopSignals(s)

RunOp == (\E e \in Ensures : EnsureStep(e)) \/ \E s \in Stops : StopStep(s)

Daemons ==
  \/ \E p \in Procs : ComesUp(p) \/ ShutsDown(p) \/ Crashes(p)
  \/ \E v \in Versions : OtherLauncher(v)

Next == Shell \/ RunOp \/ Daemons

Spec == Init /\ [][Next]_vars

(* The running operation goes on: every wait of it has a deadline. *)
FairSpec == Spec /\ WF_vars(RunOp)

-----------------------------------------------------------------------------
(* Properties *)

(* The state of daemon-supervisor.ts keeps its types, the operation that   *)
(* runs is the head of the chain, and an entry in flight is of a pending   *)
(* ensure, so that no call folds onto one that has settled.                *)
TypeOK ==
  /\ chain \in Seq(Ops)
  /\ inFlight # None => inFlight \in Ensures /\ outcome[inFlight] = "pending"
  /\ joined \in [Ensures -> Ensures]
  /\ outcome \in [Ops -> {"new", "pending", "failed", "stopped"} \cup Versions]
  /\ pc \in {"idle", "probe", "ask", "clear", "spawn", "wait", "acked", "term",
             "terminated", "kill", "killed"}
  /\ pc = "idle" <=> chain = <<>>
  /\ {target, handle, child, claim} \subseteq 0..MaxProcs /\ skew \in 0..SkewLimit
  /\ proc \in [Procs -> {"gone", "starting", "up", "asked"}]
  /\ version \in [Procs -> Versions] /\ others \in 0..MaxOthers
  /\ {serving, handed, beside, overtaken} \subseteq BOOLEAN

(* The installer is told to go on only when no daemon runs, as long as no  *)
(* ensure had spawned beside a daemon that was still alive or ended while  *)
(* its own was starting, no apply was given up while the next one was      *)
(* prepared, and no other launcher started one.                            *)
InstallerSafe ==
  handed /\ ~beside /\ ~overtaken /\ others = 0 => \A p \in Procs : ~Alive(p)

(* The window is refused the port only while a stop runs, an update is     *)
(* applied or the app quits.                                               *)
ServesAgain ==
  serving \/ handed \/ (\E s \in Stops : outcome[s] = "pending")
          \/ \E q \in Stops \ Updates : outcome[q] # "new"

(* Every call is answered, whatever the daemons and other launchers do: no *)
(* call is pending from some time on.                                      *)
CallsSettle == \A o \in Ops : []<>(outcome[o] # "pending")
=============================================================================
