------------------------ MODULE ConnectionSupervisor ------------------------
(***************************************************************************)
(* The client's connection to a daemon: the supervisor that owns the       *)
(* reachability state, the reconnect loop and the resubscribe registry     *)
(* (packages/client/src/connection-supervisor.ts), the one-socket bridges  *)
(* it creates (ws-bridge.ts), and the daemon's side of those sockets       *)
(* (packages/server/src/ws-listener.ts).                                   *)
(*                                                                         *)
(* One review is followed.  A projection of its ask log is the length of   *)
(* the log it folds, and a call is a command that appends to that log.     *)
(* Bridges are numbered in the order they are created; a socket carries    *)
(* its frames to the client in order and loses them when it closes.        *)
(***************************************************************************)
EXTENDS Naturals, Sequences, FiniteSets

CONSTANTS
  Listeners,   \* subscriptions to the review's projection, each made once
  Calls,       \* commands the shell invokes, each once
  QueueMode,   \* offlineInvoke: TRUE for "queue", FALSE for "reject"
  MaxQueued,   \* maxQueuedInvokes
  MaxBridges,  \* bound: bridges created; the last one's socket stays up
  MaxWrites    \* bound: entries other actors append to the log

ASSUME SupervisorAssumption ==
  /\ QueueMode \in BOOLEAN
  /\ MaxQueued \in Nat /\ MaxWrites \in Nat
  /\ MaxBridges \in Nat \ {0}

Bridges == 1..MaxBridges

VARIABLES
  status,    \* the supervisor's reachability state
  closed,    \* #closed
  token,     \* the token read of #connect: "none", "reading" or "rejected"
  timer,     \* #reconnectTimer is armed
  made,      \* bridges created; also the number of the current unsubscribe map
  live,      \* #bridge is bridge `made` (otherwise it is null)
  sock,      \* each bridge's socket, as the bridge sees it
  down,      \* frames on their way to the client, per socket
  hello,     \* sockets whose handshake the daemon accepted
  reqs,      \* requests sent and not yet answered
  log,       \* length of the review's ask log
  writes,    \* entries appended by others (bounded)
  on,        \* #askProjectionRegistry: the registered listeners
  held,      \* the unsubscribe map each registration captured; 0 before it
  seen,      \* listeners that were ever registered
  attached,  \* listeners attached to the newest bridge
  version,   \* #askProjectionVersions
  painted,   \* the last projection each listener was given
  call,      \* each call, as its caller sees it
  via,       \* the bridge a call was sent on
  executed   \* times the daemon ran each call

client == <<status, closed, token, timer, made, live, sock>>
wire == <<down, hello, reqs>>
daemon == <<log, writes, executed>>
subs == <<on, held, seen, attached>>
view == <<version, painted>>
calls == <<call, via>>
vars == <<client, wire, daemon, subs, view, calls>>

Up(b) == sock[b] \in {"connecting", "open", "ready"}

Init ==
  /\ status = "connecting" /\ closed = FALSE /\ token = "reading" /\ timer = FALSE
  /\ made = 0 /\ live = FALSE /\ sock = [b \in Bridges |-> "none"]
  /\ down = [b \in Bridges |-> <<>>] /\ hello = {} /\ reqs = {}
  /\ log = 0 /\ writes = 0 /\ executed = [c \in Calls |-> 0]
  /\ on = {} /\ held = [l \in Listeners |-> 0] /\ seen = {} /\ attached = {}
  /\ version = 0 /\ painted = [l \in Listeners |-> 0]
  /\ call = [c \in Calls |-> "new"] /\ via = [c \in Calls |-> 0]

-----------------------------------------------------------------------------
(* Helpers *)

Queued == {c \in Calls : call[c] = "queued"}
SentOn(b) == {c \in Calls : call[c] = "sent" /\ via[c] = b}

(* The calls of C leave the caller with an error. *)
Reject(C) ==
  /\ call' = [c \in Calls |-> IF c \in C THEN "failed" ELSE call[c]]
  /\ UNCHANGED via

(* A socket that is gone delivers nothing more; S are the ones that close. *)
CloseSockets(S) ==
  /\ sock' = [b \in Bridges |-> IF b \in S THEN "closed" ELSE sock[b]]
  /\ down' = [b \in Bridges |-> IF b \in S THEN <<>> ELSE down[b]]

Tell(b, f) == IF Up(b) THEN Append(down[b], f) ELSE down[b]

CallOn(b, c) == [kind |-> "call", on |-> b, call |-> c]
ReadOn(b) == [kind |-> "read", on |-> b, version |-> version, to |-> on]

-----------------------------------------------------------------------------
(* Connecting *)

(* #wireRegistry: a new bridge inherits every registered listener. *)
WireRegistry == attached' = on

(* Fault: a token that resolves after a close still makes its bridge.      *)
TokenResolvesAnyway ==
  /\ token = "reading"
  /\ token' = "none"
  /\ made' = made + 1
  /\ live' = TRUE
  /\ sock' = [sock EXCEPT ![made + 1] = "connecting"]
  /\ WireRegistry
  /\ UNCHANGED <<status, closed, timer, wire, daemon, on, held, seen, view, calls>>

(* The token is read afresh for each attempt; a close meanwhile aborts it. *)
TokenResolves ==
  /\ token = "reading"
  /\ token' = "none"
  /\ IF closed
       THEN UNCHANGED <<made, live, sock, attached>>
       ELSE /\ made' = made + 1
            /\ live' = TRUE
            /\ sock' = [sock EXCEPT ![made + 1] = "connecting"]
            /\ WireRegistry
  /\ UNCHANGED <<status, closed, timer, wire, daemon, on, held, seen, view, calls>>

(* A token store that rejects ends the attempt: nothing schedules another. *)
TokenRejects ==
  /\ token = "reading"
  /\ token' = "rejected"
  /\ UNCHANGED <<status, closed, timer, made, live, sock, wire, daemon, subs, view, calls>>

(* The socket opens, the bridge says hello and the daemon answers it. *)
Handshake(b) ==
  /\ sock[b] = "connecting"
  /\ sock' = [sock EXCEPT ![b] = "open"]
  /\ \/ /\ hello' = hello \cup {b}
        /\ down' = [down EXCEPT ![b] = <<[kind |-> "serverInfo"]>>]
     \/ /\ down' = [down EXCEPT ![b] = <<[kind |-> "rejected"]>>]
        /\ UNCHANGED hello
  /\ UNCHANGED <<status, closed, token, timer, made, live, reqs, daemon, subs, view, calls>>

(* #scheduleReconnect arms one timer. *)
ScheduleReconnect == timer' = TRUE

(* Fault: a socket that had shaken hands closes without an offline event.  *)
DropUnreported(b) ==
  /\ Up(b) /\ made < MaxBridges
  /\ CloseSockets({b})
  /\ Reject(SentOn(b))
  /\ IF closed \/ sock[b] = "ready" THEN UNCHANGED <<status, timer>>
                                    ELSE status' = "offline" /\ ScheduleReconnect
  /\ UNCHANGED <<closed, token, made, live, hello, reqs, daemon, subs, view>>

(* The socket closes, or never opens: what was in flight on it fails.      *)
(* While it is the last one the bound allows it stays up.                  *)
Drop(b) ==
  /\ Up(b) /\ made < MaxBridges
  /\ CloseSockets({b})
  /\ Reject(SentOn(b))
  /\ IF closed THEN UNCHANGED <<status, timer>>
               ELSE status' = "offline" /\ ScheduleReconnect
  /\ UNCHANGED <<closed, token, made, live, hello, reqs, daemon, subs, view>>

(* Fault: the timer is still armed after it fired. *)
TimerFiresAgain ==
  /\ timer
  /\ CloseSockets(IF live THEN {made} ELSE {})
  /\ Reject(IF live THEN SentOn(made) ELSE {})
  /\ live' = FALSE
  /\ status' = "connecting"
  /\ token' = "reading"
  /\ UNCHANGED <<closed, timer, made, hello, reqs, daemon, subs, view>>

(* The timer drops the dead bridge and connects again. *)
TimerFires ==
  /\ timer
  /\ timer' = FALSE
  /\ CloseSockets(IF live THEN {made} ELSE {})
  /\ Reject(IF live THEN SentOn(made) ELSE {})
  /\ live' = FALSE
  /\ status' = "connecting"
  /\ token' = "reading"
  /\ UNCHANGED <<closed, made, hello, reqs, daemon, subs, view>>

-----------------------------------------------------------------------------
(* Frames the client receives, in the order the daemon sent them *)

Receive(b, k) ==
  /\ sock[b] \in {"open", "ready"}
  /\ down[b] # <<>> /\ Head(down[b]).kind = k
  /\ down' = [down EXCEPT ![b] = Tail(@)]

(* Fault: an online hook that does not read the projections again. *)
NoReread == {}

(* #flushQueue and #reconcile of the online hook; both use #bridge. *)
Flushed == IF live THEN {CallOn(made, c) : c \in Queued} ELSE {}
Reread == IF live /\ on # {} THEN {ReadOn(made)} ELSE {}

(* Fault: the flushed calls stay on the queue. *)
FlushQueueAndKeep ==
  /\ via' = [c \in Calls |-> IF live /\ c \in Queued THEN made ELSE via[c]]
  /\ UNCHANGED call

FlushQueue ==
  /\ call' = [c \in Calls |-> IF live /\ c \in Queued THEN "sent" ELSE call[c]]
  /\ via' = [c \in Calls |-> IF live /\ c \in Queued THEN made ELSE via[c]]

ReceiveServerInfo(b) ==
  /\ Receive(b, "serverInfo")
  /\ sock' = [sock EXCEPT ![b] = "ready"]
  /\ status' = "online"
  /\ FlushQueue
  /\ reqs' = reqs \cup Flushed \cup Reread
  /\ UNCHANGED <<closed, token, timer, made, live, hello, daemon, subs, view>>

(* Fault: a refused handshake leaves the queue waiting. *)
ReceiveRejectedOnly(b) ==
  /\ sock[b] = "open" /\ down[b] # <<>> /\ Head(down[b]).kind = "rejected"
  /\ CloseSockets({b})
  /\ status' = "error"
  /\ Reject(SentOn(b))
  /\ UNCHANGED <<closed, token, timer, made, live, hello, reqs, daemon, subs, view>>

(* A refused handshake is terminal: the queue fails and nothing retries. *)
ReceiveRejected(b) ==
  /\ sock[b] = "open" /\ down[b] # <<>> /\ Head(down[b]).kind = "rejected"
  /\ CloseSockets({b})
  /\ status' = "error"
  /\ Reject(Queued \cup SentOn(b))
  /\ UNCHANGED <<closed, token, timer, made, live, hello, reqs, daemon, subs, view>>

(* A pushed projection reaches the listeners attached to this bridge, each *)
(* of them counting one version.                                           *)
ReceivePush(b) ==
  LET got == IF b = made THEN attached ELSE {}
  IN /\ Receive(b, "push")
     /\ version' = version + Cardinality(got)
     /\ painted' = [l \in Listeners |-> IF l \in got THEN Head(down[b]).at ELSE painted[l]]
     /\ UNCHANGED <<client, hello, reqs, daemon, subs, calls>>

(* Fault: only the bridge is compared, not the version. *)
OfSameBridge(b, f) == live /\ b = made /\ on # {}

(* The answer of a reconciling read: dropped when the bridge was replaced, *)
(* a newer projection arrived meanwhile, or nobody is registered.          *)
Fresh(b, f) == live /\ b = made /\ f.version = version /\ on # {}

ReceiveRead(b) ==
  LET f == Head(down[b])
  IN /\ Receive(b, "answer")
     /\ IF Fresh(b, f)
          THEN /\ version' = version + 1
               /\ painted' = [l \in Listeners |->
                                IF l \in f.to \cap on THEN f.at ELSE painted[l]]
          ELSE UNCHANGED view
     /\ UNCHANGED <<client, hello, reqs, daemon, subs, calls>>

ReceiveReply(b) ==
  /\ Receive(b, "reply")
  /\ call' = [call EXCEPT ![Head(down[b]).call] = "done"]
  /\ UNCHANGED <<client, hello, reqs, daemon, subs, view, via>>

-----------------------------------------------------------------------------
(* The shell *)

Subscribe(l) ==
  /\ l \notin seen
  /\ seen' = seen \cup {l}
  /\ on' = on \cup {l}
  /\ held' = [held EXCEPT ![l] = made]
  /\ attached' = IF live THEN attached \cup {l} ELSE attached
  /\ UNCHANGED <<client, wire, daemon, view, calls>>

(* The returned disposer looks in the map its registration captured, which *)
(* is the current bridge's only while no bridge has been created since.    *)
Unsubscribe(l) ==
  /\ l \in on
  /\ on' = on \ {l}
  /\ attached' = IF held[l] = made THEN attached \ {l} ELSE attached
  /\ UNCHANGED <<client, wire, daemon, held, seen, view, calls>>

Invoke(c) ==
  /\ call[c] = "new"
  /\ IF status = "online" /\ live
       THEN /\ call' = [call EXCEPT ![c] = "sent"]
            /\ via' = [via EXCEPT ![c] = made]
            /\ reqs' = reqs \cup {CallOn(made, c)}
       ELSE /\ call' = [call EXCEPT ![c] =
                          IF status # "error" /\ QueueMode /\ Cardinality(Queued) < MaxQueued
                            THEN "queued" ELSE "failed"]
            /\ UNCHANGED <<via, reqs>>
  /\ UNCHANGED <<client, down, hello, daemon, subs, view>>

Close ==
  /\ ~closed
  /\ closed' = TRUE
  /\ timer' = FALSE
  /\ Reject(Queued \cup (IF live THEN SentOn(made) ELSE {}))
  /\ CloseSockets(IF live THEN {made} ELSE {})
  /\ live' = FALSE
  /\ status' = "idle"
  /\ UNCHANGED <<token, made, hello, reqs, daemon, subs, view>>

-----------------------------------------------------------------------------
(* The daemon *)

(* Every append is pushed to each socket that has shaken hands and is open. *)
Pushed(n) ==
  [b \in Bridges |-> IF b \in hello THEN Tell(b, [kind |-> "push", at |-> n]) ELSE down[b]]

(* An append by a round or by another client. *)
Write ==
  /\ writes < MaxWrites
  /\ writes' = writes + 1
  /\ log' = log + 1
  /\ down' = Pushed(log + 1)
  /\ UNCHANGED <<client, hello, reqs, executed, subs, view, calls>>

(* A call appends and pushes before its response.  Requests are handled    *)
(* concurrently, and runRequest sends a read's answer only after awaiting  *)
(* it, so pushes may go first.  A closed socket is sent nothing.           *)
RunCall(r) ==
  /\ r \in reqs /\ r.kind = "call"
  /\ reqs' = reqs \ {r}
  /\ log' = log + 1
  /\ executed' = [executed EXCEPT ![r.call] = @ + 1]
  /\ down' = [Pushed(log + 1) EXCEPT ![r.on] =
                IF Up(r.on) THEN Append(@, [kind |-> "reply", call |-> r.call]) ELSE @]
  /\ UNCHANGED <<client, hello, writes, subs, view, calls>>

ReadLog(r) ==
  /\ r \in reqs /\ r.kind = "read"
  /\ reqs' = (reqs \ {r}) \cup
       {[kind |-> "answer", on |-> r.on, at |-> log, version |-> r.version, to |-> r.to]}
  /\ UNCHANGED <<client, down, hello, daemon, subs, view, calls>>

SendAnswer(r) ==
  /\ r \in reqs /\ r.kind = "answer"
  /\ reqs' = reqs \ {r}
  /\ down' = [down EXCEPT ![r.on] = Tell(r.on, r)]
  /\ UNCHANGED <<client, hello, daemon, subs, view, calls>>

(* A request the socket closed on may never have reached the daemon. *)
LoseRequest(r) ==
  /\ r \in reqs /\ ~Up(r.on)
  /\ reqs' = reqs \ {r}
  /\ UNCHANGED <<client, down, hello, daemon, subs, view, calls>>

-----------------------------------------------------------------------------
Connecting == TokenResolves \/ TokenRejects \/ TimerFires \/ \E b \in Bridges : Handshake(b) \/ Drop(b)

Receiving ==
  \E b \in Bridges : \/ ReceiveServerInfo(b) \/ ReceiveRejected(b)
                     \/ ReceivePush(b) \/ ReceiveRead(b) \/ ReceiveReply(b)

Shell == Close \/ (\E l \in Listeners : Subscribe(l) \/ Unsubscribe(l)) \/ (\E c \in Calls : Invoke(c))

Serving == Write \/ \E r \in reqs : RunCall(r) \/ ReadLog(r) \/ SendAnswer(r) \/ LoseRequest(r)

Next == Connecting \/ Receiving \/ Shell \/ Serving

Spec == Init /\ [][Next]_vars

(* The event loop runs what is due: token reads settle, timers fire, open  *)
(* sockets shake hands and deliver, and the daemon answers.  Nothing       *)
(* obliges the shell, a socket to drop or a token store to fail.           *)
Fairness ==
  /\ WF_vars(TokenResolves \/ TokenRejects)
  /\ WF_vars(TimerFires)
  /\ WF_vars(\E b \in Bridges : Handshake(b))
  /\ WF_vars(Receiving)
  /\ WF_vars(\E r \in reqs : RunCall(r) \/ ReadLog(r) \/ SendAnswer(r) \/ LoseRequest(r))

FairSpec == Spec /\ Fairness

-----------------------------------------------------------------------------
(* Properties *)

Answers == [kind : {"answer"}, on : Bridges, at : Nat, version : Nat, to : SUBSET Listeners]

Frames ==
  [kind : {"serverInfo", "rejected"}] \cup [kind : {"push"}, at : Nat]
  \cup [kind : {"reply"}, call : Calls] \cup Answers

Requests ==
  [kind : {"call"}, on : Bridges, call : Calls]
  \cup [kind : {"read"}, on : Bridges, version : Nat, to : SUBSET Listeners] \cup Answers

(* The state of connection-supervisor.ts and ws-bridge.ts keeps its types. *)
TypeOK ==
  /\ status \in {"idle", "connecting", "online", "offline", "error"}
  /\ closed \in BOOLEAN /\ timer \in BOOLEAN /\ live \in BOOLEAN
  /\ token \in {"none", "reading", "rejected"}
  /\ made \in 0..MaxBridges
  /\ sock \in [Bridges -> {"none", "connecting", "open", "ready", "closed"}]
  /\ down \in [Bridges -> Seq(Frames)] /\ hello \subseteq Bridges /\ reqs \subseteq Requests
  /\ log \in Nat /\ writes \in 0..MaxWrites /\ executed \in [Calls -> Nat]
  /\ on \subseteq Listeners /\ seen \subseteq Listeners /\ attached \subseteq Listeners
  /\ held \in [Listeners -> 0..MaxBridges] /\ version \in Nat /\ painted \in [Listeners -> Nat]
  /\ call \in [Calls -> {"new", "queued", "sent", "done", "failed"}]
  /\ via \in [Calls -> 0..MaxBridges]

(* The state a shell paints is truthful: it says online only while the     *)
(* current bridge's socket is open and has shaken hands (the hooks of      *)
(* #onLifecycle do not say which bridge they come from).                   *)
OnlineIsReady == status = "online" => live /\ sock[made] = "ready"

(* Only the current bridge of a supervisor that is not closed has a socket *)
(* up, however a token read, a timer and a close interleave.               *)
OneSocket == \A b \in Bridges : Up(b) => ~closed /\ live /\ b = made

(* Each call reaches the daemon at most once over every reconnect, never   *)
(* before it leaves the queue, and always when its caller has an answer.   *)
CalledOnce ==
  \A c \in Calls : /\ executed[c] <= 1
                   /\ call[c] \in {"new", "queued"} => executed[c] = 0
                   /\ call[c] = "done" => executed[c] = 1

(* No listener is ever given an older projection than it already has,      *)
(* though pushes and the answer of the reconciling read race.              *)
PaintsForward == [][\A l \in Listeners : painted'[l] >= painted[l]]_vars

(* Once a connection is online and nothing is in flight, every listener    *)
(* that was registered before its bridge was made shows the whole log,     *)
(* including what was written while the socket was down.                   *)
Settled == status = "online" /\ reqs = {} /\ down[made] = <<>>
Reconciled == Settled => \A l \in on : held[l] < made => painted[l] = log

(* A call queued while the daemon is unreachable is answered or rejected   *)
(* in the end; a token store that rejects is what can leave it waiting.    *)
QueuedSettles ==
  \A c \in Calls : (call[c] = "queued" /\ ~closed)
                     ~> (call[c] \in {"done", "failed"} \/ token = "rejected")

(* A consumer's unsubscribe detaches the live listener too                 *)
(* (connection-supervisor.ts:161): it is given nothing afterwards.         *)
UnsubscribedIsSilent ==
  [][\A l \in seen \ on : painted'[l] = painted[l]]_vars
=============================================================================
