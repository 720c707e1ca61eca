---------------------- MODULE ConnectionSupervisorProofs ----------------------
(***************************************************************************)
(* ConnectionSupervisor for every number of bridges, calls and listeners:  *)
(* one socket at most is up, the status tells the truth, a call is made    *)
(* once, no listener is given an older projection than it has, and one     *)
(* that is online and owed nothing has the newest.                         *)
(***************************************************************************)
EXTENDS ConnectionSupervisor, FiniteSetTheorems, SequenceTheorems, TLAPS

-----------------------------------------------------------------------------
(* The connection.                                                         *)

Shape ==
  /\ status \in {"idle", "connecting", "online", "offline", "error"}
  /\ closed \in BOOLEAN /\ timer \in BOOLEAN /\ live \in BOOLEAN
  /\ made \in 0..MaxBridges
  /\ sock \in [Bridges -> {"none", "connecting", "open", "ready", "closed"}]

(* While a token is read there is no bridge and no timer, but one to make;  *)
(* a timer is armed only when the socket is down or about to be replaced.  *)
Between ==
  /\ token = "reading" => ~live /\ ~timer
  /\ timer \/ token = "reading" => made < MaxBridges
  /\ closed => ~live /\ ~timer
  /\ live => made \in Bridges

ConnInv == Shape /\ Between /\ OneSocket /\ OnlineIsReady

LEMMA ConnInit == Init => ConnInv
<1> SUFFICES ASSUME Init PROVE ConnInv
  OBVIOUS
<1>1. MaxBridges \in Nat /\ 0 < MaxBridges
  BY SupervisorAssumption
<1>2. Shape
  <2>1. status \in {"idle", "connecting", "online", "offline", "error"}
    BY DEF Init
  <2>2. closed \in BOOLEAN /\ timer \in BOOLEAN /\ live \in BOOLEAN
    BY DEF Init
  <2>3. made \in 0..MaxBridges
    BY <1>1 DEF Init
  <2>4. sock \in [Bridges -> {"none", "connecting", "open", "ready", "closed"}]
    BY DEF Init
  <2> QED BY <2>1, <2>2, <2>3, <2>4 DEF Shape
<1>3. Between /\ OneSocket /\ OnlineIsReady
  BY <1>1 DEF Init, Between, OneSocket, OnlineIsReady, Up
<1> QED BY <1>2, <1>3 DEF ConnInv

LEMMA ConnStep == ConnInv /\ [Next]_vars => ConnInv'
<1> SUFFICES ASSUME ConnInv, [Next]_vars PROVE ConnInv'
  OBVIOUS
<1> USE SupervisorAssumption DEF ConnInv, Shape, Between, OneSocket, OnlineIsReady, Up, Bridges
<1>1. CASE UNCHANGED client
  BY <1>1 DEF client
<1>2. CASE TokenResolves
  <2>1. CASE closed
    BY <1>2, <2>1 DEF TokenResolves
  <2>2. CASE ~closed
    <3>1. made + 1 \in Bridges /\ made' = made + 1 /\ sock' = [sock EXCEPT ![made + 1] = "connecting"]
      BY <1>2, <2>2 DEF TokenResolves
    <3>2. \A b \in Bridges : b # made + 1 => ~Up(b)'
      BY <1>2, <3>1 DEF TokenResolves
    <3>3. live' /\ made' \in 0..MaxBridges /\ status' # "online"
      BY <1>2, <2>2, <3>1 DEF TokenResolves
    <3>4. closed' = closed /\ token' # "reading" /\ ~timer'
      BY <1>2, <2>2 DEF TokenResolves
    <3> QED BY <1>2, <2>2, <3>1, <3>2, <3>3, <3>4 DEF TokenResolves
  <2> QED BY <2>1, <2>2
<1>3. CASE TokenRejects
  BY <1>3 DEF TokenRejects
<1>4. CASE TimerFires
  BY <1>4 DEF TimerFires, CloseSockets
<1>5. ASSUME NEW b \in Bridges, Handshake(b) PROVE ConnInv'
  BY <1>5 DEF Handshake
<1>6. ASSUME NEW b \in Bridges, Drop(b) PROVE ConnInv'
  BY <1>6 DEF Drop, CloseSockets, ScheduleReconnect
<1>7. ASSUME NEW b \in Bridges, ReceiveServerInfo(b) PROVE ConnInv'
  BY <1>7 DEF ReceiveServerInfo, Receive
<1>8. ASSUME NEW b \in Bridges, ReceiveRejected(b) PROVE ConnInv'
  BY <1>8 DEF ReceiveRejected, CloseSockets
<1>9. CASE Close
  BY <1>9 DEF Close, CloseSockets
<1>10. CASE \/ \E b \in Bridges : ReceivePush(b) \/ ReceiveRead(b) \/ ReceiveReply(b)
            \/ \E l \in Listeners : Subscribe(l) \/ Unsubscribe(l)
            \/ \E c \in Calls : Invoke(c)
            \/ Serving \/ UNCHANGED vars
  BY <1>1, <1>10 DEF ReceivePush, ReceiveRead, ReceiveReply, Subscribe, Unsubscribe, Invoke,
     Serving, Write, RunCall, ReadLog, SendAnswer, LoseRequest, vars
<1> QED BY <1>2, <1>3, <1>4, <1>5, <1>6, <1>7, <1>8, <1>9, <1>10 DEF Next, Connecting, Receiving, Shell

LEMMA ConnInductive == Spec => []ConnInv
BY ConnInit, ConnStep, PTL DEF Spec

(* However token reads, timers, drops and closes interleave, only the      *)
(* current bridge of a supervisor that is not closed has a socket up.      *)
THEOREM OneSocketUp == Spec => []OneSocket
<1>1. ConnInv => OneSocket
  BY DEF ConnInv
<1> QED BY <1>1, ConnInductive, PTL

(* The shell says online only over a current bridge that has shaken hands. *)
THEOREM OnlineTruthful == Spec => []OnlineIsReady
<1>1. ConnInv => OnlineIsReady
  BY DEF ConnInv
<1> QED BY <1>1, ConnInductive, PTL

-----------------------------------------------------------------------------
(* Calls and frames.                                                       *)

(* A frame may reach the client: a reply is of a call that was run.        *)
Sound == {f \in Frames : f.kind = "reply" => executed[f.call] = 1}

Data ==
  /\ log \in Nat /\ version \in Nat
  /\ on \subseteq Listeners /\ IsFiniteSet(on)
  /\ attached \subseteq Listeners /\ IsFiniteSet(attached)
  /\ executed \in [Calls -> Nat]
  /\ call \in [Calls -> {"new", "queued", "sent", "done", "failed"}]
  /\ via \in [Calls -> 0..MaxBridges]
  /\ down \in [Bridges -> Seq(Sound)]

(* A request for a call is the only one, was sent, and was not run yet.    *)
Asked(r) ==
  /\ r.kind = "call" => \E c \in Calls : /\ r = CallOn(via[c], c) /\ via[c] \in Bridges
                                         /\ call[c] \notin {"new", "queued"}
                                         /\ executed[c] = 0
  /\ r.kind = "read" => r.on \in Bridges /\ r.version \in Nat /\ r.to \subseteq Listeners
  /\ r.kind = "answer" => r \in Answers

CallsInv == Data /\ CalledOnce /\ \A r \in reqs : Asked(r)

LEMMA CallsInit == Init => CallsInv
<1> SUFFICES ASSUME Init PROVE CallsInv
  OBVIOUS
<1>1. IsFiniteSet({}) /\ <<>> \in Seq(Sound)
  BY FS_EmptySet
<1> QED BY <1>1, SupervisorAssumption DEF Init, CallsInv, Data, CalledOnce

(* Steps that only the connection and the registry see.                    *)
LEMMA QuietCalls ==
  ASSUME ConnInv, CallsInv,
         \/ TokenResolves \/ TokenRejects \/ UNCHANGED vars
         \/ \E l \in Listeners : Subscribe(l) \/ Unsubscribe(l)
  PROVE  CallsInv'
<1>1. /\ UNCHANGED <<log, version, executed, call, via, down, reqs>>
      /\ on' \subseteq Listeners /\ attached' \subseteq Listeners
  BY DEF TokenResolves, TokenRejects, Subscribe, Unsubscribe, WireRegistry, vars, client, wire,
         daemon, subs, view, calls, CallsInv, Data
<1>2. IsFiniteSet(on') /\ IsFiniteSet(attached')
  <2>1. \A l : /\ IsFiniteSet(on \cup {l}) /\ IsFiniteSet(on \ {l})
               /\ IsFiniteSet(attached \cup {l}) /\ IsFiniteSet(attached \ {l})
    BY FS_AddElement, FS_RemoveElement DEF CallsInv, Data
  <2>2. \/ UNCHANGED <<on, attached>>
        \/ on' = on /\ attached' = on
        \/ \E l : on' = on \cup {l} /\ (attached' = attached \/ attached' = attached \cup {l})
        \/ \E l : on' = on \ {l} /\ (attached' = attached \/ attached' = attached \ {l})
    BY DEF TokenResolves, TokenRejects, Subscribe, Unsubscribe, WireRegistry, vars, client, subs
  <2>3. IsFiniteSet(on) /\ IsFiniteSet(attached)
    BY DEF CallsInv, Data
  <2> QED BY <2>1, <2>2, <2>3
<1>3. Sound' = Sound
  BY <1>1 DEF Sound
<1>4. Data' /\ CalledOnce'
  BY <1>1, <1>2, <1>3 DEF CallsInv, Data, CalledOnce
<1>5. \A r \in reqs' : Asked(r)'
  BY <1>1 DEF CallsInv, Asked, CallOn
<1> QED BY <1>4, <1>5 DEF CallsInv

(* Steps that close sockets and fail calls.                                *)
LEMMA ClosingCalls ==
  ASSUME CallsInv, NEW S, NEW C, CloseSockets(S), Reject(C),
         UNCHANGED <<log, version, on, attached, executed, reqs>>
  PROVE  CallsInv'
<1>1. Sound' = Sound
  BY DEF Sound
<1>2. down' \in [Bridges -> Seq(Sound)]
  BY DEF CallsInv, Data, CloseSockets
<1>3. Data'
  BY <1>1, <1>2 DEF CallsInv, Data, Reject
<1>4. CalledOnce'
  BY DEF CallsInv, Data, CalledOnce, Reject
<1>5. \A r \in reqs' : Asked(r)'
  BY DEF CallsInv, Data, Asked, CallOn, Reject
<1> QED BY <1>3, <1>4, <1>5 DEF CallsInv

LEMMA HandshakeCalls ==
  ASSUME CallsInv, NEW b \in Bridges, Handshake(b)
  PROVE  CallsInv'
<1>1. UNCHANGED <<log, version, on, attached, executed, call, via, reqs>>
  BY DEF Handshake, daemon, subs, view, calls
<1>2. \A k \in {"serverInfo", "rejected"} : [kind |-> k] \in Sound
  BY DEF Sound, Frames
<1>3. \E f \in Sound : down' = [down EXCEPT ![b] = <<f>>]
  BY <1>2 DEF Handshake
<1>4. down' \in [Bridges -> Seq(Sound)]
  BY <1>3 DEF CallsInv, Data
<1>5. Data' /\ CalledOnce'
  BY <1>1, <1>4 DEF CallsInv, Data, CalledOnce, Sound
<1>6. \A r \in reqs' : Asked(r)'
  BY <1>1 DEF CallsInv, Asked, CallOn
<1> QED BY <1>5, <1>6 DEF CallsInv

(* A frame taken from a socket leaves sound ones behind.                   *)
LEMMA Received ==
  ASSUME CallsInv, NEW b \in Bridges, NEW k, Receive(b, k)
  PROVE  /\ Head(down[b]) \in Sound /\ Head(down[b]).kind = k
         /\ down' \in [Bridges -> Seq(Sound)]
<1>1. down[b] \in Seq(Sound) /\ down[b] # <<>>
  BY DEF CallsInv, Data, Receive
<1>2. Head(down[b]) \in Sound /\ Tail(down[b]) \in Seq(Sound)
  BY <1>1, HeadTailProperties
<1> QED BY <1>2 DEF CallsInv, Data, Receive

LEMMA ServerInfoCalls ==
  ASSUME ConnInv, CallsInv, NEW b \in Bridges, ReceiveServerInfo(b)
  PROVE  CallsInv'
<1>1. UNCHANGED <<log, version, on, attached, executed>> /\ Sound' = Sound
  BY DEF ReceiveServerInfo, daemon, subs, view, Sound
<1>2. down' \in [Bridges -> Seq(Sound)]
  BY Received DEF ReceiveServerInfo
<1>3. live => made \in Bridges
  BY DEF ConnInv, Between
<1>4. /\ call' \in [Calls -> {"new", "queued", "sent", "done", "failed"}]
      /\ via' \in [Calls -> 0..MaxBridges]
  BY <1>3, SupervisorAssumption DEF ReceiveServerInfo, FlushQueue, CallsInv, Data, Bridges
<1>5. Data'
  BY <1>1, <1>2, <1>4 DEF CallsInv, Data
<1>6. \A c \in Calls : /\ call[c] # "queued" => call'[c] = call[c] /\ via'[c] = via[c]
                       /\ call[c] = "queued" /\ live => call'[c] = "sent" /\ via'[c] = made
                       /\ call[c] = "queued" => executed[c] = 0 /\ (~live => call'[c] = "queued")
  BY DEF ReceiveServerInfo, FlushQueue, Queued, CallsInv, Data, CalledOnce
<1>7. CalledOnce'
  BY <1>1, <1>6 DEF CallsInv, CalledOnce
<1>8. ASSUME NEW r \in reqs' PROVE Asked(r)'
  <2>1. CASE r \in reqs
    <3>1. Asked(r)
      BY <2>1 DEF CallsInv
    <3> QED BY <1>1, <1>6, <3>1 DEF Asked, CallOn
  <2>2. CASE r \in Flushed
    <3>1. live /\ \E c \in Calls : call[c] = "queued" /\ r = CallOn(made, c)
      BY <2>2 DEF Flushed, Queued
    <3> QED BY <1>1, <1>3, <1>6, <3>1 DEF Asked, CallOn
  <2>3. CASE r \in Reread
    <3>1. live /\ r = ReadOn(made)
      BY <2>3 DEF Reread
    <3> QED BY <1>3, <3>1 DEF Asked, ReadOn, CallsInv, Data
  <2> QED BY <2>1, <2>2, <2>3 DEF ReceiveServerInfo
<1> QED BY <1>5, <1>7, <1>8 DEF CallsInv

LEMMA ProjectionCalls ==
  ASSUME CallsInv, NEW b \in Bridges, ReceivePush(b) \/ ReceiveRead(b)
  PROVE  CallsInv'
<1>1. UNCHANGED <<log, on, attached, executed, call, via, reqs>> /\ Sound' = Sound
  BY DEF ReceivePush, ReceiveRead, daemon, subs, calls, Sound
<1>2. down' \in [Bridges -> Seq(Sound)]
  BY Received DEF ReceivePush, ReceiveRead
<1>3. version' \in Nat
  <2>1. \A S \in {attached, {}} : Cardinality(S) \in Nat
    BY FS_CardinalityType, FS_EmptySet DEF CallsInv, Data
  <2> QED BY <2>1 DEF ReceivePush, ReceiveRead, view, CallsInv, Data
<1>4. Data' /\ CalledOnce'
  BY <1>1, <1>2, <1>3 DEF CallsInv, Data, CalledOnce
<1>5. \A r \in reqs' : Asked(r)'
  BY <1>1 DEF CallsInv, Asked, CallOn
<1> QED BY <1>4, <1>5 DEF CallsInv

LEMMA ReplyCalls ==
  ASSUME CallsInv, NEW b \in Bridges, ReceiveReply(b)
  PROVE  CallsInv'
<1> DEFINE f == Head(down[b])
<1>1. UNCHANGED <<log, version, on, attached, executed, via, reqs>> /\ Sound' = Sound
  BY DEF ReceiveReply, daemon, subs, view, Sound
<1>2. f \in Sound /\ f.kind = "reply" /\ down' \in [Bridges -> Seq(Sound)]
  BY Received DEF ReceiveReply
<1>3. executed[f.call] = 1 /\ call' = [call EXCEPT ![f.call] = "done"]
  BY <1>2 DEF Sound, ReceiveReply
<1> HIDE DEF f
<1>4. Data' /\ CalledOnce'
  BY <1>1, <1>2, <1>3 DEF CallsInv, Data, CalledOnce
<1>5. \A r \in reqs' : Asked(r)'
  BY <1>1, <1>3 DEF CallsInv, Data, Asked, CallOn
<1> QED BY <1>4, <1>5 DEF CallsInv

LEMMA InvokeCalls ==
  ASSUME ConnInv, CallsInv, NEW c \in Calls, Invoke(c)
  PROVE  CallsInv'
<1>1. UNCHANGED <<log, version, on, attached, executed, down>> /\ Sound' = Sound
  BY DEF Invoke, daemon, subs, view, Sound
<1>2. call[c] = "new" /\ executed[c] = 0
  BY DEF Invoke, CallsInv, CalledOnce
<1>3. CASE status = "online" /\ live
  <2>1. /\ call' = [call EXCEPT ![c] = "sent"] /\ via' = [via EXCEPT ![c] = made]
        /\ reqs' = reqs \cup {CallOn(made, c)} /\ made \in Bridges
    BY <1>3 DEF Invoke, ConnInv, Between
  <2>2. Data' /\ CalledOnce'
    <3>1. made \in 0..MaxBridges
      BY <2>1, SupervisorAssumption DEF Bridges
    <3>2. /\ call' \in [Calls -> {"new", "queued", "sent", "done", "failed"}]
          /\ via' \in [Calls -> 0..MaxBridges]
      BY <2>1, <3>1 DEF CallsInv, Data
    <3>3. CalledOnce'
      BY <1>1, <2>1 DEF CallsInv, Data, CalledOnce
    <3> QED BY <1>1, <3>2, <3>3 DEF CallsInv, Data
  <2>3. ASSUME NEW r \in reqs PROVE Asked(r)'
    <3>1. Asked(r)
      BY DEF CallsInv
    <3> QED BY <1>1, <1>2, <2>1, <3>1 DEF Asked, CallOn
  <2>4. ASSUME NEW r, r = CallOn(made, c) PROVE Asked(r)'
    BY <1>1, <1>2, <2>1, <2>4 DEF CallsInv, Data, Asked, CallOn
  <2> QED BY <2>1, <2>2, <2>3, <2>4 DEF CallsInv
<1>4. CASE ~(status = "online" /\ live)
  <2>1. /\ \E k \in {"queued", "failed"} : call' = [call EXCEPT ![c] = k]
        /\ UNCHANGED <<via, reqs>>
    BY <1>4 DEF Invoke
  <2>2. Data' /\ CalledOnce'
    BY <1>1, <1>2, <2>1 DEF CallsInv, Data, CalledOnce
  <2>3. \A r \in reqs' : Asked(r)'
    BY <1>1, <1>2, <2>1 DEF CallsInv, Data, Asked, CallOn
  <2> QED BY <2>2, <2>3 DEF CallsInv
<1> QED BY <1>3, <1>4

(* What the daemon sends.                                                  *)
LEMMA Told ==
  ASSUME CallsInv, NEW b \in Bridges, NEW f \in Sound
  PROVE  Tell(b, f) \in Seq(Sound)
BY DEF CallsInv, Data, Tell

LEMMA PushedSound ==
  ASSUME CallsInv
  PROVE  log + 1 \in Nat /\ Pushed(log + 1) \in [Bridges -> Seq(Sound)]
<1>1. log + 1 \in Nat
  BY DEF CallsInv, Data
<1>2. [kind |-> "push", at |-> log + 1] \in Sound
  BY <1>1 DEF Sound, Frames
<1> QED BY <1>1, <1>2, Told DEF Pushed, CallsInv, Data

LEMMA WriteCalls ==
  ASSUME CallsInv, Write
  PROVE  CallsInv'
<1>1. UNCHANGED <<version, on, attached, executed, call, via, reqs>> /\ Sound' = Sound
  BY DEF Write, subs, view, calls, Sound
<1>2. log' \in Nat /\ down' \in [Bridges -> Seq(Sound)]
  BY PushedSound DEF Write
<1>3. Data' /\ CalledOnce'
  BY <1>1, <1>2 DEF CallsInv, Data, CalledOnce
<1>4. \A r \in reqs' : Asked(r)'
  BY <1>1 DEF CallsInv, Asked, CallOn
<1> QED BY <1>3, <1>4 DEF CallsInv

LEMMA RunCallCalls ==
  ASSUME CallsInv, NEW r \in reqs, RunCall(r)
  PROVE  CallsInv'
<1>1. UNCHANGED <<version, on, attached, call, via>>
  BY DEF RunCall, subs, view, calls
<1>2. PICK c \in Calls : /\ r = CallOn(via[c], c) /\ via[c] \in Bridges
                         /\ call[c] \notin {"new", "queued"} /\ executed[c] = 0
  BY DEF RunCall, CallsInv, Asked
<1>3. r.call = c /\ r.on \in Bridges
  BY <1>2 DEF CallOn
<1>4. executed' \in [Calls -> Nat] /\ executed' = [executed EXCEPT ![c] = 1]
  BY <1>2, <1>3 DEF RunCall, CallsInv, Data
<1>5. Sound \subseteq Sound'
  BY <1>2, <1>4 DEF Sound, CallsInv, Data
<1>6. [kind |-> "reply", call |-> c] \in Sound'
  BY <1>4 DEF Sound, Frames, CallsInv, Data
<1>7. log' \in Nat /\ down' \in [Bridges -> Seq(Sound')]
  <2>1. log' = log + 1 /\ log + 1 \in Nat /\ Pushed(log + 1) \in [Bridges -> Seq(Sound)]
    BY PushedSound DEF RunCall
  <2>2. Pushed(log + 1) \in [Bridges -> Seq(Sound')]
    BY <1>5, <2>1, SeqMonotonic
  <2>3. \/ down' = Pushed(log + 1)
        \/ down' = [Pushed(log + 1) EXCEPT ![r.on] = Append(@, [kind |-> "reply", call |-> c])]
    BY <1>3, <2>1 DEF RunCall
  <2> DEFINE p == Pushed(log + 1)
             f == [kind |-> "reply", call |-> c]
  <2>4. p[r.on] \in Seq(Sound') /\ Append(p[r.on], f) \in Seq(Sound')
    BY <1>3, <1>6, <2>2
  <2> QED BY <2>1, <2>2, <2>3, <2>4
<1>8. Data'
  BY <1>1, <1>4, <1>7 DEF CallsInv, Data
<1>9. CalledOnce'
  BY <1>1, <1>2, <1>4 DEF CallsInv, Data, CalledOnce
<1>10. ASSUME NEW q \in reqs' PROVE Asked(q)'
  <2>1. q \in reqs /\ q # r /\ Asked(q)
    BY DEF RunCall, CallsInv
  <2>2. q.kind = "call" => \E d \in Calls : /\ d # c /\ q = CallOn(via[d], d) /\ via[d] \in Bridges
                                            /\ call[d] \notin {"new", "queued"} /\ executed[d] = 0
    BY <1>2, <2>1 DEF Asked
  <2> QED BY <1>1, <1>4, <2>1, <2>2 DEF Asked, CallOn
<1> QED BY <1>8, <1>9, <1>10 DEF CallsInv

LEMMA AnswerCalls ==
  ASSUME CallsInv, NEW r \in reqs, ReadLog(r) \/ SendAnswer(r) \/ LoseRequest(r)
  PROVE  CallsInv'
<1>1. UNCHANGED <<log, version, on, attached, executed, call, via>> /\ Sound' = Sound
  BY DEF ReadLog, SendAnswer, LoseRequest, daemon, subs, view, calls, Sound
<1>2. Asked(r)
  BY DEF CallsInv
<1>3. down' \in [Bridges -> Seq(Sound)]
  <2>1. CASE SendAnswer(r)
    <3>1. r \in Answers
      BY <1>2, <2>1 DEF SendAnswer, Asked
    <3>2. r \in Sound /\ r.on \in Bridges
      BY <3>1 DEF Answers, Sound, Frames
    <3> QED BY <2>1, <3>2, Told DEF SendAnswer, CallsInv, Data
  <2> QED BY <2>1 DEF ReadLog, LoseRequest, CallsInv, Data
<1>4. Data' /\ CalledOnce'
  BY <1>1, <1>3 DEF CallsInv, Data, CalledOnce
<1>5. ASSUME NEW q \in reqs' PROVE Asked(q)'
  <2>1. CASE q \in reqs
    BY <1>1, <2>1 DEF CallsInv, Asked, CallOn
  <2>2. CASE q \notin reqs
    <3>1. q = [kind |-> "answer", on |-> r.on, at |-> log, version |-> r.version, to |-> r.to]
          /\ r.kind = "read"
      BY <2>2 DEF ReadLog, SendAnswer, LoseRequest
    <3>2. q \in Answers
      BY <1>2, <3>1 DEF Answers, Asked, CallsInv, Data
    <3> QED BY <3>1, <3>2 DEF Asked
  <2> QED BY <2>1, <2>2
<1> QED BY <1>4, <1>5 DEF CallsInv

LEMMA CallsStep == ConnInv /\ CallsInv /\ [Next]_vars => CallsInv'
<1> SUFFICES ASSUME ConnInv, CallsInv, [Next]_vars PROVE CallsInv'
  OBVIOUS
<1>1. CASE TimerFires
  BY <1>1, ClosingCalls DEF TimerFires, daemon, subs, view
<1>2. ASSUME NEW b \in Bridges, Drop(b) PROVE CallsInv'
  BY <1>2, ClosingCalls DEF Drop, daemon, subs, view
<1>3. ASSUME NEW b \in Bridges, ReceiveRejected(b) PROVE CallsInv'
  BY <1>3, ClosingCalls DEF ReceiveRejected, daemon, subs, view
<1>4. CASE Close
  BY <1>4, ClosingCalls DEF Close, daemon, subs, view
<1>5. CASE Connecting
  BY <1>1, <1>2, <1>5, QuietCalls, HandshakeCalls DEF Connecting
<1>6. CASE Receiving
  BY <1>3, <1>6, ServerInfoCalls, ProjectionCalls, ReplyCalls DEF Receiving
<1>7. CASE Shell
  BY <1>4, <1>7, QuietCalls, InvokeCalls DEF Shell
<1>8. CASE Serving
  BY <1>8, WriteCalls, RunCallCalls, AnswerCalls DEF Serving
<1>9. CASE UNCHANGED vars
  BY <1>9, QuietCalls
<1> QED BY <1>5, <1>6, <1>7, <1>8, <1>9 DEF Next

LEMMA CallsInductive == Spec => []CallsInv
BY CallsInit, CallsStep, ConnInductive, PTL DEF Spec

(* Over every reconnect a call runs at most once, never before it leaves   *)
(* the queue, and has run when its caller is told that it is done.         *)
THEOREM RunOnce == Spec => []CalledOnce
<1>1. CallsInv => CalledOnce
  BY DEF CallsInv
<1> QED BY <1>1, CallsInductive, PTL

-----------------------------------------------------------------------------
(* Projections.                                                            *)

(* A frame on its way when the log is n long, v versions were counted and  *)
(* listeners show q: a push is newer than all they show, and an answer     *)
(* that may still be painted is no older.                                  *)
Timely(f, n, v, q) ==
  /\ f.kind \in {"push", "answer"} => f.at <= n
  /\ f.kind = "push" => \A l \in Listeners : q[l] < f.at
  /\ f.kind = "answer" => /\ f.version <= v
                          /\ f.version = v => \A l \in Listeners : q[l] <= f.at

(* The frames of a socket; a push is newer than all that goes before it.   *)
Stream(s, n, v, q) ==
  /\ \A i \in 1..Len(s) : Timely(s[i], n, v, q)
  /\ \A i, j \in 1..Len(s) : i < j /\ s[j].kind = "push" /\ s[i].kind \in {"push", "answer"}
                               => s[i].at < s[j].at

PaintInv ==
  /\ painted \in [Listeners -> Nat] /\ \A l \in Listeners : painted[l] <= log
  /\ \A r \in reqs : /\ r.kind = "read" => r.version <= version
                     /\ r.kind = "answer" => Timely(r, log, version, painted)
  /\ \A b \in Bridges : /\ Stream(down[b], log, version, painted)
                        /\ ~Up(b) => down[b] = <<>>

LEMMA FrameTypes ==
  \A f \in Frames : /\ f.kind \in {"push", "answer"} => f.at \in Nat
                    /\ f.kind = "answer" => f.version \in Nat
BY DEF Frames, Answers

LEMMA Shorter ==
  ASSUME NEW s \in Seq(Frames), s # <<>>
  PROVE  /\ Head(s) = s[1] /\ 1 \in 1..Len(s) /\ Head(s) \in Frames
         /\ Tail(s) \in Seq(Frames)
         /\ \A i \in 1..Len(Tail(s)) : /\ i + 1 \in 1..Len(s) /\ 1 < i + 1
                                       /\ Tail(s)[i] = s[i + 1] /\ s[i + 1] \in Frames
OBVIOUS

LEMMA StreamTail ==
  ASSUME NEW s \in Seq(Frames), s # <<>>, NEW n, NEW v, NEW q, Stream(s, n, v, q)
  PROVE  Stream(Tail(s), n, v, q)
<1>1. \A i \in 1..Len(Tail(s)) : Timely(Tail(s)[i], n, v, q)
  BY Shorter DEF Stream
<1>2. ASSUME NEW i \in 1..Len(Tail(s)), NEW j \in 1..Len(Tail(s)), i < j
      PROVE  i + 1 < j + 1
  BY <1>2
<1> QED BY <1>1, <1>2, Shorter DEF Stream

(* A frame that is painted leaves only newer pushes behind it, and answers *)
(* that no longer count.                                                   *)
LEMMA StreamPainted ==
  ASSUME NEW s \in Seq(Frames), s # <<>>, NEW n \in Nat, NEW v \in Nat, NEW w \in Nat, v < w,
         NEW q \in [Listeners -> Nat], NEW p \in [Listeners -> Nat],
         \A l \in Listeners : p[l] = q[l] \/ p[l] = Head(s).at,
         Head(s).kind \in {"push", "answer"}, Stream(s, n, v, q)
  PROVE  Stream(Tail(s), n, w, p)
<1>1. Stream(Tail(s), n, v, q)
  BY StreamTail
<1>2. ASSUME NEW i \in 1..Len(Tail(s)) PROVE Timely(Tail(s)[i], n, w, p)
  <2> DEFINE f == Tail(s)[i]
  <2>1. f \in Frames /\ f = s[i + 1]
    BY Shorter
  <2>2. Timely(f, n, v, q)
    BY <1>1 DEF Stream
  <2>3. f.kind = "push" => Head(s).at < f.at
    BY Shorter DEF Stream
  <2> HIDE DEF f
  <2>4. f.kind = "push" => \A l \in Listeners : p[l] < f.at
    BY <2>2, <2>3 DEF Timely
  <2>5. f.kind = "answer" => f.version <= w /\ f.version # w
    BY <2>1, <2>2, FrameTypes DEF Timely
  <2>6. Timely(f, n, w, p)
    BY <2>2, <2>4, <2>5 DEF Timely
  <2> QED BY <2>6 DEF f
<1> QED BY <1>1, <1>2 DEF Stream

LEMMA StreamAppend ==
  ASSUME NEW s \in Seq(Frames), NEW f \in Frames, NEW n, NEW v, NEW q, Stream(s, n, v, q),
         Timely(f, n, v, q),
         f.kind = "push" =>
           \A i \in 1..Len(s) : s[i].kind \in {"push", "answer"} => s[i].at < f.at
  PROVE  Stream(Append(s, f), n, v, q)
<1> DEFINE t == Append(s, f)
<1>1. /\ Len(t) = Len(s) + 1 /\ Len(s) \in Nat /\ t[Len(s) + 1] = f
      /\ \A i \in 1..Len(s) : t[i] = s[i]
  BY AppendProperties
<1> HIDE DEF t
<1>2. \A i \in 1..Len(t) : i = Len(s) + 1 \/ i \in 1..Len(s)
  BY <1>1
<1>3. \A i \in 1..Len(t) : Timely(t[i], n, v, q)
  BY <1>1, <1>2 DEF Stream
<1>4. ASSUME NEW i \in 1..Len(t), NEW j \in 1..Len(t), i < j, t[j].kind = "push",
             t[i].kind \in {"push", "answer"}
      PROVE  t[i].at < t[j].at
  <2>1. i \in 1..Len(s)
    BY <1>1, <1>4
  <2>2. CASE j \in 1..Len(s)
    BY <1>1, <1>4, <2>1, <2>2 DEF Stream
  <2>3. CASE j = Len(s) + 1
    BY <1>1, <1>4, <2>1, <2>3
  <2> QED BY <1>2, <2>2, <2>3
<1>5. Stream(t, n, v, q)
  BY <1>3, <1>4 DEF Stream
<1> QED BY <1>5 DEF t

LEMMA StreamLater ==
  ASSUME NEW s \in Seq(Frames), NEW n \in Nat, NEW v, NEW q, Stream(s, n, v, q)
  PROVE  Stream(s, n + 1, v, q)
<1>1. ASSUME NEW i \in 1..Len(s) PROVE Timely(s[i], n + 1, v, q)
  <2>1. s[i] \in Frames /\ Timely(s[i], n, v, q)
    BY DEF Stream
  <2> QED BY <2>1, FrameTypes DEF Timely
<1> QED BY <1>1 DEF Stream

LEMMA SoundFrames == Data => /\ down \in [Bridges -> Seq(Frames)]
                             /\ log \in Nat /\ version \in Nat
<1> SUFFICES ASSUME Data PROVE down \in [Bridges -> Seq(Frames)]
  BY DEF Data
<1>1. Sound \subseteq Frames
  BY DEF Sound
<1> QED BY <1>1, SeqMonotonic DEF Data

LEMMA PaintInit == Init => PaintInv
BY SupervisorAssumption DEF Init, PaintInv, Stream, Up

(* Steps that paint nothing and send nothing dated.                        *)
Shrunk(b) ==
  \/ down'[b] = down[b] \/ down'[b] = <<>>
  \/ down[b] # <<>> /\ down'[b] = Tail(down[b])
  \/ \E f \in Frames : f.kind \in {"serverInfo", "rejected"} /\ down'[b] = <<f>>

LEMMA ShrunkPaint ==
  ASSUME Data, PaintInv, UNCHANGED <<log, version, painted>>,
         \A b \in Bridges : Shrunk(b) /\ (~Up(b)' => down'[b] = <<>>),
         \A r \in reqs' : r \in reqs \/ r.kind = "call" \/ (r.kind = "read" /\ r.version = version)
  PROVE  PaintInv'
<1>1. ASSUME NEW b \in Bridges PROVE Stream(down'[b], log, version, painted)
  <2>1. down[b] \in Seq(Frames) /\ Stream(down[b], log, version, painted)
    BY SoundFrames DEF PaintInv
  <2>2. Stream(<<>>, log, version, painted)
    BY DEF Stream
  <2>3. \A f \in Frames : f.kind \in {"serverInfo", "rejected"}
          => Stream(<<f>>, log, version, painted)
    BY DEF Stream, Timely
  <2>4. down[b] # <<>> => Stream(Tail(down[b]), log, version, painted)
    BY <2>1, StreamTail
  <2> QED BY <2>1, <2>2, <2>3, <2>4 DEF Shrunk
<1>2. version \in Nat
  BY DEF Data
<1> QED BY <1>1, <1>2 DEF PaintInv

(* The sockets that are up keep their frames, the others have none.        *)
LEMMA ClosingPaint ==
  ASSUME Data, PaintInv, NEW S, CloseSockets(S), UNCHANGED <<log, version, painted, reqs>>
  PROVE  PaintInv'
<1>1. \A b \in Bridges : Shrunk(b) /\ (~Up(b)' => down'[b] = <<>>)
  BY DEF CloseSockets, Shrunk, PaintInv, Up
<1>2. UNCHANGED <<log, version, painted>> /\ \A r \in reqs' : r \in reqs
  OBVIOUS
<1> QED BY <1>1, <1>2, ShrunkPaint

LEMMA HandshakePaint ==
  ASSUME ConnInv, Data, PaintInv, NEW b \in Bridges, Handshake(b)
  PROVE  PaintInv'
<1>1. UNCHANGED <<log, version, painted, reqs>>
  BY DEF Handshake, daemon, view
<1>2. \A k \in {"serverInfo", "rejected"} : [kind |-> k] \in Frames
  BY DEF Frames
<1>3. \E f \in Frames : f.kind \in {"serverInfo", "rejected"} /\ down' = [down EXCEPT ![b] = <<f>>]
  BY <1>2 DEF Handshake
<1>4. ASSUME NEW c \in Bridges PROVE Shrunk(c) /\ (~Up(c)' => down'[c] = <<>>)
  BY <1>3 DEF Shrunk, Handshake, PaintInv, Up, Data, ConnInv, Shape
<1>5. UNCHANGED <<log, version, painted>> /\ \A r \in reqs' : r \in reqs
  BY <1>1
<1> QED BY <1>4, <1>5, ShrunkPaint

(* Steps that leave the frames to come as they are.                        *)
LEMMA IdlePaint ==
  ASSUME Data, PaintInv, UNCHANGED <<log, version, painted, down>>,
         \A b \in Bridges : ~Up(b)' => ~Up(b),
         \A r \in reqs' : r \in reqs \/ r.kind = "call" \/ (r.kind = "read" /\ r.version = version)
  PROVE  PaintInv'
<1>1. \A b \in Bridges : Shrunk(b) /\ (~Up(b)' => down'[b] = <<>>)
  BY DEF Shrunk, PaintInv
<1> QED BY <1>1, ShrunkPaint

(* A frame that paints nothing is received.                                *)
LEMMA TakenPaint ==
  ASSUME Data, PaintInv, NEW b \in Bridges, NEW k, Receive(b, k),
         UNCHANGED <<log, version, painted>>,
         \A c \in Bridges : ~Up(c)' => ~Up(c),
         \A r \in reqs' : r \in reqs \/ r.kind = "call" \/ (r.kind = "read" /\ r.version = version)
  PROVE  PaintInv'
<1>1. \A c \in Bridges : Shrunk(c) /\ (~Up(c)' => down'[c] = <<>>)
  BY DEF Receive, Shrunk, PaintInv, Data, Up
<1> QED BY <1>1, ShrunkPaint

LEMMA PushedPaint ==
  ASSUME CallsInv, PaintInv
  PROVE  /\ Pushed(log + 1) \in [Bridges -> Seq(Frames)]
         /\ \A b \in Bridges : /\ Stream(Pushed(log + 1)[b], log + 1, version, painted)
                               /\ ~Up(b) => Pushed(log + 1)[b] = <<>>
         /\ \A l \in Listeners : painted[l] <= log + 1
         /\ \A r \in reqs : r.kind = "answer" => Timely(r, log + 1, version, painted)
<1> DEFINE f == [kind |-> "push", at |-> log + 1]
<1>1. log \in Nat /\ version \in Nat /\ down \in [Bridges -> Seq(Frames)]
  BY SoundFrames DEF CallsInv
<1>2. f \in Frames /\ Timely(f, log + 1, version, painted)
  BY <1>1 DEF Frames, Timely, PaintInv
<1>3. ASSUME NEW b \in Bridges PROVE Stream(Append(down[b], f), log + 1, version, painted)
  <2>1. Stream(down[b], log + 1, version, painted)
    BY <1>1, StreamLater DEF PaintInv
  <2>2. ASSUME NEW i \in 1..Len(down[b]), down[b][i].kind \in {"push", "answer"}
        PROVE  down[b][i].at < f.at
    <3>1. down[b][i] \in Frames /\ Timely(down[b][i], log, version, painted)
      BY <1>1 DEF PaintInv, Stream
    <3> QED BY <1>1, <2>2, <3>1, FrameTypes DEF Timely
  <2> QED BY <1>1, <1>2, <2>1, <2>2, StreamAppend
<1>4. \A b \in Bridges : Stream(down[b], log + 1, version, painted)
  BY <1>1, StreamLater DEF PaintInv
<1>5. \A b \in Bridges :
      \/ Pushed(log + 1)[b] = down[b]
      \/ Up(b) /\ Pushed(log + 1)[b] = Append(down[b], f)
  BY DEF Pushed, Tell, Up
<1>6. Pushed(log + 1) \in [Bridges -> Seq(Frames)]
  BY <1>1, <1>2 DEF Pushed, Tell
<1>7. \A l \in Listeners : painted[l] <= log + 1
  BY <1>1 DEF PaintInv
<1>8. ASSUME NEW r \in reqs, r.kind = "answer" PROVE Timely(r, log + 1, version, painted)
  <2>1. r \in Answers /\ Timely(r, log, version, painted)
    BY <1>8 DEF CallsInv, Asked, PaintInv
  <2> QED BY <1>1, <2>1 DEF Answers, Timely
<1>9. \A b \in Bridges : ~Up(b) => down[b] = <<>>
  BY DEF PaintInv
<1> HIDE DEF f
<1> QED BY <1>3, <1>4, <1>5, <1>6, <1>7, <1>8, <1>9

LEMMA WritePaint ==
  ASSUME CallsInv, PaintInv, Write
  PROVE  PaintInv'
BY PushedPaint DEF Write, client, view, PaintInv, Up

LEMMA RunCallPaint ==
  ASSUME CallsInv, PaintInv, NEW r \in reqs, RunCall(r)
  PROVE  PaintInv'
<1> DEFINE p == Pushed(log + 1)
           f == [kind |-> "reply", call |-> r.call]
<1>1. r.call \in Calls
  BY DEF RunCall, CallsInv, Asked, CallOn
<1>2. f \in Frames /\ \A n, v, q : Timely(f, n, v, q)
  BY <1>1 DEF Frames, Timely
<1>3. /\ p \in [Bridges -> Seq(Frames)]
      /\ \A b \in Bridges : Stream(p[b], log + 1, version, painted) /\ (~Up(b) => p[b] = <<>>)
  BY PushedPaint
<1>4. down' = [p EXCEPT ![r.on] = IF Up(r.on) THEN Append(@, f) ELSE @]
      /\ log' = log + 1 /\ reqs' = reqs \ {r} /\ UNCHANGED <<version, painted, sock>>
  BY DEF RunCall, view, client
<1>5. ASSUME NEW b \in Bridges PROVE Stream(Append(p[b], f), log + 1, version, painted)
  BY <1>2, <1>3, StreamAppend
<1> HIDE DEF p, f
<1>6. \A b \in Bridges : down'[b] = p[b] \/ (Up(b) /\ down'[b] = Append(p[b], f))
  BY <1>3, <1>4 DEF Up
<1>7. \A b \in Bridges : Stream(down'[b], log', version', painted') /\ (~Up(b)' => down'[b] = <<>>)
  BY <1>3, <1>4, <1>5, <1>6 DEF Up
<1> QED BY <1>4, <1>7, PushedPaint DEF PaintInv

LEMMA ReadLogPaint ==
  ASSUME CallsInv, PaintInv, NEW r \in reqs, ReadLog(r)
  PROVE  PaintInv'
<1> DEFINE f == [kind |-> "answer", on |-> r.on, at |-> log, version |-> r.version, to |-> r.to]
<1>1. Timely(f, log, version, painted) /\ f.kind = "answer"
  BY DEF ReadLog, PaintInv, Timely, CallsInv, Data
<1>2. reqs' \subseteq reqs \cup {f} /\ UNCHANGED <<log, version, painted, down, sock>>
  BY DEF ReadLog, client, daemon, view
<1> QED BY <1>1, <1>2 DEF PaintInv, Up

LEMMA SendAnswerPaint ==
  ASSUME CallsInv, PaintInv, NEW r \in reqs, SendAnswer(r)
  PROVE  PaintInv'
<1>1. UNCHANGED <<log, version, painted, sock>> /\ reqs' \subseteq reqs
      /\ down' = [down EXCEPT ![r.on] = Tell(r.on, r)]
  BY DEF SendAnswer, client, daemon, view
<1>2. r.kind = "answer" /\ r \in Frames /\ Timely(r, log, version, painted)
  BY DEF SendAnswer, CallsInv, Asked, PaintInv, Frames
<1>3. down \in [Bridges -> Seq(Frames)]
  BY SoundFrames DEF CallsInv
<1>4. \A b \in Bridges : down'[b] = down[b] \/ (Up(b) /\ down'[b] = Append(down[b], r))
  BY <1>1, <1>3 DEF Tell, Up
<1>5. \A b \in Bridges : Stream(Append(down[b], r), log, version, painted)
  BY <1>2, <1>3, StreamAppend DEF PaintInv
<1> QED BY <1>1, <1>4, <1>5 DEF PaintInv, Up

LEMMA PushPaint ==
  ASSUME CallsInv, PaintInv, ConnInv, NEW b \in Bridges, ReceivePush(b)
  PROVE  PaintInv' /\ \A l \in Listeners : painted'[l] >= painted[l]
<1> DEFINE got == IF b = made THEN attached ELSE {}
           f == Head(down[b])
<1>1. /\ UNCHANGED <<log, sock, reqs>> /\ version' = version + Cardinality(got)
      /\ painted' = [l \in Listeners |-> IF l \in got THEN f.at ELSE painted[l]]
  BY DEF ReceivePush, client, daemon
<1>2. down[b] # <<>> /\ down \in [Bridges -> Seq(Frames)] /\ log \in Nat /\ version \in Nat
      /\ f.kind = "push" /\ down' = [down EXCEPT ![b] = Tail(@)] /\ Up(b)
  BY SoundFrames DEF CallsInv, ReceivePush, Receive, Up
<1>3. f \in Frames /\ f.at \in Nat /\ Timely(f, log, version, painted)
  BY <1>2, Shorter, FrameTypes DEF PaintInv, Stream
<1>4. \A l \in Listeners : painted[l] < f.at /\ f.at <= log
  BY <1>2, <1>3 DEF Timely
<1>5. Cardinality(got) \in Nat /\ (Cardinality(got) = 0 => got = {})
  BY FS_CardinalityType, FS_EmptySet DEF CallsInv, Data
<1>6. \A c \in Bridges : Up(c) => c = b
  BY <1>2 DEF ConnInv, OneSocket
<1> HIDE DEF got, f
<1>7. painted' \in [Listeners -> Nat] /\ \A l \in Listeners : painted'[l] <= log /\ painted'[l] >= painted[l]
  BY <1>1, <1>3, <1>4 DEF PaintInv
<1>8. CASE got = {}
  <2>1. Cardinality({}) = 0
    BY FS_EmptySet
  <2>2. UNCHANGED <<version, painted>>
    BY <1>1, <1>2, <1>8, <2>1 DEF PaintInv
  <2>3. UNCHANGED <<log, version, painted>> /\ (\A r \in reqs' : r \in reqs)
        /\ (\A c \in Bridges : ~Up(c)' => ~Up(c)) /\ Receive(b, "push")
    BY <1>1, <2>2 DEF Up, ReceivePush
  <2>4. PaintInv'
    BY <2>3, TakenPaint DEF CallsInv
  <2> QED BY <1>7, <2>4
<1>9. CASE got # {}
  <2>1. version' \in Nat /\ version < version'
    BY <1>1, <1>2, <1>5, <1>9
  <2>2. Stream(Tail(down[b]), log, version', painted')
    <3>1. \A l \in Listeners : painted'[l] = painted[l] \/ painted'[l] = Head(down[b]).at
      BY <1>1 DEF f
    <3>2. Head(down[b]).kind \in {"push", "answer"}
      BY <1>2 DEF f
    <3> QED BY <1>2, <1>7, <2>1, <3>1, <3>2, StreamPainted DEF PaintInv
  <2>3. Stream(<<>>, log, version', painted')
    BY DEF Stream
  <2>4. \A c \in Bridges : down'[c] = IF c = b THEN Tail(down[b]) ELSE <<>>
    BY <1>2, <1>6 DEF PaintInv
  <2>5. \A r \in reqs : r.kind = "answer" => Timely(r, log, version', painted')
    <3>1. \A r \in reqs : r.kind = "answer" => r.version \in Nat /\ Timely(r, log, version, painted)
      BY DEF CallsInv, Asked, Answers, PaintInv
    <3> QED BY <1>2, <2>1, <3>1 DEF Timely
  <2>6. \A r \in reqs : r.kind = "read" => r.version <= version'
    BY <1>2, <2>1 DEF PaintInv, CallsInv, Asked
  <2>7. PaintInv'
    BY <1>1, <1>2, <1>7, <2>2, <2>3, <2>4, <2>5, <2>6 DEF PaintInv, Up
  <2> QED BY <1>7, <2>7
<1> QED BY <1>8, <1>9

LEMMA ReadPaint ==
  ASSUME CallsInv, PaintInv, ConnInv, NEW b \in Bridges, ReceiveRead(b)
  PROVE  PaintInv' /\ \A l \in Listeners : painted'[l] >= painted[l]
<1> DEFINE f == Head(down[b])
<1>1. UNCHANGED <<log, sock, reqs>>
  BY DEF ReceiveRead, client, daemon
<1>2. down[b] # <<>> /\ down \in [Bridges -> Seq(Frames)] /\ log \in Nat /\ version \in Nat
      /\ f.kind = "answer" /\ down' = [down EXCEPT ![b] = Tail(@)] /\ Up(b)
  BY SoundFrames DEF CallsInv, ReceiveRead, Receive, Up
<1>3. f \in Frames /\ f.at \in Nat /\ Timely(f, log, version, painted)
  BY <1>2, Shorter, FrameTypes DEF PaintInv, Stream
<1>4. \A c \in Bridges : Up(c) => c = b
  BY <1>2 DEF ConnInv, OneSocket
<1>5. painted \in [Listeners -> Nat] /\ \A l \in Listeners : painted[l] <= log
  BY DEF PaintInv
<1>6. CASE ~Fresh(b, f)
  <2>1. UNCHANGED <<log, version, painted>> /\ (\A r \in reqs' : r \in reqs)
        /\ (\A c \in Bridges : ~Up(c)' => ~Up(c)) /\ Receive(b, "answer")
    BY <1>1, <1>6 DEF ReceiveRead, view, Up
  <2>2. PaintInv'
    BY <2>1, TakenPaint DEF CallsInv
  <2> QED BY <1>5, <2>1, <2>2
<1>7. CASE Fresh(b, f)
  <2>1. /\ version' = version + 1 /\ version' \in Nat /\ version < version'
        /\ painted' = [l \in Listeners |-> IF l \in f.to \cap on THEN f.at ELSE painted[l]]
    BY <1>2, <1>7 DEF ReceiveRead
  <2>2. f.at <= log /\ \A l \in Listeners : painted[l] <= f.at
    BY <1>2, <1>3, <1>7 DEF Timely, Fresh
  <2>3. \A l \in Listeners : painted'[l] = painted[l] \/ painted'[l] = Head(down[b]).at
    BY <2>1
  <2>4. Head(down[b]).kind \in {"push", "answer"}
    BY <1>2
  <2> HIDE DEF f
  <2>5. painted' \in [Listeners -> Nat]
        /\ \A l \in Listeners : painted'[l] <= log /\ painted'[l] >= painted[l]
    BY <1>3, <1>5, <2>1, <2>2
  <2>6. Stream(Tail(down[b]), log, version', painted')
    BY <1>2, <1>5, <2>1, <2>3, <2>4, <2>5, StreamPainted DEF PaintInv
  <2>7. Stream(<<>>, log, version', painted')
    BY DEF Stream
  <2>8. \A c \in Bridges : down'[c] = IF c = b THEN Tail(down[b]) ELSE <<>>
    BY <1>2, <1>4 DEF PaintInv
  <2>9. \A r \in reqs : r.kind = "answer" => Timely(r, log, version', painted')
    <3>1. \A r \in reqs : r.kind = "answer" => r.version \in Nat /\ Timely(r, log, version, painted)
      BY DEF CallsInv, Asked, Answers, PaintInv
    <3> QED BY <1>2, <2>1, <3>1 DEF Timely
  <2>10. \A r \in reqs : r.kind = "read" => r.version <= version'
    BY <1>2, <2>1 DEF PaintInv, CallsInv, Asked
  <2>11. PaintInv'
    BY <1>1, <1>2, <2>5, <2>6, <2>7, <2>8, <2>9, <2>10 DEF PaintInv, Up
  <2> QED BY <2>5, <2>11
<1> QED BY <1>6, <1>7

(* Steps of the client that paint nothing.                                 *)
LEMMA ClientPaint ==
  ASSUME ConnInv, CallsInv, PaintInv,
         \/ Connecting \/ Shell
         \/ \E b \in Bridges : ReceiveServerInfo(b) \/ ReceiveRejected(b) \/ ReceiveReply(b)
  PROVE  PaintInv' /\ painted' = painted
<1> USE DEF CallsInv
<1>1. painted' = painted /\ log' = log /\ version' = version
  BY DEF Connecting, Shell, TokenResolves, TokenRejects, TimerFires, Handshake, Drop, Subscribe,
     Unsubscribe, Invoke, Close, ReceiveServerInfo, ReceiveRejected, ReceiveReply, view, daemon
<1>2. ASSUME TimerFires \/ Close \/ \E b \in Bridges : Drop(b) \/ ReceiveRejected(b) PROVE PaintInv'
  <2>1. reqs' = reqs /\ \E S : CloseSockets(S)
    BY <1>2 DEF TimerFires, Close, Drop, ReceiveRejected
  <2> QED BY <1>1, <2>1, ClosingPaint
<1>3. ASSUME NEW b \in Bridges, Handshake(b) PROVE PaintInv'
  BY <1>3, HandshakePaint
<1>4. ASSUME TokenResolves \/ TokenRejects \/ \E l \in Listeners : Subscribe(l) \/ Unsubscribe(l)
      PROVE  PaintInv'
  <2>1. /\ down' = down /\ reqs' = reqs
        /\ \/ sock' = sock
           \/ sock' = [sock EXCEPT ![made + 1] = "connecting"]
    BY <1>4 DEF TokenResolves, TokenRejects, Subscribe, Unsubscribe, wire, client
  <2>2. \A b \in Bridges : ~Up(b)' => ~Up(b)
    BY <2>1 DEF Up, ConnInv, Shape
  <2> QED BY <1>1, <2>1, <2>2, IdlePaint
<1>5. ASSUME NEW c \in Calls, Invoke(c) PROVE PaintInv'
  <2>1. /\ down' = down /\ sock' = sock
        /\ reqs' = reqs \/ reqs' = reqs \cup {CallOn(made, c)}
    BY <1>5 DEF Invoke, client
  <2>2. \A r \in reqs' : r \in reqs \/ r.kind = "call"
    BY <2>1 DEF CallOn
  <2>3. \A b \in Bridges : ~Up(b)' => ~Up(b)
    BY <2>1 DEF Up
  <2> QED BY <1>1, <2>1, <2>2, <2>3, IdlePaint
<1>6. ASSUME NEW b \in Bridges, ReceiveServerInfo(b) PROVE PaintInv'
  <2>1. /\ Receive(b, "serverInfo") /\ sock' = [sock EXCEPT ![b] = "ready"]
        /\ reqs' = reqs \cup Flushed \cup Reread
    BY <1>6 DEF ReceiveServerInfo
  <2>2. \A r \in reqs' : r \in reqs \/ r.kind = "call" \/ (r.kind = "read" /\ r.version = version)
    BY <2>1 DEF Flushed, Reread, CallOn, ReadOn
  <2>3. \A c \in Bridges : ~Up(c)' => ~Up(c)
    BY <2>1 DEF Up, ConnInv, Shape
  <2> QED BY <1>1, <2>1, <2>2, <2>3, TakenPaint
<1>7. ASSUME NEW b \in Bridges, ReceiveReply(b) PROVE PaintInv'
  <2>1. Receive(b, "reply") /\ sock' = sock /\ reqs' = reqs
    BY <1>7 DEF ReceiveReply, client
  <2>2. \A c \in Bridges : ~Up(c)' => ~Up(c)
    BY <2>1 DEF Up
  <2>3. \A r \in reqs' : r \in reqs
    BY <2>1
  <2> QED BY <1>1, <2>1, <2>2, <2>3, TakenPaint
<1> QED BY <1>1, <1>2, <1>3, <1>4, <1>5, <1>6, <1>7 DEF Connecting, Shell

LEMMA LosePaint ==
  ASSUME CallsInv, PaintInv, NEW r \in reqs, LoseRequest(r)
  PROVE  PaintInv'
BY DEF LoseRequest, client, daemon, view, PaintInv, Up

LEMMA PaintStep ==
  ASSUME ConnInv, CallsInv, PaintInv, [Next]_vars
  PROVE  PaintInv' /\ \A l \in Listeners : painted'[l] >= painted[l]
<1>1. \A l \in Listeners : painted[l] \in Nat
  BY DEF PaintInv
<1>2. CASE Connecting \/ Shell
  BY <1>1, <1>2, ClientPaint
<1>3. CASE Receiving
  BY <1>1, <1>3, ClientPaint, PushPaint, ReadPaint DEF Receiving
<1>4. CASE Serving
  <2>1. painted' = painted
    BY <1>4 DEF Serving, Write, RunCall, ReadLog, SendAnswer, LoseRequest, view
  <2>2. PaintInv'
    BY <1>4, WritePaint, RunCallPaint, ReadLogPaint, SendAnswerPaint, LosePaint DEF Serving
  <2> QED BY <1>1, <2>1, <2>2
<1>5. CASE UNCHANGED vars
  BY <1>1, <1>5 DEF vars, client, wire, daemon, view, PaintInv, Up
<1> QED BY <1>2, <1>3, <1>4, <1>5 DEF Next

LEMMA PaintInductive == Spec => []PaintInv
<1>1. ConnInv /\ CallsInv /\ PaintInv /\ [Next]_vars => PaintInv'
  BY PaintStep
<1> QED BY <1>1, PaintInit, ConnInductive, CallsInductive, PTL DEF Spec

(* Pushed projections and the answers of reconciling reads race over any    *)
(* number of reconnects, and no listener is given an older one than it has. *)
THEOREM NeverOlder == Spec => PaintsForward
<1>1. ConnInv /\ CallsInv /\ PaintInv /\ [Next]_vars
        => PaintInv' /\ [\A l \in Listeners : painted'[l] >= painted[l]]_vars
  BY PaintStep
<1> QED BY <1>1, ConnInductive, CallsInductive, PaintInductive, PTL DEF Spec, PaintsForward

-----------------------------------------------------------------------------
(* Catching up.                                                            *)

(* The frames on their way over a socket, and the reconciling read of a    *)
(* bridge from its request to its answer.                                  *)
InFlight(b) == Range(down[b])
Rereads(b) == {r \in reqs : r.kind \in {"read", "answer"} /\ r.on = b}
              \cup {f \in InFlight(b) : f.kind = "answer"}

(* The projection of the whole log is pushed and not yet received.         *)
Due(b) == \E f \in InFlight(b) : f.kind = "push" /\ f.at = log

(* What a socket carries: pushes only once it shook hands and then up to   *)
(* the end of the log, reads only once it is ready.                        *)
Carried(b) ==
  /\ made < b => sock[b] = "none"
  /\ sock[b] = "ready" => b \in hello
  /\ \A f \in InFlight(b) : /\ f.kind \in {"serverInfo", "push"} => b \in hello
                            /\ f.kind = "push" => Due(b)
  /\ sock[b] \in {"none", "connecting", "open"} => Rereads(b) = {}

(* The listeners that a new bridge inherited.                              *)
Inherited == {l \in on : held[l] < made}

(* Over a ready socket an inherited listener shows the whole log, or the   *)
(* rest is pushed to it, or the reread that will be painted is under way;  *)
(* a reread of the counted version misses only what is pushed after it.    *)
Catching(b, l) ==
  /\ \A r \in Rereads(b) :
        l \in r.to /\ (r.kind = "answer" /\ r.version = version => r.at = log \/ Due(b))
  /\ painted[l] = log \/ Due(b) \/ \E r \in Rereads(b) : r.version = version

Caught(b) == live /\ b = made /\ sock[b] = "ready" => \A l \in Inherited : Catching(b, l)

CatchInv ==
  /\ live => on \subseteq attached
  /\ \A b \in Bridges : Carried(b) /\ Caught(b)

(* The rest of the types.                                                  *)
RestInv ==
  /\ token \in {"none", "reading", "rejected"} /\ hello \subseteq Bridges
  /\ reqs \subseteq Requests /\ writes \in 0..MaxWrites
  /\ seen \subseteq Listeners /\ held \in [Listeners -> 0..MaxBridges]

LEMMA RestInit == Init => RestInv
BY SupervisorAssumption DEF Init, RestInv

LEMMA RestStep == ConnInv /\ CallsInv /\ RestInv /\ [Next]_vars => RestInv'
<1> SUFFICES ASSUME ConnInv, CallsInv, RestInv, [Next]_vars PROVE RestInv'
  OBVIOUS
<1>1. /\ made \in 0..MaxBridges /\ (live => made \in Bridges)
      /\ version \in Nat /\ on \subseteq Listeners /\ log \in Nat
  BY DEF ConnInv, Shape, Between, CallsInv, Data
<1>2. token' \in {"none", "reading", "rejected"} /\ hello' \subseteq Bridges
  BY DEF RestInv, Next, Connecting, Receiving, Shell, Serving, TokenResolves, TokenRejects,
     TimerFires, Handshake, Drop, ReceiveServerInfo, ReceiveRejected, ReceivePush, ReceiveRead,
     ReceiveReply, Subscribe, Unsubscribe, Invoke, Close, Write, RunCall, ReadLog, SendAnswer,
     LoseRequest, vars, client, wire
<1>3. writes' \in 0..MaxWrites
  <2>1. writes' = writes \/ (writes < MaxWrites /\ writes' = writes + 1)
    BY DEF Next, Connecting, Receiving, Shell, Serving, TokenResolves, TokenRejects,
       TimerFires, Handshake, Drop, ReceiveServerInfo, ReceiveRejected, ReceivePush, ReceiveRead,
       ReceiveReply, Subscribe, Unsubscribe, Invoke, Close, Write, RunCall, ReadLog, SendAnswer,
       LoseRequest, vars, daemon
  <2> QED BY <2>1, SupervisorAssumption DEF RestInv
<1>4. seen' \subseteq Listeners /\ held' \in [Listeners -> 0..MaxBridges]
  <2>1. \/ UNCHANGED <<seen, held>>
        \/ \E l \in Listeners : seen' = seen \cup {l} /\ held' = [held EXCEPT ![l] = made]
    BY DEF Next, Connecting, Receiving, Shell, Serving, TokenResolves, TokenRejects,
       TimerFires, Handshake, Drop, ReceiveServerInfo, ReceiveRejected, ReceivePush, ReceiveRead,
       ReceiveReply, Subscribe, Unsubscribe, Invoke, Close, Write, RunCall, ReadLog, SendAnswer,
       LoseRequest, vars, subs
  <2> QED BY <1>1, <2>1 DEF RestInv
<1>5. \A r \in reqs' :
        \/ r \in reqs \/ (made \in Bridges /\ \E c \in Calls : r = CallOn(made, c))
        \/ made \in Bridges /\ r = ReadOn(made)
        \/ \E q \in reqs : /\ q.kind = "read"
                           /\ r = [kind |-> "answer", on |-> q.on, at |-> log,
                                   version |-> q.version, to |-> q.to]
  <2>1. CASE UNCHANGED reqs
    BY <2>1
  <2>2. CASE \E b \in Bridges : ReceiveServerInfo(b)
    BY <1>1, <2>2 DEF ReceiveServerInfo, Flushed, Reread, Queued
  <2>3. CASE \E c \in Calls : Invoke(c)
    BY <1>1, <2>3 DEF Invoke
  <2>4. CASE Serving
    BY <2>4 DEF Serving, Write, RunCall, ReadLog, SendAnswer, LoseRequest
  <2> QED BY <2>1, <2>2, <2>3, <2>4 DEF Next, Connecting, Receiving, Shell, TokenResolves,
       TokenRejects, TimerFires, Handshake, Drop, ReceiveRejected, ReceivePush, ReceiveRead,
       ReceiveReply, Subscribe, Unsubscribe, Close, vars, wire
<1>6. ASSUME NEW r \in reqs' PROVE r \in Requests
  <2>1. CASE made \in Bridges /\ \E c \in Calls : r = CallOn(made, c)
    BY <2>1 DEF Requests, CallOn
  <2>2. CASE made \in Bridges /\ r = ReadOn(made)
    BY <1>1, <2>2 DEF Requests, ReadOn
  <2>3. ASSUME NEW q \in reqs, q.kind = "read",
               r = [kind |-> "answer", on |-> q.on, at |-> log, version |-> q.version, to |-> q.to]
        PROVE  r \in Requests
    <3>1. q.on \in Bridges /\ q.version \in Nat /\ q.to \subseteq Listeners
      BY <2>3 DEF CallsInv, Asked
    <3> QED BY <1>1, <2>3, <3>1 DEF Requests, Answers
  <2> QED BY <1>5, <2>1, <2>2, <2>3 DEF RestInv
<1> QED BY <1>2, <1>3, <1>4, <1>6 DEF RestInv

LEMMA RestInductive == Spec => []RestInv
BY RestInit, RestStep, ConnInductive, CallsInductive, PTL DEF Spec

(* The supervisor, the bridges and the daemon keep their types.            *)
THEOREM SupervisorTypes == Spec => []TypeOK
<1>1. ConnInv /\ CallsInv /\ PaintInv /\ RestInv => TypeOK
  <2> SUFFICES ASSUME ConnInv, CallsInv, PaintInv, RestInv PROVE TypeOK
    OBVIOUS
  <2>1. down \in [Bridges -> Seq(Frames)]
    BY SoundFrames DEF CallsInv
  <2> QED BY <2>1 DEF TypeOK, ConnInv, Shape, CallsInv, Data, PaintInv, RestInv
<1> QED BY <1>1, ConnInductive, CallsInductive, PaintInductive, RestInductive, PTL

(* Frames as sets.                                                         *)
LEMMA RangeFrames == \A s \in Seq(Frames) : Range(s) = {s[i] : i \in 1..Len(s)}
BY DEF Range

LEMMA RangeTail ==
  ASSUME NEW s \in Seq(Frames), s # <<>>
  PROVE  Range(s) = Range(Tail(s)) \cup {Head(s)}
<1>1. Range(s) = {s[i] : i \in 1..Len(s)} /\ Range(Tail(s)) = {Tail(s)[i] : i \in 1..Len(Tail(s))}
  BY Shorter, RangeFrames
<1>2. \A i \in 1..Len(s) : i = 1 \/ (i - 1 \in 1..Len(Tail(s)) /\ s[i] = Tail(s)[i - 1])
  BY Shorter
<1>3. \A i \in 1..Len(Tail(s)) : i + 1 \in 1..Len(s) /\ Tail(s)[i] = s[i + 1]
  BY Shorter
<1>4. Head(s) = s[1] /\ 1 \in 1..Len(s)
  BY Shorter
<1>5. ASSUME NEW x \in Range(s) PROVE x \in Range(Tail(s)) \cup {Head(s)}
  <2>1. PICK i \in 1..Len(s) : x = s[i]
    BY <1>1
  <2>2. CASE i = 1
    BY <1>4, <2>1, <2>2
  <2>3. CASE i # 1
    BY <1>1, <1>2, <2>1, <2>3
  <2> QED BY <2>2, <2>3
<1>6. \A x \in Range(Tail(s)) : x \in Range(s)
  BY <1>1, <1>3
<1>7. Head(s) \in Range(s)
  BY <1>1, <1>4
<1> QED BY <1>5, <1>6, <1>7

LEMMA RangeAppend ==
  ASSUME NEW s \in Seq(Frames), NEW f \in Frames
  PROVE  Range(Append(s, f)) = Range(s) \cup {f}
<1>1. Range(s) = {s[i] : i \in 1..Len(s)}
      /\ Range(Append(s, f)) = {Append(s, f)[i] : i \in 1..Len(Append(s, f))}
  BY RangeFrames, AppendProperties
<1>2. /\ Len(Append(s, f)) = Len(s) + 1 /\ Len(s) \in Nat /\ Append(s, f)[Len(s) + 1] = f
      /\ \A i \in 1..Len(s) : Append(s, f)[i] = s[i]
  BY AppendProperties
<1>3. 1..(Len(s) + 1) = 1..Len(s) \cup {Len(s) + 1}
  BY <1>2
<1> QED BY <1>1, <1>2, <1>3

LEMMA RangeSmall == Range(<<>>) = {} /\ \A f \in Frames : Range(<<f>>) = {f}
<1>1. ASSUME NEW f \in Frames PROVE Range(<<f>>) = {f}
  <2>1. Range(<<f>>) = {<<f>>[i] : i \in 1..Len(<<f>>)}
    BY RangeFrames
  <2> QED BY <2>1
<1> QED BY <1>1 DEF Range

(* What is on its way over a bridge, and what comes after its first frame. *)
LEMMA FlightFacts ==
  ASSUME CallsInv, PaintInv, NEW b \in Bridges
  PROVE  /\ InFlight(b) \subseteq Frames /\ (~Up(b) => InFlight(b) = {})
         /\ \A f \in InFlight(b) : Timely(f, log, version, painted)
         /\ \A r \in Rereads(b) : r.version \in Nat /\ r.version <= version
<1>1. down[b] \in Seq(Frames) /\ version \in Nat
  BY SoundFrames DEF CallsInv
<1>2. InFlight(b) = {down[b][i] : i \in 1..Len(down[b])}
  BY <1>1, RangeFrames DEF InFlight
<1>3. InFlight(b) \subseteq Frames /\ \A f \in InFlight(b) : Timely(f, log, version, painted)
  BY <1>1, <1>2 DEF PaintInv, Stream
<1>4. ~Up(b) => InFlight(b) = {}
  BY RangeSmall DEF PaintInv, InFlight
<1>5. \A f \in InFlight(b) : f.kind = "answer" => f.version \in Nat /\ f.version <= version
  BY <1>3, FrameTypes DEF Timely
<1>6. \A r \in reqs : r.kind \in {"read", "answer"} => r.version \in Nat /\ r.version <= version
  BY DEF CallsInv, Asked, Answers, PaintInv, Timely
<1> QED BY <1>3, <1>4, <1>5, <1>6 DEF Rereads

LEMMA FlightTaken ==
  ASSUME CallsInv, PaintInv, NEW b \in Bridges, NEW k, Receive(b, k)
  PROVE  /\ Head(down[b]) \in Frames /\ Head(down[b]).kind = k
         /\ InFlight(b) = InFlight(b)' \cup {Head(down[b])}
         /\ \A c \in Bridges : c # b => InFlight(c)' = InFlight(c)
         /\ k \in {"push", "answer"} =>
              \A f \in InFlight(b)' : f.kind = "push" => Head(down[b]).at < f.at
<1>1. /\ down \in [Bridges -> Seq(Frames)] /\ down[b] # <<>> /\ Head(down[b]).kind = k
      /\ down' = [down EXCEPT ![b] = Tail(down[b])]
  BY SoundFrames DEF CallsInv, Receive
<1>2. Head(down[b]) \in Frames /\ down'[b] = Tail(down[b])
      /\ \A c \in Bridges : c # b => down'[c] = down[c]
  BY <1>1, Shorter
<1>3. InFlight(b) = InFlight(b)' \cup {Head(down[b])}
  BY <1>1, <1>2, RangeTail DEF InFlight
<1>4. InFlight(b)' = {Tail(down[b])[i] : i \in 1..Len(Tail(down[b]))}
  BY <1>1, <1>2, Shorter, RangeFrames DEF InFlight
<1>5. ASSUME k \in {"push", "answer"}, NEW i \in 1..Len(Tail(down[b])),
             Tail(down[b])[i].kind = "push"
      PROVE  Head(down[b]).at < Tail(down[b])[i].at
  BY <1>1, <1>5, Shorter DEF PaintInv, Stream
<1> QED BY <1>1, <1>2, <1>3, <1>4, <1>5 DEF InFlight

-----------------------------------------------------------------------------
(* Steps of the connection.                                                *)

LEMMA CatchInit == Init => CatchInv
<1> SUFFICES ASSUME Init PROVE CatchInv
  OBVIOUS
<1>1. \A b \in Bridges : InFlight(b) = {} /\ Rereads(b) = {}
  BY RangeSmall DEF Init, InFlight, Rereads
<1> QED BY <1>1 DEF Init, CatchInv, Carried, Caught

(* Steps that neither take nor send a frame, nor ask for a projection.     *)
LEMMA QuietCatch ==
  ASSUME CatchInv, UNCHANGED <<live, made, sock, down, hello, log, version, painted>>,
         live => on' \subseteq attached', live => Inherited' \subseteq Inherited,
         live => made \in Bridges,
         \A r \in reqs' : r \in reqs \/ r.kind = "call",
         \A r \in reqs : r \in reqs' \/ ~Up(r.on)
  PROVE  CatchInv'
<1>1. \A b : InFlight(b)' = InFlight(b) /\ (Due(b)' <=> Due(b))
  BY DEF InFlight, Due
<1>2. \A b : Rereads(b)' \subseteq Rereads(b) /\ (Up(b) => Rereads(b)' = Rereads(b))
  BY <1>1 DEF Rereads
<1>3. \A b \in Bridges : Carried(b)'
  BY <1>1, <1>2 DEF CatchInv, Carried
<1>4. ASSUME NEW b \in Bridges, live, b = made, sock[b] = "ready", NEW l \in Inherited'
      PROVE  Catching(b, l)'
  <2>1. Catching(b, l)
    BY <1>4 DEF CatchInv, Caught
  <2>2. Rereads(b)' = Rereads(b)
    <3>1. Up(b)
      BY <1>4 DEF Up
    <3> QED BY <1>2, <3>1
  <2> QED BY <1>1, <1>4, <2>1, <2>2 DEF Catching
<1> QED BY <1>3, <1>4 DEF CatchInv, Caught

(* Steps that close sockets, after which the newest is not ready.          *)
LEMMA ClosingCatch ==
  ASSUME CatchInv, CallsInv, NEW S, CloseSockets(S), \A b \in S \cap Bridges : Up(b) \/ b = made,
         UNCHANGED <<made, hello, log, reqs, on, attached>>, made \in Nat,
         live' => live /\ sock'[made] # "ready"
  PROVE  CatchInv'
<1>1. ASSUME NEW b \in Bridges PROVE Carried(b)'
  <2>1. Carried(b)
    BY DEF CatchInv
  <2>2. CASE b \in S
    <3>1. sock'[b] = "closed" /\ down'[b] = <<>>
      BY <2>2 DEF CloseSockets
    <3>2. InFlight(b)' = {} /\ ~(made < b)
      BY <2>1, <2>2, <3>1, RangeSmall DEF InFlight, Carried, Up
    <3> QED BY <3>1, <3>2 DEF Carried
  <2>3. CASE b \notin S
    <3>1. sock'[b] = sock[b] /\ down'[b] = down[b]
      BY <2>3 DEF CloseSockets
    <3>2. InFlight(b)' = InFlight(b) /\ Rereads(b)' = Rereads(b) /\ (Due(b)' <=> Due(b))
      BY <3>1 DEF InFlight, Rereads, Due
    <3> QED BY <2>1, <3>1, <3>2 DEF Carried
  <2> QED BY <2>2, <2>3
<1> QED BY <1>1 DEF CatchInv, Caught

(* A new bridge inherits every listener; nothing is on its way to it.      *)
LEMMA TokenCatch ==
  ASSUME ConnInv, CatchInv, TokenResolves, ~closed
  PROVE  CatchInv'
<1>1. /\ made' = made + 1 /\ sock' = [sock EXCEPT ![made + 1] = "connecting"]
      /\ attached' = on' /\ UNCHANGED <<down, hello, reqs, log>>
  BY DEF TokenResolves, WireRegistry, wire, daemon
<1>2. made \in Nat /\ MaxBridges \in Nat /\ sock \in [Bridges -> {"none", "connecting", "open", "ready", "closed"}]
  BY SupervisorAssumption DEF ConnInv, Shape
<1>3. \A b \in Bridges : Carried(b)
  BY DEF CatchInv
<1>4. \A b : InFlight(b)' = InFlight(b) /\ Rereads(b)' = Rereads(b) /\ (Due(b)' <=> Due(b))
  BY <1>1 DEF InFlight, Rereads, Due
<1>5. ASSUME NEW b \in Bridges PROVE Carried(b)'
  <2>1. b \in Nat /\ (made + 1 < b => made < b) /\ made < made + 1 /\ ~(made + 1 < made + 1)
    BY <1>2 DEF Bridges
  <2>2. CASE b = made + 1
    BY <1>1, <1>2, <1>3, <1>4, <2>1, <2>2 DEF Carried
  <2>3. CASE b # made + 1
    BY <1>1, <1>2, <1>3, <1>4, <2>1, <2>3 DEF Carried
  <2> QED BY <2>2, <2>3
<1>6. live' => sock'[made'] # "ready"
  <2>1. made + 1 \in Bridges
    BY <1>2 DEF TokenResolves, ConnInv, Between, Bridges
  <2> QED BY <1>1, <1>2, <2>1
<1> QED BY <1>1, <1>5, <1>6 DEF CatchInv, Caught

LEMMA HandshakeCatch ==
  ASSUME ConnInv, CallsInv, CatchInv, NEW b \in Bridges, Handshake(b)
  PROVE  CatchInv'
<1>1. /\ sock[b] = "connecting" /\ sock' = [sock EXCEPT ![b] = "open"] /\ b = made
      /\ UNCHANGED <<live, made, reqs, log, on, attached>>
  BY DEF Handshake, daemon, subs, ConnInv, OneSocket, Up
<1>2. \E f \in Frames : /\ f.kind \in {"serverInfo", "rejected"} /\ down' = [down EXCEPT ![b] = <<f>>]
                        /\ (f.kind = "serverInfo" => b \in hello') /\ hello \subseteq hello'
  <2>1. \A k \in {"serverInfo", "rejected"} : [kind |-> k] \in Frames
    BY DEF Frames
  <2> QED BY <2>1 DEF Handshake
<1>3. down \in [Bridges -> Seq(Frames)]
      /\ sock \in [Bridges -> {"none", "connecting", "open", "ready", "closed"}]
  BY SoundFrames DEF CallsInv, ConnInv, Shape
<1>4. \A f \in InFlight(b)' : f.kind = "rejected" \/ (f.kind = "serverInfo" /\ b \in hello')
  BY <1>2, <1>3, RangeSmall DEF InFlight
<1>5. ASSUME NEW c \in Bridges PROVE Carried(c)'
  <2>1. Carried(c)
    BY DEF CatchInv
  <2>2. CASE c = b
    <3>1. Rereads(b)' = {}
      BY <1>1, <1>4, <2>1, <2>2 DEF Carried, Rereads
    <3>2. ~(made < b)
      BY <1>1, <2>1, <2>2 DEF Carried
    <3> QED BY <1>1, <1>3, <1>4, <2>2, <3>1, <3>2 DEF Carried
  <2>3. CASE c # b
    <3>1. down'[c] = down[c] /\ sock'[c] = sock[c]
      BY <1>1, <1>2, <1>3, <2>3
    <3>2. InFlight(c)' = InFlight(c) /\ Rereads(c)' = Rereads(c) /\ (Due(c)' <=> Due(c))
      BY <1>1, <3>1 DEF InFlight, Rereads, Due
    <3> QED BY <1>1, <1>2, <2>1, <3>1, <3>2 DEF Carried
  <2> QED BY <2>2, <2>3
<1> QED BY <1>1, <1>3, <1>5 DEF CatchInv, Caught

-----------------------------------------------------------------------------
(* Frames that arrive.                                                     *)

(* Any frame but a push leaves the sockets carrying what they may.         *)
LEMMA TakenCarried ==
  ASSUME ConnInv, CallsInv, PaintInv, CatchInv, NEW b \in Bridges, NEW k, Receive(b, k),
         UNCHANGED <<made, hello, log>>,
         sock' = sock \/ sock' = [sock EXCEPT ![b] = "ready"],
         sock'[b] = "ready" => b \in hello,
         \A r \in reqs' : r \in reqs \/ r.kind = "call" \/ (r.on = b /\ sock'[b] = "ready")
  PROVE  /\ b = made /\ live /\ \A c \in Bridges : Carried(c)'
         /\ k # "push" => (Due(b)' <=> Due(b))
         /\ k = "push" => Due(b) /\ (Due(b)' \/ Head(down[b]).at = log)
<1> DEFINE f == Head(down[b])
<1>1. /\ f \in Frames /\ f.kind = k /\ InFlight(b) = InFlight(b)' \cup {f}
      /\ \A c \in Bridges : c # b => InFlight(c)' = InFlight(c)
      /\ k = "push" => \A g \in InFlight(b)' : g.kind = "push" => f.at < g.at
  BY FlightTaken
<1> HIDE DEF f
<1>2. Carried(b) /\ b = made /\ live /\ sock[b] \in {"open", "ready"}
  BY DEF CatchInv, Receive, ConnInv, OneSocket, Up
<1>3. log \in Nat /\ f.kind = "push" => f.at \in Nat
  BY <1>1, FrameTypes
<1>4. \A g \in InFlight(b) : g \in Frames /\ (g.kind = "push" => g.at \in Nat /\ g.at <= log)
  BY FlightFacts, FrameTypes DEF Timely
<1>5. k # "push" => (Due(b)' <=> Due(b))
  BY <1>1 DEF Due
<1>6. k = "push" => Due(b) /\ (Due(b)' \/ f.at = log)
  BY <1>1, <1>2 DEF Due, Carried
<1>7. k = "push" /\ f.at = log => \A g \in InFlight(b)' : g.kind # "push"
  <2> SUFFICES ASSUME k = "push", f.at = log, NEW g \in InFlight(b)', g.kind = "push" PROVE FALSE
    OBVIOUS
  <2>1. log < g.at /\ g.at \in Nat /\ g.at <= log /\ log \in Nat
    BY <1>1, <1>4 DEF CallsInv, Data
  <2> QED BY <2>1
<1>8. Carried(b)'
  <2>1. \A g \in InFlight(b)' : /\ g \in InFlight(b)
                                /\ g.kind \in {"serverInfo", "push"} => b \in hello
                                /\ g.kind = "push" => Due(b)'
    BY <1>1, <1>2, <1>5, <1>6, <1>7 DEF Carried
  <2>2. sock'[b] \in {"none", "connecting", "open"} => sock'[b] = sock[b]
    BY DEF ConnInv, Shape
  <2>3. sock'[b] \in {"none", "connecting", "open"} => Rereads(b)' = {}
    BY <1>2, <2>1, <2>2 DEF Carried, Rereads
  <2>4. ~(made < b)
    BY <1>2 DEF Carried
  <2> QED BY <2>1, <2>3, <2>4 DEF Carried
<1>9. ASSUME NEW c \in Bridges, c # b PROVE Carried(c)'
  <2>1. Carried(c) /\ InFlight(c)' = InFlight(c) /\ sock'[c] = sock[c] /\ (Due(c)' <=> Due(c))
    BY <1>1, <1>9 DEF CatchInv, Due, ConnInv, Shape
  <2>2. Rereads(c)' \subseteq Rereads(c)
    BY <1>9, <2>1 DEF Rereads
  <2> QED BY <2>1, <2>2 DEF Carried
<1> QED BY <1>2, <1>5, <1>6, <1>8, <1>9 DEF f

LEMMA ServerInfoCatch ==
  ASSUME ConnInv, CallsInv, PaintInv, CatchInv, NEW b \in Bridges, ReceiveServerInfo(b)
  PROVE  CatchInv'
<1>1. /\ Receive(b, "serverInfo") /\ sock' = [sock EXCEPT ![b] = "ready"]
      /\ reqs' = reqs \cup Flushed \cup Reread
      /\ UNCHANGED <<made, live, hello, log, on, held, attached, version, painted>>
  BY DEF ReceiveServerInfo, daemon, subs, view
<1>2. InFlight(b) = InFlight(b)' \cup {Head(down[b])} /\ Head(down[b]).kind = "serverInfo"
  BY <1>1, FlightTaken
<1>3. b = made /\ live /\ b \in hello
  BY <1>1, <1>2 DEF Receive, ConnInv, OneSocket, Up, CatchInv, Carried
<1>4. sock'[b] = "ready"
  BY <1>1 DEF ConnInv, Shape
<1>5. \A r \in reqs' : r \in reqs \/ r.kind = "call" \/ (r = ReadOn(b) /\ on # {})
  BY <1>1, <1>3 DEF Flushed, Reread, CallOn
<1>6. (\A c \in Bridges : Carried(c)') /\ (Due(b)' <=> Due(b))
  <2>1. \A r \in reqs' : r \in reqs \/ r.kind = "call" \/ (r.on = b /\ sock'[b] = "ready")
    BY <1>4, <1>5 DEF ReadOn
  <2> QED BY <1>1, <1>3, <2>1, TakenCarried
<1>7. ASSUME NEW l \in Inherited' PROVE Catching(b, l)'
  <2>1. l \in on /\ l \in Inherited
    BY <1>1, <1>7 DEF Inherited
  <2>2. ReadOn(b) \in reqs'
    BY <1>1, <1>3, <2>1 DEF Reread
  <2>3. ReadOn(b) \in Rereads(b)' /\ ReadOn(b).version = version /\ l \in ReadOn(b).to
        /\ ReadOn(b).kind = "read"
    BY <2>1, <2>2 DEF Rereads, ReadOn
  <2>4. \A r \in Rereads(b)' : r \in Rereads(b) \/ r = ReadOn(b)
    BY <1>2, <1>5 DEF Rereads
  <2>5. Rereads(b) = {} \/ Catching(b, l)
    <3>1. sock[b] = "open" => Rereads(b) = {}
      BY DEF CatchInv, Carried
    <3>2. sock[b] = "ready" => Catching(b, l)
      BY <1>3, <2>1 DEF CatchInv, Caught
    <3> QED BY <1>1, <3>1, <3>2 DEF Receive
  <2> QED BY <1>1, <1>6, <2>3, <2>4, <2>5 DEF Catching
<1>8. \A c \in Bridges : Caught(c)'
  BY <1>1, <1>3, <1>7 DEF Caught
<1> QED BY <1>1, <1>6, <1>8 DEF CatchInv

(* A push is painted by every inherited listener; the rest of the log, if  *)
(* any, is pushed behind it, and a reread under way no longer counts.      *)
LEMMA PushCatch ==
  ASSUME ConnInv, CallsInv, PaintInv, CatchInv, NEW b \in Bridges, ReceivePush(b)
  PROVE  CatchInv'
<1> DEFINE f == Head(down[b])
           got == IF b = made THEN attached ELSE {}
<1>1. /\ Receive(b, "push") /\ version' = version + Cardinality(got)
      /\ painted' = [l \in Listeners |-> IF l \in got THEN f.at ELSE painted[l]]
      /\ UNCHANGED <<made, live, sock, hello, reqs, log, on, held, attached>>
  BY DEF ReceivePush, client, daemon, subs
<1>2. b = made /\ live /\ (\A c \in Bridges : Carried(c)') /\ (Due(b)' \/ f.at = log)
  <2>1. sock[b] = "ready" => b \in hello
    BY DEF CatchInv, Carried
  <2> QED BY <1>1, <2>1, TakenCarried
<1>3. InFlight(b)' \subseteq InFlight(b)
  BY <1>1, FlightTaken
<1>4. Rereads(b)' \subseteq Rereads(b)
  BY <1>1, <1>3 DEF Rereads
<1> HIDE DEF f
<1>5. ASSUME NEW l \in Inherited', sock[b] = "ready" PROVE Catching(b, l)'
  <2>1. l \in Inherited /\ l \in attached /\ l \in Listeners
    BY <1>1, <1>2, <1>5 DEF Inherited, CatchInv, CallsInv, Data
  <2>2. painted'[l] = f.at
    BY <1>1, <1>2, <2>1
  <2>3. Cardinality(got) \in Nat \ {0} /\ version \in Nat
    BY <1>2, <2>1, FS_CardinalityType, FS_EmptySet DEF CallsInv, Data
  <2> HIDE DEF got
  <2>4. \A r \in Rereads(b) : r.version # version'
    BY <1>1, <2>3, FlightFacts
  <2>5. \A r \in Rereads(b) : l \in r.to
    BY <1>2, <1>5, <2>1 DEF CatchInv, Caught, Catching
  <2> QED BY <1>1, <1>2, <1>4, <2>2, <2>4, <2>5 DEF Catching
<1>6. \A c \in Bridges : Caught(c)'
  BY <1>1, <1>5, <1>2 DEF Caught
<1> QED BY <1>1, <1>2, <1>6 DEF CatchInv

(* The answer of the counted version brings the whole log, but for what is *)
(* pushed behind it; any other answer is not the one that was waited for.  *)
LEMMA ReadCatch ==
  ASSUME ConnInv, CallsInv, PaintInv, CatchInv, NEW b \in Bridges, ReceiveRead(b)
  PROVE  CatchInv'
<1> DEFINE f == Head(down[b])
<1>1. /\ Receive(b, "answer")
      /\ UNCHANGED <<made, live, sock, hello, reqs, log, on, held, attached>>
      /\ IF Fresh(b, f)
           THEN /\ version' = version + 1
                /\ painted' = [l \in Listeners |-> IF l \in f.to \cap on THEN f.at ELSE painted[l]]
           ELSE version' = version /\ painted' = painted
  BY DEF ReceiveRead, client, daemon, subs, view
<1>2. b = made /\ live /\ (\A c \in Bridges : Carried(c)') /\ (Due(b)' <=> Due(b))
  <2>1. sock[b] = "ready" => b \in hello
    BY DEF CatchInv, Carried
  <2> QED BY <1>1, <2>1, TakenCarried
<1>3. InFlight(b) = InFlight(b)' \cup {f} /\ f.kind = "answer"
  BY <1>1, FlightTaken
<1> HIDE DEF f
<1>4. Rereads(b)' \subseteq Rereads(b) /\ f \in Rereads(b) /\ Rereads(b) \subseteq Rereads(b)' \cup {f}
  BY <1>1, <1>3 DEF Rereads
<1>5. ASSUME NEW l \in Inherited', sock[b] = "ready" PROVE Catching(b, l)'
  <2>1. l \in Inherited /\ l \in on /\ l \in Listeners /\ Catching(b, l)
    BY <1>1, <1>2, <1>5 DEF Inherited, CatchInv, Caught, CallsInv, Data
  <2>2. CASE Fresh(b, f)
    <3>1. version \in Nat /\ \A r \in Rereads(b) : r.version # version + 1
      BY FlightFacts DEF CallsInv, Data
    <3>2. painted'[l] = f.at /\ (f.at = log \/ Due(b))
      BY <1>1, <1>3, <1>4, <2>1, <2>2 DEF Catching, Fresh
    <3> QED BY <1>1, <1>2, <1>4, <2>1, <2>2, <3>1, <3>2 DEF Catching
  <2>3. CASE ~Fresh(b, f)
    <3>1. f.version # version
      BY <1>2, <2>1, <2>3 DEF Fresh
    <3> QED BY <1>1, <1>2, <1>4, <2>1, <2>3, <3>1 DEF Catching
  <2> QED BY <2>2, <2>3
<1>6. \A c \in Bridges : Caught(c)'
  BY <1>1, <1>5, <1>2 DEF Caught
<1> QED BY <1>1, <1>2, <1>6 DEF CatchInv

LEMMA ReplyCatch ==
  ASSUME ConnInv, CallsInv, PaintInv, CatchInv, NEW b \in Bridges, ReceiveReply(b)
  PROVE  CatchInv'
<1>1. /\ Receive(b, "reply")
      /\ UNCHANGED <<made, live, sock, hello, reqs, log, on, held, attached, version, painted>>
  BY DEF ReceiveReply, client, daemon, subs, view
<1>2. b = made /\ live /\ (\A c \in Bridges : Carried(c)') /\ (Due(b)' <=> Due(b))
  <2>1. sock[b] = "ready" => b \in hello
    BY DEF CatchInv, Carried
  <2> QED BY <1>1, <2>1, TakenCarried
<1>3. InFlight(b) = InFlight(b)' \cup {Head(down[b])} /\ Head(down[b]).kind = "reply"
  BY <1>1, FlightTaken
<1>4. Rereads(b)' = Rereads(b)
  BY <1>1, <1>3 DEF Rereads
<1>5. \A c \in Bridges : Caught(c)'
  BY <1>1, <1>2, <1>4 DEF CatchInv, Caught, Catching, Inherited
<1> QED BY <1>1, <1>2, <1>5 DEF CatchInv

-----------------------------------------------------------------------------
(* What the daemon sends.                                                  *)

(* An append is pushed to every socket that shook hands and is up.         *)
LEMMA PushedFlight ==
  ASSUME CallsInv, NEW b \in Bridges, NEW s \in Seq(Frames),
         s = Pushed(log + 1)[b] \/ \E f \in Frames : f.kind = "reply" /\ s = Append(Pushed(log + 1)[b], f)
  PROVE  /\ \A f \in Range(s) : \/ f \in InFlight(b) \/ f.kind = "reply"
                                \/ f.kind = "push" /\ b \in hello /\ Up(b)
         /\ b \in hello /\ Up(b) => \E f \in Range(s) : f.kind = "push" /\ f.at = log + 1
<1> DEFINE g == [kind |-> "push", at |-> log + 1]
<1>1. down \in [Bridges -> Seq(Frames)] /\ log \in Nat
  BY SoundFrames DEF CallsInv
<1>2. g \in Frames /\ g.kind = "push" /\ g.at = log + 1
  BY <1>1 DEF Frames
<1>3. Pushed(log + 1)[b] = IF b \in hello /\ Up(b) THEN Append(down[b], g) ELSE down[b]
  BY DEF Pushed, Tell
<1> HIDE DEF g
<1>4. Range(Append(down[b], g)) = InFlight(b) \cup {g} /\ Append(down[b], g) \in Seq(Frames)
  BY <1>1, <1>2, RangeAppend DEF InFlight
<1> DEFINE p == Pushed(log + 1)[b]
<1>5. p \in Seq(Frames)
      /\ Range(p) = (IF b \in hello /\ Up(b) THEN InFlight(b) \cup {g} ELSE InFlight(b))
  <2>1. CASE b \in hello /\ Up(b)
    BY <1>3, <1>4, <2>1
  <2>2. CASE ~(b \in hello /\ Up(b))
    BY <1>1, <1>3, <2>2 DEF InFlight
  <2> QED BY <2>1, <2>2
<1>6. s = p \/ \E f \in Frames : f.kind = "reply" /\ s = Append(p, f)
  OBVIOUS
<1> HIDE DEF p
<1>7. Range(s) = Range(p) \/ \E f \in Frames : f.kind = "reply" /\ Range(s) = Range(p) \cup {f}
  BY <1>5, <1>6, RangeAppend
<1> QED BY <1>2, <1>5, <1>7

LEMMA AppendCatch ==
  ASSUME ConnInv, CallsInv, PaintInv, CatchInv, Write \/ \E r \in reqs : RunCall(r)
  PROVE  CatchInv'
<1>1. /\ log' = log + 1 /\ reqs' \subseteq reqs
      /\ UNCHANGED <<made, live, sock, hello, on, held, attached, version, painted>>
  BY DEF Write, RunCall, client, subs, view
<1>2. ASSUME NEW b \in Bridges
      PROVE  \/ down'[b] = Pushed(log + 1)[b]
             \/ \E f \in Frames : f.kind = "reply" /\ down'[b] = Append(Pushed(log + 1)[b], f)
  <2>1. CASE Write
    BY <2>1 DEF Write
  <2>2. ASSUME NEW r \in reqs, RunCall(r)
        PROVE  \/ down'[b] = Pushed(log + 1)[b]
               \/ \E f \in Frames : f.kind = "reply" /\ down'[b] = Append(Pushed(log + 1)[b], f)
    <3>1. r.call \in Calls
      BY <2>2 DEF RunCall, CallsInv, Asked, CallOn
    <3>2. [kind |-> "reply", call |-> r.call] \in Frames
      BY <3>1 DEF Frames
    <3>3. Pushed(log + 1) \in [Bridges -> Seq(Sound)]
      BY PushedSound
    <3> QED BY <2>2, <3>2, <3>3 DEF RunCall
  <2> QED BY <2>1, <2>2
<1>3. down' \in [Bridges -> Seq(Frames)]
  <2>1. CallsInv'
    BY WriteCalls, RunCallCalls
  <2>2. (Data => down \in [Bridges -> Seq(Frames)])'
    BY SoundFrames, PTL
  <2> QED BY <2>1, <2>2 DEF CallsInv
<1>4. ASSUME NEW b \in Bridges
      PROVE  /\ \A f \in InFlight(b)' : \/ f \in InFlight(b) \/ f.kind = "reply"
                                        \/ f.kind = "push" /\ b \in hello /\ Up(b)
             /\ b \in hello /\ Up(b) => Due(b)'
  <2>1. down'[b] \in Seq(Frames)
    BY <1>3
  <2> QED BY <1>1, <1>2, <2>1, PushedFlight DEF InFlight, Due
<1>5. \A b \in Bridges : Rereads(b)' \subseteq Rereads(b)
  BY <1>1, <1>4 DEF Rereads
<1>6. ASSUME NEW b \in Bridges PROVE Carried(b)'
  <2>1. Carried(b) /\ (~Up(b) => InFlight(b) = {})
    BY FlightFacts DEF CatchInv
  <2>2. \A f \in InFlight(b)' : f.kind = "push" => b \in hello /\ Up(b)
    BY <1>4, <2>1 DEF Carried
  <2>3. \A f \in InFlight(b)' : f.kind = "serverInfo" => b \in hello
    BY <1>4, <2>1 DEF Carried
  <2>4. sock[b] \in {"none", "connecting", "open"} => Rereads(b)' = {}
    BY <1>5, <2>1 DEF Carried
  <2> QED BY <1>1, <1>4, <2>1, <2>2, <2>3, <2>4 DEF Carried
<1>7. ASSUME NEW b \in Bridges PROVE Caught(b)'
  <2>1. sock[b] = "ready" => Due(b)'
    BY <1>4 DEF CatchInv, Carried, Up
  <2>2. Caught(b)
    BY DEF CatchInv
  <2> QED BY <1>1, <1>5, <2>1, <2>2 DEF Caught, Catching, Inherited
<1> QED BY <1>1, <1>6, <1>7 DEF CatchInv

(* The log is read whole for a reread.                                     *)
LEMMA ReadLogCatch ==
  ASSUME CatchInv, NEW r \in reqs, ReadLog(r)
  PROVE  CatchInv'
<1> DEFINE a == [kind |-> "answer", on |-> r.on, at |-> log, version |-> r.version, to |-> r.to]
<1>1. /\ r.kind = "read" /\ reqs' = (reqs \ {r}) \cup {a}
      /\ UNCHANGED <<made, live, sock, down, hello, log, on, held, attached, version, painted>>
  BY DEF ReadLog, client, daemon, subs, view
<1>2. a.kind = "answer" /\ a.on = r.on /\ a.at = log /\ a.version = r.version /\ a.to = r.to
  OBVIOUS
<1> HIDE DEF a
<1>3. ASSUME NEW b \in Bridges PROVE Carried(b)' /\ Caught(b)'
  <2>1. InFlight(b)' = InFlight(b) /\ (Due(b)' <=> Due(b)) /\ Carried(b) /\ Caught(b)
    BY <1>1 DEF InFlight, Due, CatchInv
  <2>2. CASE r.on # b
    <3>1. Rereads(b)' = Rereads(b)
      BY <1>1, <1>2, <2>1, <2>2 DEF Rereads
    <3> QED BY <1>1, <2>1, <3>1 DEF Carried, Caught, Catching, Inherited
  <2>3. CASE r.on = b
    <3>1. r \in Rereads(b) /\ a \in Rereads(b)'
      BY <1>1, <1>2, <2>3 DEF Rereads
    <3>2. \A q \in Rereads(b)' : q \in Rereads(b) \/ q = a
      BY <1>1, <2>1 DEF Rereads
    <3>3. \A q \in Rereads(b) : q = r \/ q \in Rereads(b)'
      BY <1>1, <2>1 DEF Rereads
    <3>4. Carried(b)'
      BY <1>1, <2>1, <3>1 DEF Carried
    <3>5. ASSUME NEW l \in Inherited, Catching(b, l) PROVE Catching(b, l)'
      BY <1>1, <1>2, <2>1, <3>1, <3>2, <3>3, <3>5 DEF Catching
    <3> QED BY <1>1, <2>1, <3>4, <3>5 DEF Caught, Inherited
  <2> QED BY <2>2, <2>3
<1> QED BY <1>1, <1>3 DEF CatchInv

LEMMA SendAnswerCatch ==
  ASSUME CallsInv, PaintInv, CatchInv, NEW r \in reqs, SendAnswer(r)
  PROVE  CatchInv'
<1>1. /\ r.kind = "answer" /\ reqs' = reqs \ {r} /\ down' = [down EXCEPT ![r.on] = Tell(r.on, r)]
      /\ UNCHANGED <<made, live, sock, hello, log, on, held, attached, version, painted>>
  BY DEF SendAnswer, client, daemon, subs, view
<1>2. r \in Frames /\ r.on \in Bridges /\ down \in [Bridges -> Seq(Frames)]
  BY <1>1, SoundFrames DEF CallsInv, Asked, Answers, Frames
<1>3. ASSUME NEW b \in Bridges PROVE Carried(b)' /\ Caught(b)'
  <2>1. InFlight(b)' = IF b = r.on /\ Up(b) THEN InFlight(b) \cup {r} ELSE InFlight(b)
    BY <1>1, <1>2, RangeAppend DEF InFlight, Tell
  <2>2. Carried(b) /\ Caught(b) /\ (Due(b)' <=> Due(b))
    BY <1>1, <2>1 DEF Due, CatchInv
  <2>3. Rereads(b)' \subseteq Rereads(b) /\ (Up(b) => Rereads(b)' = Rereads(b))
    BY <1>1, <2>1 DEF Rereads
  <2>4. Carried(b)'
    BY <1>1, <2>1, <2>2, <2>3 DEF Carried
  <2>5. Caught(b)'
    <3>1. sock[b] = "ready" => Up(b)
      BY DEF Up
    <3> QED BY <1>1, <2>2, <2>3, <3>1 DEF Caught, Catching, Inherited
  <2> QED BY <2>4, <2>5
<1> QED BY <1>1, <1>3 DEF CatchInv

LEMMA CatchStep ==
  ASSUME ConnInv, CallsInv, PaintInv, RestInv, CatchInv, [Next]_vars
  PROVE  CatchInv'
<1>1. made \in Nat /\ (live => made \in Bridges) /\ (live => on \subseteq attached)
  BY SupervisorAssumption DEF ConnInv, Shape, Between, CatchInv
<1>2. ASSUME TimerFires \/ Close \/ \E b \in Bridges : Drop(b) \/ ReceiveRejected(b)
      PROVE  CatchInv'
  <2>1. UNCHANGED <<made, hello, log, reqs, on, attached>>
    BY <1>2 DEF TimerFires, Close, Drop, ReceiveRejected, daemon, subs
  <2>2. CASE TimerFires \/ Close
    <3>1. CloseSockets(IF live THEN {made} ELSE {}) /\ ~live'
      BY <2>2 DEF TimerFires, Close
    <3> QED BY <1>1, <2>1, <3>1, ClosingCatch
  <2>3. ASSUME NEW b \in Bridges, Drop(b) \/ ReceiveRejected(b) PROVE CatchInv'
    <3>1. CloseSockets({b}) /\ Up(b) /\ live' = live /\ sock'[b] = "closed" /\ b = made
      BY <2>3 DEF Drop, ReceiveRejected, CloseSockets, Up, ConnInv, OneSocket
    <3> QED BY <1>1, <2>1, <3>1, ClosingCatch
  <2> QED BY <1>2, <2>2, <2>3
<1>3. ASSUME \/ TokenRejects \/ (TokenResolves /\ closed) \/ UNCHANGED vars
             \/ \E l \in Listeners : Subscribe(l) \/ Unsubscribe(l)
             \/ \E c \in Calls : Invoke(c)
             \/ \E r \in reqs : LoseRequest(r)
      PROVE  CatchInv'
  <2>1. /\ UNCHANGED <<live, made, sock, down, hello, log, version, painted>>
        /\ \A r \in reqs' : r \in reqs \/ r.kind = "call"
        /\ \A r \in reqs : r \in reqs' \/ ~Up(r.on)
    BY <1>3 DEF TokenRejects, TokenResolves, Subscribe, Unsubscribe, Invoke, LoseRequest, CallOn,
                vars, client, wire, daemon, view
  <2>2. live => (on' \subseteq attached' /\ Inherited' \subseteq Inherited)
    <3>1. CASE UNCHANGED <<on, held, attached>>
      BY <1>1, <2>1, <3>1 DEF Inherited
    <3>2. ASSUME NEW l \in Listeners, Subscribe(l), live
          PROVE  on' \subseteq attached' /\ Inherited' \subseteq Inherited
      <4>1. \A m \in on' : m # l => m \in on /\ held'[m] = held[m]
        BY <3>2 DEF Subscribe, RestInv
      <4>2. held'[l] = made
        BY <3>2 DEF Subscribe, RestInv
      <4> QED BY <1>1, <2>1, <3>2, <4>1, <4>2 DEF Subscribe, Inherited
    <3>3. ASSUME NEW l \in Listeners, Unsubscribe(l), live
          PROVE  on' \subseteq attached' /\ Inherited' \subseteq Inherited
      BY <1>1, <2>1, <3>3 DEF Unsubscribe, Inherited
    <3> QED BY <1>3, <3>1, <3>2, <3>3 DEF TokenRejects, TokenResolves, Invoke, LoseRequest,
            vars, client, subs
  <2> QED BY <1>1, <2>1, <2>2, QuietCatch
<1>4. CASE Connecting
  BY <1>2, <1>3, <1>4, TokenCatch, HandshakeCatch DEF Connecting
<1>5. CASE Receiving
  BY <1>2, <1>5, ServerInfoCatch, PushCatch, ReadCatch, ReplyCatch DEF Receiving
<1>6. CASE Shell
  BY <1>2, <1>3, <1>6 DEF Shell
<1>7. CASE Serving
  BY <1>3, <1>7, AppendCatch, ReadLogCatch, SendAnswerCatch DEF Serving
<1> QED BY <1>3, <1>4, <1>5, <1>6, <1>7 DEF Next

LEMMA CatchInductive == Spec => []CatchInv
<1>1. ConnInv /\ CallsInv /\ PaintInv /\ RestInv /\ CatchInv /\ [Next]_vars => CatchInv'
  BY CatchStep
<1> QED BY <1>1, CatchInit, ConnInductive, CallsInductive, PaintInductive, RestInductive, PTL DEF Spec

(* After any number of reconnects, an online connection with nothing in    *)
(* flight shows every listener its bridge inherited the whole log.         *)
THEOREM CaughtUp == Spec => []Reconciled
<1>1. ConnInv /\ CallsInv /\ CatchInv => Reconciled
  <2> SUFFICES ASSUME ConnInv, CallsInv, CatchInv, Settled, NEW l \in on, held[l] < made
               PROVE  painted[l] = log
    BY DEF Reconciled
  <2>1. made \in Bridges /\ live /\ sock[made] = "ready" /\ l \in Inherited
    BY DEF Settled, ConnInv, OnlineIsReady, Between, Inherited
  <2>2. InFlight(made) = {} /\ reqs = {}
    BY RangeSmall DEF Settled, InFlight
  <2>3. Catching(made, l)
    BY <2>1 DEF CatchInv, Caught
  <2>4. Rereads(made) = {} /\ ~Due(made)
    BY <2>2 DEF Rereads, Due
  <2> QED BY <2>3, <2>4 DEF Catching
<1> QED BY <1>1, ConnInductive, CallsInductive, CatchInductive, PTL
=============================================================================
