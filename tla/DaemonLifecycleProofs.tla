------------------------ MODULE DaemonLifecycleProofs ------------------------
(***************************************************************************)
(* DaemonLifecycle for every number of calls, processes and restarts: its  *)
(* type invariant, that an installer told to go on finds no daemon, and    *)
(* that windows get their port back.                                       *)
(***************************************************************************)
EXTENDS DaemonLifecycle, SequenceTheorems, TLAPS

-----------------------------------------------------------------------------
(* The inductive invariant.                                                *)

Places == DOMAIN chain

(* The chain holds pending calls, each once.  An ensure that has not been  *)
(* called, that is queued or in flight, follows itself.                    *)
Calls ==
  /\ \A i \in Places : outcome[chain[i]] = "pending"
  /\ \A i, j \in Places : chain[i] = chain[j] => i = j
  /\ \A i \in Places : chain[i] \in Ensures => joined[chain[i]] = chain[i]
  /\ \A e \in Ensures : outcome[e] = "new" => joined[e] = e
  /\ inFlight # None => joined[inFlight] = inFlight

(* One update at a time is prepared.                                       *)
OneUpdate ==
  \A u, v \in Updates : outcome[u] = "pending" /\ outcome[v] = "pending" => u = v

(* From the preparation of an update until it is applied or given up, the  *)
(* port is closed, so no ensure is queued behind it.                       *)
PortClosed ==
  ~overtaken =>
    /\ Preparing \/ handed => ~serving
    /\ \A i, j \in Places : i < j /\ chain[i] \in Updates => chain[j] \in Stops
    /\ handed => \A i \in Places : chain[i] \in Stops

(* Only an ensure clears, spawns and waits, only a stop signals.           *)
OwnPlaces ==
  /\ pc \in {"clear", "spawn", "wait"} => Head(chain) \in Ensures
  /\ pc \in {"acked", "term", "terminated", "kill", "killed"} => Head(chain) \in Stops

(* A child's exit drops its handle. *)
Known == child # 0 => Alive(child)

Stopping ==
  chain # <<>> /\ Head(chain) \in Stops /\ pc \notin {"idle", "probe"}

(* Unless an ensure spawned beside a live daemon or left one starting, and *)
(* without other launchers, one process at most is alive; it is the one    *)
(* waited for or the one claimed, and what a stop stops.                   *)
Single ==
  /\ Stopping => target # 0
  /\ ~beside /\ others = 0 =>
       /\ \A p, q \in Procs : Alive(p) /\ Alive(q) => p = q
       /\ \A p \in Procs : proc[p] \in {"up", "asked"} => claim = p
       /\ \A p \in Procs : proc[p] = "starting" => pc = "wait" /\ child = p
       /\ Stopping => handle \in {0, target} /\ \A p \in Procs : Alive(p) => p = target
       /\ handed /\ ~overtaken => \A p \in Procs : ~Alive(p)

IInv ==
  /\ TypeOK /\ Calls /\ OneUpdate /\ PortClosed /\ OwnPlaces /\ Known /\ Single
  /\ ServesAgain

-----------------------------------------------------------------------------
(* Queues.                                                                 *)

LEMMA Appended ==
  ASSUME NEW S, NEW s \in Seq(S), NEW x \in S
  PROVE  /\ Append(s, x) \in Seq(S) /\ Append(s, x) # <<>>
         /\ DOMAIN Append(s, x) = (DOMAIN s) \cup {Len(s) + 1}
         /\ Append(s, x)[Len(s) + 1] = x
         /\ \A i \in DOMAIN s : i \in Nat /\ i <= Len(s) /\ Append(s, x)[i] = s[i]
         /\ Len(s) \in Nat /\ Len(s) + 1 \notin DOMAIN s
         /\ Head(Append(s, x)) = IF s = <<>> THEN x ELSE Head(s)
<1>1. Len(s) \in Nat /\ DOMAIN s = 1..Len(s)
  OBVIOUS
<1>2. /\ Append(s, x) \in Seq(S) /\ Append(s, x) # <<>>
      /\ Len(Append(s, x)) = Len(s) + 1 /\ DOMAIN Append(s, x) = 1..(Len(s) + 1)
      /\ \A i \in 1..Len(s) : Append(s, x)[i] = s[i]
      /\ Append(s, x)[Len(s) + 1] = x
  BY AppendProperties, LenProperties
<1>3. Head(Append(s, x)) = Append(s, x)[1]
  BY <1>2, HeadTailProperties
<1>4. s = <<>> => Len(s) = 0
  BY EmptySeq
<1>5. s # <<>> => Len(s) > 0 /\ Head(s) = s[1]
  BY EmptySeq, HeadTailProperties
<1>6. DOMAIN Append(s, x) = (DOMAIN s) \cup {Len(s) + 1}
  BY <1>1, <1>2
<1>7. Head(Append(s, x)) = IF s = <<>> THEN x ELSE Head(s)
  BY <1>1, <1>2, <1>3, <1>4, <1>5
<1>8. \A i \in DOMAIN s : i \in Nat /\ i <= Len(s) /\ Append(s, x)[i] = s[i]
  BY <1>1, <1>2
<1>9. Len(s) + 1 \notin DOMAIN s
  BY <1>1
<1> QED BY <1>1, <1>2, <1>6, <1>7, <1>8, <1>9

LEMMA Shortened ==
  ASSUME NEW S, NEW s \in Seq(S), s # <<>>
  PROVE  /\ Tail(s) \in Seq(S)
         /\ Head(s) = s[1] /\ 1 \in DOMAIN s /\ Head(s) \in S
         /\ \A i \in DOMAIN Tail(s) :
              /\ i \in Nat /\ i >= 1 /\ i + 1 \in DOMAIN s
              /\ Tail(s)[i] = s[i + 1]
         /\ Len(s) > 1 <=> Tail(s) # <<>>
<1>1. Len(s) \in Nat /\ DOMAIN s = 1..Len(s) /\ Len(s) > 0 /\ Head(s) = s[1] /\ Head(s) \in S
  BY LenProperties, EmptySeq, HeadTailProperties
<1>2. /\ Tail(s) \in Seq(S) /\ Len(Tail(s)) = Len(s) - 1
      /\ \A i \in 1..Len(Tail(s)) : Tail(s)[i] = s[i + 1]
  BY HeadTailProperties
<1>3. DOMAIN Tail(s) = 1..Len(Tail(s))
  BY <1>2, LenProperties
<1>4. \A i \in DOMAIN Tail(s) : i \in Nat /\ i >= 1 /\ i + 1 \in DOMAIN s /\ Tail(s)[i] = s[i + 1]
  BY <1>1, <1>2, <1>3
<1>5. Len(s) > 1 <=> Tail(s) # <<>>
  <2>1. Len(<<>>) = 0 /\ \A t \in Seq(S) : t # <<>> => Len(t) \in Nat \ {0}
    BY EmptySeq
  <2>2. CASE Tail(s) = <<>>
    <3>1. Len(Tail(s)) = 0
      BY <2>1, <2>2, Zenon
    <3> QED BY <1>1, <1>2, <2>2, <3>1
  <2>3. CASE Tail(s) # <<>>
    <3>1. Len(Tail(s)) \in Nat \ {0}
      BY <1>2, <2>1, <2>3
    <3> QED BY <1>1, <1>2, <2>3, <3>1
  <2> QED BY <2>2, <2>3
<1> QED BY <1>1, <1>2, <1>4, <1>5

-----------------------------------------------------------------------------
(* Calls and the chain.                                                    *)

(* The part of TypeOK that is about calls and the chain.                   *)
OpsOK ==
  /\ chain \in Seq(Ops)
  /\ inFlight # None => inFlight \in Ensures /\ outcome[inFlight] = "pending"
  /\ joined \in [Ensures -> Ensures]
  /\ outcome \in [Ops -> {"new", "pending", "failed", "stopped"} \cup Versions]

Chained == pc = "idle" <=> chain = <<>>

LEMMA EnsureCalls ==
  ASSUME IInv, NEW e \in Ensures, Ensure(e)
  PROVE  OpsOK' /\ Calls' /\ OneUpdate'
<1>1. OpsOK /\ Calls /\ OneUpdate /\ chain \in Seq(Ops)
  BY DEF IInv, TypeOK, OpsOK
<1>2. e \in Ops /\ outcome[e] = "new" /\ outcome' = [outcome EXCEPT ![e] = "pending"]
  BY DEF Ensure, Request, Ops
<1>3. e \notin Updates
  BY LifecycleAssumption
<1>4. OneUpdate'
  BY <1>1, <1>2, <1>3, LifecycleAssumption DEF OneUpdate, OpsOK, Ops
<1>5. inFlight # None => inFlight # e
  BY <1>1, <1>2 DEF OpsOK
<1>6. CASE inFlight # None /\ joined' = [joined EXCEPT ![e] = inFlight]
           /\ UNCHANGED <<chain, inFlight>>
  <2>1. OpsOK'
    BY <1>1, <1>2, <1>6 DEF OpsOK, Ops
  <2>2. Calls'
    BY <1>1, <1>2, <1>5, <1>6 DEF OpsOK, Calls, Places, Ops
  <2> QED BY <1>4, <2>1, <2>2
<1>7. CASE chain' = Append(chain, e) /\ inFlight' = e /\ UNCHANGED joined
  <2>1. OpsOK'
    BY <1>1, <1>2, <1>7, Appended DEF OpsOK, Ops
  <2>2. \A i \in Places : chain[i] \in Ops /\ chain[i] # e
    BY <1>1, <1>2 DEF Calls, Places
  <2>3. /\ \A i \in Places' : outcome'[chain'[i]] = "pending"
        /\ \A i, j \in Places' : chain'[i] = chain'[j] => i = j
        /\ \A i \in Places' : chain'[i] = e \/ (i \in Places /\ chain'[i] = chain[i])
    <3>1. /\ Places' = Places \cup {Len(chain) + 1} /\ Len(chain) + 1 \notin Places
          /\ chain'[Len(chain) + 1] = e /\ \A i \in Places : chain'[i] = chain[i]
      BY <1>1, <1>2, <1>7, Appended DEF Places
    <3>2. \A i \in Places : outcome'[chain[i]] = "pending"
      BY <1>1, <1>2, <2>2 DEF Calls, OpsOK
    <3>3. outcome'[e] = "pending"
      BY <1>1, <1>2 DEF OpsOK
    <3>4. \A i, j \in Places : chain[i] = chain[j] => i = j
      BY <1>1 DEF Calls
    <3>5. \A i \in Places' : outcome'[chain'[i]] = "pending"
      BY <3>1, <3>2, <3>3
    <3>6. ASSUME NEW i \in Places', NEW j \in Places', chain'[i] = chain'[j] PROVE i = j
      <4>1. CASE i \in Places /\ j \in Places
        BY <3>1, <3>4, <3>6, <4>1
      <4>2. CASE i = Len(chain) + 1
        BY <2>2, <3>1, <3>6, <4>2
      <4>3. CASE j = Len(chain) + 1
        BY <2>2, <3>1, <3>6, <4>3
      <4> QED BY <3>1, <4>1, <4>2, <4>3
    <3>7. \A i \in Places' : chain'[i] = e \/ (i \in Places /\ chain'[i] = chain[i])
      BY <3>1
    <3> QED BY <3>5, <3>6, <3>7
  <2>4. joined[e] = e
    BY <1>1, <1>2 DEF Calls
  <2>5. Calls'
    BY <1>1, <1>2, <1>7, <2>3, <2>4 DEF Calls, OpsOK, Ops, Places
  <2> QED BY <1>4, <2>1, <2>5
<1> QED BY <1>6, <1>7 DEF Ensure, Queue

LEMMA StopCalls ==
  ASSUME IInv, NEW s \in Stops, Stop(s)
  PROVE  OpsOK' /\ Calls' /\ OneUpdate'
<1>1. OpsOK /\ Calls /\ OneUpdate /\ chain \in Seq(Ops)
  BY DEF IInv, TypeOK, OpsOK
<1>2. /\ s \in Ops /\ outcome[s] = "new" /\ outcome' = [outcome EXCEPT ![s] = "pending"]
      /\ chain' = Append(chain, s) /\ UNCHANGED <<inFlight, joined>>
  BY DEF Stop, Queue, Request, Ops
<1>3. OneUpdate'
  BY <1>1, <1>2, LifecycleAssumption DEF OneUpdate, OpsOK, Ops, Stop, Preparing
<1>4. OpsOK'
  BY <1>1, <1>2, Appended, LifecycleAssumption DEF OpsOK, Ops
<1>5. \A i \in Places : chain[i] \in Ops /\ chain[i] # s
  BY <1>1, <1>2 DEF Calls, Places
<1>6. /\ \A i \in Places' : outcome'[chain'[i]] = "pending"
      /\ \A i, j \in Places' : chain'[i] = chain'[j] => i = j
      /\ \A i \in Places' : chain'[i] = s \/ (i \in Places /\ chain'[i] = chain[i])
  <2>1. /\ Places' = Places \cup {Len(chain) + 1} /\ Len(chain) + 1 \notin Places
        /\ chain'[Len(chain) + 1] = s /\ \A i \in Places : chain'[i] = chain[i]
    BY <1>1, <1>2, Appended DEF Places
  <2>2. \A i \in Places : outcome'[chain[i]] = "pending"
    BY <1>1, <1>2, <1>5 DEF Calls, OpsOK
  <2>3. outcome'[s] = "pending"
    BY <1>1, <1>2 DEF OpsOK
  <2>4. \A i, j \in Places : chain[i] = chain[j] => i = j
    BY <1>1 DEF Calls
  <2>5. ASSUME NEW i \in Places', NEW j \in Places', chain'[i] = chain'[j] PROVE i = j
    <3>1. CASE i \in Places /\ j \in Places
      BY <2>1, <2>4, <2>5, <3>1
    <3>2. CASE i = Len(chain) + 1
      BY <1>5, <2>1, <2>5, <3>2
    <3>3. CASE j = Len(chain) + 1
      BY <1>5, <2>1, <2>5, <3>3
    <3> QED BY <2>1, <3>1, <3>2, <3>3
  <2> QED BY <1>5, <2>1, <2>2, <2>3, <2>5
<1>7. Calls'
  BY <1>1, <1>2, <1>6, LifecycleAssumption DEF Calls, OpsOK, Ops, Places
<1> QED BY <1>3, <1>4, <1>7

Results == {"failed", "stopped"} \cup Versions

LEMMA SettleCalls ==
  ASSUME IInv, NEW o \in Ops, Running(o), NEW result \in Results, Settle(o, result)
  PROVE  /\ OpsOK' /\ Calls' /\ OneUpdate' /\ Chained'
         /\ \A x \in Ops \ Ensures : outcome'[x] = IF x = o THEN result ELSE outcome[x]
         /\ outcome[o] = "pending" /\ chain' = Tail(chain) /\ pc' \in {"idle", "probe"}
<1>1. /\ OpsOK /\ Calls /\ OneUpdate /\ chain \in Seq(Ops) /\ chain # <<>>
      /\ o = chain[1] /\ 1 \in DOMAIN chain
  BY Shortened DEF IInv, TypeOK, OpsOK, Running
<1> DEFINE told == {o} \cup {e \in Ensures : joined[e] = o}
<1>2. /\ chain' = Tail(chain) /\ pc' = IF Len(chain) > 1 THEN "probe" ELSE "idle"
      /\ outcome' = [x \in Ops |-> IF x \in told THEN result ELSE outcome[x]]
      /\ inFlight' = IF inFlight = o THEN None ELSE inFlight
      /\ joined' = [e \in Ensures |-> IF e \in told THEN e ELSE joined[e]]
  BY DEF Settle
<1>3. result # "pending" /\ result # "new" /\ outcome[o] = "pending"
  BY <1>1 DEF Results, Versions, Calls, Places
<1>4. Chained'
  BY <1>1, <1>2, Shortened DEF Chained
<1>5. inFlight' # None => inFlight' = inFlight /\ inFlight \in Ensures /\ inFlight \notin told
  BY <1>1, <1>2 DEF OpsOK, Calls
<1>6. OpsOK'
  <2>1. outcome' \in [Ops -> {"new", "pending", "failed", "stopped"} \cup Versions]
    BY <1>1, <1>2 DEF OpsOK, Results
  <2>2. joined' \in [Ensures -> Ensures]
    BY <1>1, <1>2 DEF OpsOK
  <2>3. inFlight' # None => inFlight' \in Ensures /\ outcome'[inFlight'] = "pending"
    BY <1>1, <1>2, <1>5 DEF OpsOK, Ops
  <2>4. chain' \in Seq(Ops)
    BY <1>1, <1>2, Shortened
  <2> QED BY <2>1, <2>2, <2>3, <2>4 DEF OpsOK
<1>7. \A x \in Ops \ Ensures : outcome'[x] = IF x = o THEN result ELSE outcome[x]
  BY <1>2
<1>8. OneUpdate'
  BY <1>1, <1>3, <1>7, LifecycleAssumption DEF OneUpdate, Ops
<1>9. \A i \in Places' : /\ i + 1 \in Places /\ i + 1 # 1 /\ i \in Nat
                         /\ chain'[i] = chain[i + 1] /\ chain'[i] \in Ops
  BY <1>1, <1>2, Shortened DEF Places
<1>10. /\ \A i \in Places' : outcome'[chain'[i]] = "pending"
       /\ \A i, j \in Places' : chain'[i] = chain'[j] => i = j
       /\ \A i \in Places' : chain'[i] \in Ensures => joined'[chain'[i]] = chain'[i]
  <2>1. ASSUME NEW i \in Places'
        PROVE  /\ outcome'[chain'[i]] = "pending"
               /\ chain'[i] \in Ensures => joined'[chain'[i]] = chain'[i]
    <3>1. chain'[i] # o /\ outcome[chain'[i]] = "pending"
      BY <1>1, <1>9 DEF Calls, Places
    <3>2. chain'[i] \notin told
      BY <1>1, <1>9, <3>1 DEF Calls
    <3> QED BY <1>1, <1>2, <1>9, <3>1, <3>2 DEF Calls, OpsOK
  <2>2. ASSUME NEW i \in Places', NEW j \in Places', chain'[i] = chain'[j]
        PROVE  i = j
    BY <1>1, <1>9, <2>2 DEF Calls
  <2> QED BY <2>1, <2>2
<1>11. \A e \in Ensures : outcome'[e] = "new" => joined'[e] = e
  BY <1>1, <1>2, <1>3 DEF Calls, OpsOK, Ops
<1>12. inFlight' # None => joined'[inFlight'] = inFlight'
  BY <1>1, <1>2, <1>5 DEF Calls, OpsOK
<1>13. Calls'
  BY <1>10, <1>11, <1>12 DEF Calls
<1> QED BY <1>2, <1>3, <1>4, <1>6, <1>7, <1>8, <1>13

-----------------------------------------------------------------------------
(* The port.                                                               *)

LEMMA NoUpdateQueued ==
  ASSUME IInv, ~Preparing
  PROVE  \A i \in Places : chain[i] \notin Updates
BY DEF IInv, Calls, Preparing

(* An ensure is called: no update is being prepared, or that is recorded.  *)
LEMMA EnsurePort ==
  ASSUME IInv, NEW e \in Ensures, AskPort(e) \/ RecoverAfterApplyFailure(e)
  PROVE  PortClosed' /\ ServesAgain'
<1>1. /\ Ensure(e) /\ e \notin Stops /\ e \notin Updates /\ Updates \subseteq Stops
      /\ chain \in Seq(Ops) /\ e \in Ops
  BY LifecycleAssumption DEF AskPort, RecoverAfterApplyFailure, IInv, TypeOK, Ops
<1>2. \A s \in Stops : outcome'[s] = outcome[s]
  BY <1>1 DEF Ensure, Request, IInv, TypeOK, Ops
<1>3. Preparing' = Preparing
  BY <1>1, <1>2 DEF Preparing
<1>4. serving'
  BY DEF AskPort, RecoverAfterApplyFailure, app
<1>5. ASSUME ~overtaken' PROVE ~Preparing /\ ~handed'
  <2>1. CASE AskPort(e)
    <3>1. serving /\ ~overtaken /\ handed' = handed
      BY <1>5, <2>1 DEF AskPort, app
    <3> QED BY <3>1 DEF IInv, PortClosed
  <2>2. CASE RecoverAfterApplyFailure(e)
    BY <1>5, <2>2 DEF RecoverAfterApplyFailure
  <2> QED BY <2>1, <2>2
<1>6. ASSUME ~overtaken' PROVE \A i \in Places' : chain'[i] \notin Updates
  <2>1. \A i \in Places : chain[i] \notin Updates
    BY <1>5, <1>6, NoUpdateQueued
  <2>2. CASE UNCHANGED chain
    BY <2>1, <2>2 DEF Places
  <2>3. CASE chain' = Append(chain, e)
    <3>1. /\ Places' = Places \cup {Len(chain) + 1}
          /\ chain'[Len(chain) + 1] = e /\ \A i \in Places : chain'[i] = chain[i]
      BY <1>1, <2>3, Appended DEF Places
    <3> QED BY <1>1, <2>1, <3>1
  <2> QED BY <1>1, <2>2, <2>3 DEF Ensure, Queue
<1>7. PortClosed'
  BY <1>3, <1>5, <1>6 DEF PortClosed
<1> QED BY <1>4, <1>7 DEF ServesAgain

LEMMA StopPort ==
  ASSUME IInv, NEW s \in Stops, Stop(s)
  PROVE  PortClosed' /\ ServesAgain'
<1>1. chain \in Seq(Ops) /\ s \in Ops /\ chain' = Append(chain, s)
  BY DEF IInv, TypeOK, Ops, Stop, Queue
<1>2. /\ Places' = Places \cup {Len(chain) + 1} /\ Len(chain) \in Nat
      /\ chain'[Len(chain) + 1] = s
      /\ \A i \in Places : chain'[i] = chain[i] /\ i \in Nat /\ i <= Len(chain)
  BY <1>1, Appended DEF Places
<1>3. serving' = FALSE /\ UNCHANGED <<handed, overtaken>>
  BY DEF Stop
<1>4. ServesAgain'
  <2>1. outcome'[s] = "pending"
    BY <1>1 DEF Stop, Request, IInv, TypeOK
  <2> QED BY <2>1 DEF ServesAgain
<1>5. ASSUME ~overtaken PROVE /\ \A i, j \in Places' : i < j /\ chain'[i] \in Updates => chain'[j] \in Stops
                              /\ handed => \A i \in Places' : chain'[i] \in Stops
  <2>1. /\ \A i, j \in Places : i < j /\ chain[i] \in Updates => chain[j] \in Stops
        /\ handed => \A i \in Places : chain[i] \in Stops
    BY <1>5 DEF IInv, PortClosed
  <2> QED BY <1>2, <2>1
<1>6. PortClosed'
  BY <1>3, <1>5 DEF PortClosed
<1> QED BY <1>4, <1>6

LEMMA SettlePort ==
  ASSUME IInv, NEW o \in Ops, Running(o), NEW result \in Results, Settle(o, result),
         \/ o \in Ensures /\ UNCHANGED app
         \/ o \in Stops /\ SettleStop(o, result) /\ result \in {"stopped", "failed"}
  PROVE  PortClosed' /\ ServesAgain'
<1>1. /\ \A x \in Stops : outcome'[x] = IF x = o THEN result ELSE outcome[x]
      /\ outcome[o] = "pending" /\ chain' = Tail(chain)
      /\ Updates \subseteq Stops /\ result # "pending" /\ result # "new"
  BY SettleCalls, LifecycleAssumption DEF Ops, Results, Versions
<1>2. /\ chain \in Seq(Ops) /\ chain # <<>> /\ chain[1] = o /\ 1 \in Places
      /\ \A i \in Places' : i \in Nat /\ i >= 1 /\ i + 1 \in Places /\ chain'[i] = chain[i + 1]
  BY <1>1, Shortened DEF IInv, TypeOK, Running, Places
<1>3. ServesAgain /\ PortClosed /\ OneUpdate /\ serving \in BOOLEAN /\ handed \in BOOLEAN
  BY DEF IInv, TypeOK
<1>4. overtaken' = overtaken
  BY DEF app, SettleStop
<1>5. ServesAgain'
  <2>1. CASE o \in Ensures /\ UNCHANGED app
    <3>1. o \notin Stops
      BY <2>1, LifecycleAssumption
    <3> QED BY <1>1, <1>3, <2>1, <3>1 DEF ServesAgain, app
  <2>2. CASE o \in Stops /\ SettleStop(o, result) /\ result \in {"stopped", "failed"}
    <3>1. CASE o \in Updates
      BY <2>2, <3>1 DEF ServesAgain, SettleStop
    <3>2. CASE o \notin Updates
      BY <1>1, <2>2, <3>2 DEF ServesAgain
    <3> QED BY <3>1, <3>2
  <2> QED BY <2>1, <2>2
<1>6. ASSUME ~overtaken PROVE \A i, j \in Places' : i < j /\ chain'[i] \in Updates => chain'[j] \in Stops
  <2>1. \A i, j \in Places : i < j /\ chain[i] \in Updates => chain[j] \in Stops
    BY <1>3, <1>6 DEF PortClosed
  <2>2. ASSUME NEW i \in Places', NEW j \in Places', i < j, chain'[i] \in Updates PROVE chain'[j] \in Stops
    <3>1. i + 1 \in Places /\ j + 1 \in Places /\ i + 1 < j + 1 /\ chain[i + 1] \in Updates
      BY <1>2, <2>2
    <3> QED BY <1>2, <2>1, <3>1
  <2> QED BY <2>2
<1>7. ASSUME ~overtaken, handed' PROVE \A i \in Places' : chain'[i] \in Stops
  <2>1. CASE handed
    BY <1>2, <1>3, <1>7, <2>1 DEF PortClosed
  <2>2. CASE ~handed
    <3>1. o \in Updates
      BY <1>7, <2>2 DEF SettleStop, app
    <3>2. \A j \in Places : 1 < j => chain[j] \in Stops
      BY <1>2, <1>3, <1>7, <3>1 DEF PortClosed
    <3> QED BY <1>2, <3>2
  <2> QED BY <2>1, <2>2
<1>8. ASSUME ~overtaken, Preparing' \/ handed' PROVE ~serving'
  <2>1. Preparing' => Preparing
    BY <1>1 DEF Preparing
  <2>2. CASE o \in Ensures /\ UNCHANGED app
    BY <1>3, <1>8, <2>1, <2>2 DEF PortClosed, app
  <2>3. CASE o \in Stops /\ SettleStop(o, result) /\ result \in {"stopped", "failed"}
    <3>1. CASE o \notin Updates
      BY <1>3, <1>8, <2>1, <2>3, <3>1 DEF PortClosed, SettleStop
    <3>2. CASE o \in Updates
      <4>1. Preparing /\ ~Preparing'
        BY <1>1, <1>3, <3>2 DEF Preparing, OneUpdate
      <4>2. handed' /\ result = "stopped" /\ ~serving
        BY <1>3, <1>8, <2>3, <3>2, <4>1 DEF SettleStop, PortClosed
      <4> QED BY <2>3, <4>2 DEF SettleStop
    <3> QED BY <3>1, <3>2
  <2> QED BY <2>2, <2>3
<1>9. PortClosed'
  BY <1>4, <1>6, <1>7, <1>8 DEF PortClosed
<1> QED BY <1>5, <1>9

-----------------------------------------------------------------------------
(* Places and processes.                                                   *)

PcOK ==
  pc \in {"idle", "probe", "ask", "clear", "spawn", "wait", "acked", "term",
          "terminated", "kill", "killed"}

(* The part of TypeOK that is about processes and the app.                 *)
ProcOK ==
  /\ {target, handle, child, claim} \subseteq 0..MaxProcs /\ skew \in 0..SkewLimit
  /\ proc \in [Procs -> {"gone", "starting", "up", "asked"}]
  /\ version \in [Procs -> Versions] /\ others \in 0..MaxOthers
  /\ {serving, handed, beside, overtaken} \subseteq BOOLEAN

LEMMA Parts == TypeOK <=> OpsOK /\ PcOK /\ Chained /\ ProcOK
BY DEF TypeOK, OpsOK, PcOK, Chained, ProcOK

(* What a call that is queued, or folds, leaves of the running operation.  *)
LEMMA QueuedRuns ==
  ASSUME IInv, NEW o \in Ops, Queue(o) \/ UNCHANGED <<chain, pc>>
  PROVE  PcOK' /\ Chained' /\ OwnPlaces' /\ (pc = "wait" => pc' = "wait")
         /\ (chain' # <<>> /\ Head(chain') \in Stops /\ pc' \notin {"idle", "probe"} => Stopping)
<1>1. PcOK /\ Chained /\ OwnPlaces /\ chain \in Seq(Ops)
  BY Parts DEF IInv, TypeOK
<1>2. CASE UNCHANGED <<chain, pc>>
  BY <1>1, <1>2 DEF PcOK, Chained, OwnPlaces, Stopping
<1>3. CASE Queue(o) /\ chain = <<>>
  <2>1. pc' = "probe" /\ chain' # <<>> /\ pc = "idle"
    BY <1>1, <1>3, Appended DEF Queue, Chained
  <2> QED BY <2>1 DEF PcOK, Chained, OwnPlaces
<1>4. CASE Queue(o) /\ chain # <<>>
  <2>1. pc' = pc /\ chain' # <<>> /\ Head(chain') = Head(chain) /\ pc # "idle"
    BY <1>1, <1>4, Appended DEF Queue, Chained
  <2> QED BY <1>1, <1>4, <2>1 DEF PcOK, Chained, OwnPlaces, Stopping
<1> QED BY <1>2, <1>3, <1>4

(* A call changes no process.                                              *)
LEMMA CallKeeps ==
  ASSUME IInv, NEW o \in Ops, Queue(o) \/ UNCHANGED <<chain, pc>>,
         UNCHANGED <<target, handle, skew, child, processes, claim, beside>>,
         handed' \in BOOLEAN, serving' \in BOOLEAN, overtaken' \in BOOLEAN,
         handed' /\ ~overtaken' => handed /\ ~overtaken
  PROVE  PcOK' /\ Chained' /\ OwnPlaces' /\ ProcOK' /\ Known' /\ Single'
<1>1. ProcOK /\ Known /\ Single
  BY Parts DEF IInv
<1>2. PcOK' /\ Chained' /\ OwnPlaces' /\ (pc = "wait" => pc' = "wait") /\ (Stopping' => Stopping)
  BY QueuedRuns DEF Stopping
<1>3. ProcOK' /\ Known'
  BY <1>1 DEF ProcOK, Known, processes, Alive
<1>4. Single'
  BY <1>1, <1>2 DEF Single, processes, Alive
<1> QED BY <1>2, <1>3, <1>4

LEMMA AskPortInv ==
  ASSUME IInv, NEW e \in Ensures, AskPort(e) \/ RecoverAfterApplyFailure(e)
  PROVE  IInv'
<1>1. Ensure(e) /\ e \in Ops
  BY DEF AskPort, RecoverAfterApplyFailure, Ops
<1>2. OpsOK' /\ Calls' /\ OneUpdate'
  BY <1>1, EnsureCalls
<1>3. PortClosed' /\ ServesAgain'
  BY EnsurePort
<1>4. /\ Queue(e) \/ UNCHANGED <<chain, pc>>
      /\ UNCHANGED <<target, handle, skew, child, processes, claim, beside>>
  BY <1>1 DEF Ensure
<1>5. /\ handed' \in BOOLEAN /\ serving' \in BOOLEAN /\ overtaken' \in BOOLEAN
      /\ handed' /\ ~overtaken' => handed /\ ~overtaken
  <2>1. handed \in BOOLEAN /\ serving \in BOOLEAN /\ overtaken \in BOOLEAN
    BY DEF IInv, TypeOK
  <2>2. CASE AskPort(e)
    BY <2>1, <2>2 DEF AskPort, app
  <2>3. CASE RecoverAfterApplyFailure(e)
    BY <2>1, <2>3 DEF RecoverAfterApplyFailure, Preparing
  <2> QED BY <2>2, <2>3
<1>6. PcOK' /\ Chained' /\ OwnPlaces' /\ ProcOK' /\ Known' /\ Single'
  BY <1>1, <1>4, <1>5, CallKeeps
<1>7. TypeOK'
  BY <1>2, <1>6 DEF TypeOK, OpsOK, PcOK, Chained, ProcOK
<1> QED BY <1>2, <1>3, <1>6, <1>7 DEF IInv

LEMMA StopInv ==
  ASSUME IInv, NEW s \in Stops, Stop(s)
  PROVE  IInv'
<1>1. OpsOK' /\ Calls' /\ OneUpdate' /\ PortClosed' /\ ServesAgain' /\ s \in Ops
  BY StopCalls, StopPort DEF Ops
<1>2. /\ Queue(s) /\ serving' = FALSE /\ handed' = handed /\ overtaken' = overtaken
      /\ UNCHANGED <<target, handle, skew, child, processes, claim, beside>>
      /\ handed \in BOOLEAN /\ overtaken \in BOOLEAN
  BY DEF Stop, IInv, TypeOK
<1>3. PcOK' /\ Chained' /\ OwnPlaces' /\ ProcOK' /\ Known' /\ Single'
  BY <1>1, <1>2, CallKeeps
<1>4. TypeOK'
  BY <1>1, <1>3 DEF TypeOK, OpsOK, PcOK, Chained, ProcOK
<1> QED BY <1>1, <1>3, <1>4 DEF IInv

-----------------------------------------------------------------------------
(* The running operation.                                                  *)

LEMMA OpGoesOn ==
  ASSUME IInv, UNCHANGED <<ops, app>>, chain # <<>>, PcOK', pc' # "idle",
         OwnPlaces', ProcOK', Known', Single'
  PROVE  IInv'
<1>1. OpsOK /\ Calls /\ OneUpdate /\ PortClosed /\ ServesAgain
  BY Parts DEF IInv
<1>2. OpsOK' /\ Calls' /\ OneUpdate' /\ PortClosed' /\ ServesAgain'
  BY <1>1 DEF ops, app, OpsOK, Calls, OneUpdate, PortClosed, Preparing, Places, ServesAgain
<1>3. Chained'
  BY DEF ops, Chained
<1>4. TypeOK'
  BY <1>2, <1>3 DEF TypeOK, OpsOK, PcOK, Chained, ProcOK
<1> QED BY <1>2, <1>4 DEF IInv

LEMMA OpSettles ==
  ASSUME IInv, NEW o \in Ops, Running(o), NEW result \in Results, Settle(o, result),
         \/ o \in Ensures /\ UNCHANGED app
         \/ o \in Stops /\ SettleStop(o, result) /\ result \in {"stopped", "failed"},
         ProcOK', Known', Single'
  PROVE  IInv'
<1>1. OpsOK' /\ Calls' /\ OneUpdate' /\ Chained' /\ pc' \in {"idle", "probe"}
  BY SettleCalls
<1>2. PortClosed' /\ ServesAgain'
  BY SettlePort
<1>3. PcOK' /\ OwnPlaces'
  BY <1>1 DEF PcOK, OwnPlaces
<1>4. TypeOK'
  BY <1>1, <1>3 DEF TypeOK, OpsOK, PcOK, Chained, ProcOK
<1> QED BY <1>1, <1>2, <1>3, <1>4 DEF IInv

(* An ensure that is not waiting, or waits for no process of its own, ends *)
(* or asks the daemon it found to stop.                                    *)
LEMMA EnsureAnswers ==
  ASSUME IInv, NEW e \in Ensures, Running(e),
         Fail(e) \/ RestartSkewed(e) \/ (UseHealthy(e) /\ claim \in Procs),
         UNCHANGED app, beside' \in BOOLEAN,
         ~beside' => ~beside /\ (others = 0 => \A p \in Procs : proc[p] # "starting")
  PROVE  IInv'
<1>1. /\ ProcOK /\ Known /\ Single /\ chain # <<>> /\ Head(chain) = e /\ e \in Ops
      /\ e \notin Stops /\ {serving, handed, overtaken} \subseteq BOOLEAN
  BY Parts, LifecycleAssumption DEF IInv, Running, Ops, ProcOK
<1>2. SkewLimit \in Nat /\ skew \in 0..SkewLimit
  BY <1>1, LifecycleAssumption DEF ProcOK
<1>3. UNCHANGED <<child, processes, claim>>
  <2>1. CASE Fail(e)
    BY <2>1 DEF Fail
  <2>2. CASE RestartSkewed(e)
    BY <2>2 DEF RestartSkewed, Fail
  <2>3. CASE UseHealthy(e)
    BY <2>3 DEF UseHealthy, RestartSkewed, Fail
  <2> QED BY <2>1, <2>2, <2>3
<1>4. CASE \E result \in Results : Settle(e, result) /\ skew' \in 0..SkewLimit
  <2>1. PICK result \in Results : Settle(e, result) /\ skew' \in 0..SkewLimit
    BY <1>4
  <2>2. target' = 0 /\ handle' = 0 /\ pc' \in {"idle", "probe"}
    BY <2>1 DEF Settle
  <2>3. ProcOK' /\ Known'
    <3>1. 0 \in 0..MaxProcs
      BY <1>1, LifecycleAssumption DEF ProcOK
    <3>2. ProcOK'
      BY <1>1, <1>3, <2>1, <2>2, <3>1 DEF ProcOK, processes, app
    <3>3. Known'
      BY <1>1, <1>3, <2>2, <3>1 DEF Known, processes, Alive
    <3> QED BY <3>2, <3>3
  <2>4. Single'
    BY <1>1, <1>3, <2>2 DEF Single, Stopping, processes, app, Alive
  <2> QED BY <1>1, <2>1, <2>3, <2>4, OpSettles
<1>5. CASE /\ skew' = skew + 1 /\ skew < SkewLimit /\ pc' = "ask" /\ target' = claim
           /\ UNCHANGED <<ops, handle>>
  <2>1. ProcOK' /\ Known'
    BY <1>1, <1>2, <1>3, <1>5 DEF ProcOK, Known, processes, app, Alive
  <2>2. Single' /\ PcOK' /\ OwnPlaces'
    BY <1>1, <1>3, <1>5 DEF Single, Stopping, PcOK, OwnPlaces, processes, app, Alive, ops
  <2> QED BY <1>1, <1>5, <2>1, <2>2, OpGoesOn
<1>6. CASE Fail(e)
  BY <1>2, <1>4, <1>6 DEF Fail, Results
<1>7. CASE RestartSkewed(e)
  BY <1>2, <1>5, <1>6, <1>7 DEF RestartSkewed
<1>8. CASE UseHealthy(e) /\ claim \in Procs /\ ~RestartSkewed(e)
  <2>1. version[claim] \in Results /\ 0 \in 0..SkewLimit
    BY <1>1, <1>2, <1>8 DEF ProcOK, Results
  <2> QED BY <1>4, <1>8, <2>1 DEF UseHealthy
<1> QED BY <1>6, <1>7, <1>8

LEMMA Found ==
  ASSUME IInv, "healthy" \in Verdicts \/ "incompatible" \in Verdicts
  PROVE  claim \in Procs /\ proc[claim] \in {"up", "asked"}
<1>1. claim \in 0..MaxProcs
  BY DEF IInv, TypeOK
<1>2. claim # 0 /\ proc[claim] \in {"up", "asked"}
  BY DEF Verdicts
<1> QED BY <1>1, <1>2, LifecycleAssumption DEF Procs

LEMMA EnsureProbeInv ==
  ASSUME IInv, NEW e \in Ensures, EnsureProbe(e)
  PROVE  IInv'
<1>1. /\ Running(e) /\ pc = "probe" /\ UNCHANGED <<app, beside>> /\ beside' \in BOOLEAN
      /\ ProcOK /\ Known /\ Single /\ chain # <<>> /\ Head(chain) = e /\ e \notin Stops
  BY Parts, LifecycleAssumption DEF EnsureProbe, IInv, TypeOK, Running
<1>2. ~beside' => ~beside /\ (others = 0 => \A p \in Procs : proc[p] # "starting")
  BY <1>1 DEF Single
<1>3. CASE "healthy" \in Verdicts /\ UseHealthy(e)
  BY <1>1, <1>2, <1>3, Found, EnsureAnswers
<1>4. CASE RestartSkewed(e)
  BY <1>1, <1>2, <1>4, EnsureAnswers
<1>5. CASE pc' = "spawn" /\ UNCHANGED <<ops, target, handle, skew, child, processes, claim>>
  <2>1. ProcOK' /\ Known' /\ Single' /\ PcOK' /\ OwnPlaces'
    BY <1>1, <1>5 DEF ProcOK, Known, Single, Stopping, PcOK, OwnPlaces, processes, app, Alive, ops
  <2> QED BY <1>1, <1>5, <2>1, OpGoesOn
<1>6. CASE Fail(e)
  BY <1>1, <1>2, <1>6, EnsureAnswers
<1> QED BY <1>1, <1>3, <1>4, <1>5, <1>6 DEF EnsureProbe

LEMMA SpawnFailsInv ==
  ASSUME IInv, NEW e \in Ensures, SpawnFails(e)
  PROVE  IInv'
<1>1. /\ Running(e) /\ Fail(e) /\ UNCHANGED <<app, beside>> /\ beside' \in BOOLEAN
      /\ pc = "spawn" /\ Single
  BY DEF SpawnFails, IInv, TypeOK
<1>2. ~beside' => ~beside /\ (others = 0 => \A p \in Procs : proc[p] # "starting")
  BY <1>1 DEF Single
<1> QED BY <1>1, <1>2, EnsureAnswers

LEMMA AskSkewedInv ==
  ASSUME IInv, NEW e \in Ensures, AskSkewed(e)
  PROVE  IInv'
<1>1. /\ pc = "ask" /\ pc' = "clear" /\ (Signal(target) \/ UNCHANGED proc) /\ chain # <<>> /\ Head(chain) = e
      /\ ProcOK /\ Known /\ Single /\ OwnPlaces /\ e \notin Stops
      /\ UNCHANGED <<ops, target, handle, skew, child, version, others, claim, app, beside>>
  BY Parts, LifecycleAssumption DEF AskSkewed, IInv, Running
<1>2. /\ proc' \in [Procs -> {"gone", "starting", "up", "asked"}]
      /\ \A p \in Procs : \/ proc'[p] = proc[p]
                          \/ p = target /\ proc[p] \in {"starting", "up"} /\ proc'[p] = "asked"
  BY <1>1 DEF Signal, ProcOK
<1>3. ProcOK'
  BY <1>1, <1>2 DEF ProcOK, app
<1>4. Known'
  BY <1>1, <1>2 DEF Known, Alive, ProcOK, Procs
<1>5. Single'
  BY <1>1, <1>2 DEF Single, Stopping, Alive, app, ops
<1>6. PcOK' /\ OwnPlaces'
  BY <1>1 DEF PcOK, OwnPlaces, ops
<1> QED BY <1>1, <1>3, <1>4, <1>5, <1>6, OpGoesOn

LEMMA ClaimGoneInv ==
  ASSUME IInv, NEW e \in Ensures, ClaimGone(e)
  PROVE  IInv'
<1>1. /\ pc = "clear" /\ pc' = "spawn" /\ target' = 0 /\ chain # <<>> /\ Head(chain) = e
      /\ ProcOK /\ Known /\ Single /\ e \notin Stops /\ 0 \in 0..MaxProcs
      /\ UNCHANGED <<ops, handle, skew, child, processes, claim, app, beside>>
  BY Parts, LifecycleAssumption DEF ClaimGone, IInv, Running
<1>2. ProcOK' /\ Known' /\ Single' /\ PcOK' /\ OwnPlaces'
  BY <1>1 DEF ProcOK, Known, Single, Stopping, PcOK, OwnPlaces, processes, app, Alive, ops
<1> QED BY <1>1, <1>2, OpGoesOn

(* What an ensure spawns is the only process, or it is recorded.           *)
LEMMA SpawnInv ==
  ASSUME IInv, NEW e \in Ensures, Spawn(e)
  PROVE  IInv'
<1>0. PICK n \in Procs : Start(n) /\ child' = n
  BY DEF Spawn
<1>1. /\ pc = "spawn" /\ pc' = "wait" /\ chain # <<>> /\ Head(chain) = e
      /\ ProcOK /\ Known /\ Single /\ PortClosed /\ e \notin Stops
      /\ proc' = [proc EXCEPT ![n] = "starting"]
      /\ child' = n /\ beside' = (beside \/ \E p \in Procs : Alive(p))
      /\ UNCHANGED <<ops, target, handle, skew, version, others, claim, app>>
      /\ chain \in Seq(Ops)
  BY <1>0, Parts, LifecycleAssumption DEF Spawn, Start, IInv, Running, TypeOK
<1>2. n \in Procs /\ n \in 0..MaxProcs /\ n # 0
  BY LifecycleAssumption DEF Procs
<1>3. ProcOK'
  BY <1>1, <1>2 DEF ProcOK, app
<1>4. proc'[n] = "starting" /\ \A p \in Procs \ {n} : proc'[p] = proc[p]
  BY <1>1, <1>2 DEF ProcOK
<1>5. Known'
  BY <1>1, <1>2, <1>4 DEF Known, Alive, Procs
<1>6. ~(handed /\ ~overtaken)
  <2>1. 1 \in Places /\ chain[1] = e
    BY <1>1, Shortened DEF Places
  <2> QED BY <1>1, <2>1 DEF PortClosed
<1>7. Single'
  <2>1. ASSUME ~beside', others = 0
        PROVE  \A p \in Procs \ {n} : proc'[p] \notin {"starting", "up", "asked"}
    BY <1>1, <1>4, <2>1 DEF Alive
  <2> QED BY <1>1, <1>2, <1>4, <1>6, <2>1 DEF Single, Stopping, Alive, app, ops
<1>8. PcOK' /\ OwnPlaces'
  BY <1>1 DEF PcOK, OwnPlaces, ops
<1> QED BY <1>1, <1>3, <1>5, <1>7, <1>8, OpGoesOn

(* The process it waited for is up and claimed, or that is recorded.       *)
LEMMA WaitInv ==
  ASSUME IInv, NEW e \in Ensures, BecomesHealthy(e) \/ GiveUpWaiting(e)
  PROVE  IInv'
<1>1. /\ Running(e) /\ UNCHANGED app /\ ProcOK /\ Known /\ Single
  BY Parts DEF BecomesHealthy, GiveUpWaiting, IInv
<1>2. CASE BecomesHealthy(e)
  <2>1. /\ claim \in Procs /\ proc[claim] \in {"up", "asked"} /\ UseHealthy(e)
        /\ beside' = (beside \/ child \notin {0, claim})
    BY <1>2, Found DEF BecomesHealthy
  <2>2. ~beside' => ~beside /\ (others = 0 => \A p \in Procs : proc[p] # "starting")
    <3>1. ASSUME ~beside' PROVE ~beside /\ child \in {0, claim}
      BY <2>1, <3>1
    <3>2. \A p \in Procs : p # 0
      BY LifecycleAssumption DEF Procs
    <3>3. ASSUME ~beside', others = 0, NEW p \in Procs, proc[p] = "starting" PROVE FALSE
      <4>1. child = p
        BY <1>1, <3>1, <3>3 DEF Single
      <4> QED BY <2>1, <3>1, <3>2, <3>3, <4>1
    <3> QED BY <3>1, <3>3
  <2>3. beside' \in BOOLEAN
    BY <1>1, <2>1 DEF ProcOK
  <2> QED BY <1>1, <2>1, <2>2, <2>3, EnsureAnswers
<1>3. CASE GiveUpWaiting(e)
  <2>1. Fail(e) /\ beside' = (beside \/ child # 0)
    BY <1>3 DEF GiveUpWaiting
  <2>2. ~beside' => ~beside /\ (others = 0 => \A p \in Procs : proc[p] # "starting")
    <3>1. ASSUME ~beside' PROVE ~beside /\ child = 0
      BY <2>1, <3>1
    <3>2. \A p \in Procs : p # 0
      BY LifecycleAssumption DEF Procs
    <3>3. ASSUME ~beside', others = 0, NEW p \in Procs, proc[p] = "starting" PROVE FALSE
      <4>1. child = p
        BY <1>1, <3>1, <3>3 DEF Single
      <4> QED BY <2>1, <3>1, <3>2, <3>3, <4>1
    <3> QED BY <3>1, <3>3
  <2>3. beside' \in BOOLEAN
    BY <1>1, <2>1 DEF ProcOK
  <2> QED BY <1>1, <2>1, <2>2, <2>3, EnsureAnswers
<1> QED BY <1>2, <1>3

(* A stop that goes on has all it needs to know.                           *)
LEMMA StopGoesOn ==
  ASSUME IInv, NEW s \in Stops, Running(s), pc # "idle", pc # "probe"
  PROVE  /\ ProcOK /\ Known /\ Single /\ PcOK /\ chain # <<>> /\ Head(chain) = s /\ s \in Ops
         /\ s \notin Ensures /\ Stopping
         /\ {beside, overtaken, handed, serving} \subseteq BOOLEAN
BY Parts, LifecycleAssumption DEF IInv, Running, Ops, ProcOK, Stopping

(* A stop ends: when it says stopped, what it stopped is gone.             *)
LEMMA StopSettles ==
  ASSUME IInv, NEW s \in Stops, Running(s), NEW result \in {"stopped", "failed"},
         SettleStop(s, result), UNCHANGED <<skew, child, processes, beside>>,
         claim' \in {0, claim},
         ~beside /\ others = 0 =>
           /\ \A p \in Procs : proc[p] # "starting"
           /\ claim' = claim \/ result = "stopped"
           /\ result = "stopped" => \A p \in Procs : ~Alive(p)
  PROVE  IInv'
<1>1. /\ ProcOK /\ Known /\ Single /\ s \in Ops /\ result \in Results
      /\ MaxProcs \in Nat
  BY Parts, LifecycleAssumption DEF IInv, Ops, Results
<1>2. /\ Settle(s, result) /\ target' = 0 /\ handle' = 0 /\ pc' \in {"idle", "probe"}
      /\ overtaken' = overtaken
      /\ handed' = IF s \in Updates THEN result = "stopped" ELSE handed
      /\ serving' = IF s \in Updates /\ result = "failed" THEN TRUE ELSE serving
  BY DEF SettleStop, Settle
<1>3. 0 \in 0..MaxProcs
  BY <1>1 DEF ProcOK
<1>4. handed' \in BOOLEAN /\ serving' \in BOOLEAN
  BY <1>1, <1>2 DEF ProcOK
<1>5. ProcOK'
  BY <1>1, <1>2, <1>3, <1>4 DEF ProcOK, processes
<1>6. Known'
  BY <1>1, <1>2, <1>3 DEF Known, Alive, processes
<1>7. Single'
  <2>1. ASSUME ~beside, others = 0
        PROVE  /\ \A p \in Procs : proc[p] \in {"up", "asked"} => claim' = p
               /\ handed' /\ ~overtaken => \A p \in Procs : ~Alive(p)
    BY <1>1, <1>2, <2>1 DEF Single, Alive
  <2> QED BY <1>1, <1>2, <2>1 DEF Single, Stopping, Alive, processes
<1> QED BY <1>1, <1>2, <1>5, <1>6, <1>7, OpSettles

LEMMA StopProbeInv ==
  ASSUME IInv, NEW s \in Stops, StopProbe(s)
  PROVE  IInv'
<1>1. /\ Running(s) /\ pc = "probe" /\ UNCHANGED <<skew, child, processes, beside>>
      /\ ProcOK /\ Known /\ Single /\ chain # <<>> /\ Head(chain) = s
      /\ s \notin Ensures /\ s \in Ops
  BY Parts, LifecycleAssumption DEF StopProbe, IInv, Running, Ops
<1>2. ~beside /\ others = 0 => \A p \in Procs : proc[p] # "starting"
  BY <1>1 DEF Single
<1>7. CASE SettleStop(s, "failed") /\ UNCHANGED claim
  BY <1>1, <1>2, <1>7, StopSettles
<1>3. CASE "absent" \in Verdicts /\ SettleStop(s, "stopped") /\ UNCHANGED claim
  <2>1. claim = 0
    BY <1>3 DEF Verdicts
  <2>2. ~beside /\ others = 0 => \A p \in Procs : ~Alive(p)
    BY <1>1, <1>2, <2>1, LifecycleAssumption DEF Single, Alive, Procs
  <2> QED BY <1>1, <1>2, <1>3, <2>2, StopSettles
<1>5. CASE "stale" \in Verdicts /\ ~Alive(claim) /\ SettleStop(s, "stopped") /\ claim' = 0
  <2>1. ~beside /\ others = 0 => \A p \in Procs : ~Alive(p)
    BY <1>1, <1>2, <1>5 DEF Single, Alive
  <2> QED BY <1>1, <1>2, <1>5, <2>1, StopSettles
<1>6. CASE /\ "healthy" \in Verdicts \/ "incompatible" \in Verdicts
           /\ target' = claim /\ handle' = child /\ pc' = "ask"
           /\ UNCHANGED <<ops, claim, app>>
  <2>1. claim \in Procs /\ Alive(claim) /\ claim # 0
    BY <1>6, Found, LifecycleAssumption DEF Alive, Procs
  <2>2. ProcOK' /\ Known'
    BY <1>1, <1>6 DEF ProcOK, Known, processes, app, Alive
  <2>3. ~beside /\ others = 0 => child \in {0, claim} /\ \A p \in Procs : Alive(p) => p = claim
    BY <1>1, <2>1 DEF Single, Known, ProcOK, Procs
  <2>4. Single' /\ PcOK' /\ OwnPlaces'
    BY <1>1, <1>6, <2>1, <2>3 DEF Single, Stopping, PcOK, OwnPlaces, processes, app, Alive, ops
  <2> QED BY <1>1, <1>6, <2>2, <2>4, OpGoesOn
<1> QED BY <1>1, <1>3, <1>5, <1>6, <1>7 DEF StopProbe

LEMMA StopAskInv ==
  ASSUME IInv, NEW s \in Stops, StopAsk(s)
  PROVE  IInv'
<1>1. /\ Running(s) /\ pc = "ask" /\ pc' \in {"acked", "term"}
      /\ UNCHANGED <<ops, target, handle, skew, child, version, others, claim, app, beside>>
      /\ UNCHANGED proc \/ (proc[target] = "up" /\ Signal(target))
  BY DEF StopAsk
<1>2. /\ ProcOK /\ Known /\ Single /\ PcOK /\ chain # <<>> /\ Head(chain) = s /\ Stopping
  BY <1>1, StopGoesOn
<1>3. /\ proc' \in [Procs -> {"gone", "starting", "up", "asked"}]
      /\ \A p \in Procs : proc'[p] = proc[p] \/ (proc[p] = "up" /\ proc'[p] = "asked")
  BY <1>1, <1>2 DEF Signal, ProcOK
<1>4. ProcOK' /\ Known'
  BY <1>1, <1>2, <1>3 DEF ProcOK, Known, Alive, app, Procs
<1>5. Single'
  BY <1>1, <1>2, <1>3 DEF Single, Stopping, Alive, app, ops
<1>6. PcOK' /\ OwnPlaces'
  BY <1>1, <1>2 DEF PcOK, OwnPlaces, ops, Stopping
<1> QED BY <1>1, <1>2, <1>4, <1>5, <1>6, OpGoesOn

(* A stop that saw its process exit leaves none behind.                    *)
LEMMA StopExitedInv ==
  ASSUME IInv, NEW s \in Stops, StopExited(s)
  PROVE  IInv'
<1>1. /\ Running(s) /\ pc \in {"acked", "terminated", "killed"} /\ Exited
      /\ claim' \in {0, claim} /\ SettleStop(s, "stopped")
      /\ UNCHANGED <<skew, child, processes, beside>>
  BY DEF StopExited, RemoveClaim
<1>2. ProcOK /\ Single /\ Stopping
  BY <1>1, StopGoesOn
<1>3. ~beside /\ others = 0 => \A p \in Procs : ~Alive(p)
  BY <1>1, <1>2 DEF Single, Exited
<1> QED BY <1>1, <1>3, StopSettles DEF Alive

LEMMA StopTimesOutInv ==
  ASSUME IInv, NEW s \in Stops, StopTimesOut(s)
  PROVE  IInv'
<1>1. /\ Running(s) /\ pc \in {"acked", "terminated", "killed"}
      /\ UNCHANGED <<skew, child, processes, claim, beside>>
  BY DEF StopTimesOut
<1>2. /\ ProcOK /\ Known /\ Single /\ PcOK /\ chain # <<>> /\ Head(chain) = s /\ Stopping
  BY <1>1, StopGoesOn
<1>3. CASE SettleStop(s, "failed")
  <2>1. ~beside /\ others = 0 => \A p \in Procs : proc[p] # "starting"
    BY <1>1, <1>2 DEF Single
  <2> QED BY <1>1, <1>3, <2>1, StopSettles
<1>4. CASE pc' \in {"term", "kill"} /\ UNCHANGED <<ops, target, handle, app>>
  <2>1. ProcOK' /\ Known' /\ Single' /\ PcOK' /\ OwnPlaces'
    BY <1>1, <1>2, <1>4 DEF ProcOK, Known, Single, Stopping, PcOK, OwnPlaces, processes, app, Alive, ops
  <2> QED BY <1>2, <1>4, <2>1, OpGoesOn
<1> QED BY <1>3, <1>4 DEF StopTimesOut

(* A process exits: no other property of it is lost.                       *)
LEMMA ExitKeeps ==
  ASSUME IInv, NEW p \in Procs, Alive(p), Exit(p), claim' \in {0, claim}, claim' # claim => claim = p,
         UNCHANGED <<ops, target, handle, skew, app, beside>>,
         pc' = pc \/ (Stopping /\ pc' = "killed")
  PROVE  ProcOK' /\ Known' /\ Single'
<1>1. /\ ProcOK /\ Known /\ Single /\ MaxProcs \in Nat
      /\ proc' = [proc EXCEPT ![p] = "gone"] /\ version' = [version EXCEPT ![p] = "ours"]
      /\ child' = IF child = p THEN 0 ELSE child
      /\ UNCHANGED others
  BY Parts, LifecycleAssumption DEF IInv, Exit
<1>2. proc'[p] = "gone" /\ \A q \in Procs \ {p} : proc'[q] = proc[q]
  BY <1>1 DEF ProcOK
<1>3. 0 \in 0..MaxProcs /\ child' \in {0, child}
  BY <1>1 DEF ProcOK
<1>4. ProcOK'
  <2>1. proc' \in [Procs -> {"gone", "starting", "up", "asked"}]
    BY <1>1 DEF ProcOK
  <2>2. version' \in [Procs -> Versions]
    BY <1>1 DEF ProcOK, Versions
  <2> QED BY <1>1, <1>3, <2>1, <2>2 DEF ProcOK, app
<1>6. Known'
  BY <1>1, <1>2 DEF Known, Alive, ProcOK, Procs
<1>7. Single'
  BY <1>1, <1>2 DEF Single, Stopping, Alive, app, ops
<1> QED BY <1>4, <1>6, <1>7

LEMMA StopSignalsInv ==
  ASSUME IInv, NEW s \in Stops, StopSignals(s)
  PROVE  IInv'
<1>1. /\ Running(s) /\ pc \in {"term", "kill"} /\ UNCHANGED <<skew, beside>>
  BY DEF StopSignals
<1>2. /\ ProcOK /\ Known /\ Single /\ PcOK /\ chain # <<>> /\ Head(chain) = s /\ Stopping
  BY <1>1, StopGoesOn
<1>3. CASE ~Alive(target)
  <2>1. claim' \in {0, claim} /\ SettleStop(s, "stopped") /\ UNCHANGED <<child, processes>>
    BY <1>3 DEF StopSignals, RemoveClaim
  <2>2. ~beside /\ others = 0 => \A p \in Procs : ~Alive(p)
    BY <1>2, <1>3 DEF Single
  <2> QED BY <1>1, <2>1, <2>2, StopSettles DEF Alive
<1>6. CASE Alive(target) /\ SettleStop(s, "failed") /\ UNCHANGED <<child, processes, claim>>
  <2>1. ~beside /\ others = 0 => \A p \in Procs : proc[p] # "starting"
    BY <1>1, <1>2 DEF Single
  <2> QED BY <1>1, <1>6, <2>1, StopSettles
<1> DEFINE Sent == /\ Alive(target)
                   /\ IF pc = "term" THEN Signal(target) /\ UNCHANGED <<child, version, others>>
                                     ELSE Exit(target)
                   /\ pc' = IF pc = "term" THEN "terminated" ELSE "killed"
                   /\ UNCHANGED <<ops, target, handle, claim, app>>
<1>4. CASE Sent /\ pc = "term"
  <2>1. Signal(target) /\ pc' = "terminated" /\ Alive(target)
        /\ UNCHANGED <<ops, target, handle, claim, app, child, version, others>>
    BY <1>4
  <2>2. /\ proc' \in [Procs -> {"gone", "starting", "up", "asked"}]
        /\ \A p \in Procs : \/ proc'[p] = proc[p]
                            \/ p = target /\ proc[p] \in {"starting", "up"} /\ proc'[p] = "asked"
    BY <1>2, <2>1 DEF Signal, ProcOK
  <2>3. ProcOK' /\ Known'
    BY <1>1, <1>2, <2>1, <2>2 DEF ProcOK, Known, Alive, app, Procs
  <2>4. Single'
    BY <1>1, <1>2, <1>4, <2>1, <2>2 DEF Single, Stopping, Alive, app, ops
  <2>5. PcOK' /\ OwnPlaces'
    BY <1>2, <2>1 DEF PcOK, OwnPlaces, ops, Stopping
  <2> QED BY <1>2, <2>1, <2>3, <2>4, <2>5, OpGoesOn
<1>5. CASE Sent /\ pc = "kill"
  <2>1. Exit(target) /\ pc' = "killed" /\ UNCHANGED <<ops, target, handle, claim, app>> /\ Alive(target)
    BY <1>5
  <2>2. target \in Procs
    BY <1>2 DEF Single, ProcOK, Procs
  <2>3. ProcOK' /\ Known' /\ Single'
    BY <1>1, <1>2, <1>5, <2>1, <2>2, ExitKeeps
  <2>4. PcOK' /\ OwnPlaces'
    BY <1>2, <2>1 DEF PcOK, OwnPlaces, ops, Stopping
  <2> QED BY <1>2, <2>1, <2>3, <2>4, OpGoesOn
<1> QED BY <1>1, <1>3, <1>4, <1>5, <1>6 DEF StopSignals

-----------------------------------------------------------------------------
(* The daemon processes and other launchers.                               *)

LEMMA DaemonStep ==
  ASSUME IInv, UNCHANGED <<ops, app, pc>>, ProcOK', Known', Single'
  PROVE  IInv'
<1>1. OpsOK /\ Calls /\ OneUpdate /\ PortClosed /\ ServesAgain /\ PcOK /\ Chained /\ OwnPlaces
  BY Parts DEF IInv
<1>2. OpsOK' /\ Calls' /\ OneUpdate' /\ PortClosed' /\ ServesAgain'
  BY <1>1 DEF ops, app, OpsOK, Calls, OneUpdate, PortClosed, Preparing, Places, ServesAgain
<1>3. PcOK' /\ Chained' /\ OwnPlaces'
  BY <1>1 DEF ops, PcOK, Chained, OwnPlaces
<1>4. TypeOK'
  BY <1>2, <1>3 DEF TypeOK, OpsOK, PcOK, Chained, ProcOK
<1> QED BY <1>2, <1>3, <1>4 DEF IInv

LEMMA ComesUpInv ==
  ASSUME IInv, NEW p \in Procs, ComesUp(p)
  PROVE  IInv'
<1>1. /\ ProcOK /\ Known /\ Single /\ MaxProcs \in Nat
      /\ proc[p] = "starting" /\ proc' = [proc EXCEPT ![p] = "up"] /\ claim' = p
      /\ UNCHANGED <<ops, run, child, version, others, app, beside>>
  BY Parts, LifecycleAssumption DEF IInv, ComesUp
<1>2. proc'[p] = "up" /\ \A q \in Procs \ {p} : proc'[q] = proc[q]
  BY <1>1 DEF ProcOK
<1>3. p \in 0..MaxProcs
  BY <1>1 DEF Procs
<1>4. ProcOK'
  <2>1. proc' \in [Procs -> {"gone", "starting", "up", "asked"}]
    BY <1>1 DEF ProcOK
  <2> QED BY <1>1, <1>3, <2>1 DEF ProcOK, app, run
<1>5. Known'
  BY <1>1, <1>2, <1>3 DEF Known, Alive, run, ProcOK, Procs
<1>6. Single'
  BY <1>1, <1>2 DEF Single, Stopping, Alive, app, ops, run
<1> QED BY <1>1, <1>4, <1>5, <1>6, DaemonStep DEF run

LEMMA ExitInv ==
  ASSUME IInv, NEW p \in Procs, ShutsDown(p) \/ Crashes(p)
  PROVE  IInv'
<1>1. /\ Exit(p) /\ claim' \in {0, claim} /\ (claim' # claim => claim = p)
      /\ UNCHANGED <<ops, run, app, beside>> /\ Alive(p)
  BY DEF ShutsDown, Crashes, RemoveClaim, Alive
<1>2. ProcOK' /\ Known' /\ Single'
  BY <1>1, ExitKeeps DEF run
<1> QED BY <1>1, <1>2, DaemonStep DEF run

LEMMA OtherLauncherInv ==
  ASSUME IInv, NEW v \in Versions, OtherLauncher(v)
  PROVE  IInv'
<1>0. PICK n \in Procs : Start(n) /\ version' = [version EXCEPT ![n] = v]
  BY DEF OtherLauncher
<1>1. /\ ProcOK /\ Known /\ MaxProcs \in Nat /\ MaxOthers \in Nat
      /\ others < MaxOthers /\ others' = others + 1
      /\ proc' = [proc EXCEPT ![n] = "starting"]
      /\ version' = [version EXCEPT ![n] = v]
      /\ UNCHANGED <<ops, run, child, claim, app, beside>>
  BY <1>0, Parts, LifecycleAssumption DEF IInv, OtherLauncher, Start
<1>2. others' # 0
  BY <1>1 DEF ProcOK, Procs
<1>3. proc'[n] = "starting" /\ \A q \in Procs \ {n} : proc'[q] = proc[q]
  BY <1>1, <1>2 DEF ProcOK
<1>4. ProcOK'
  <2>1. proc' \in [Procs -> {"gone", "starting", "up", "asked"}]
    BY <1>1 DEF ProcOK
  <2>2. version' \in [Procs -> Versions]
    BY <1>1 DEF ProcOK
  <2> QED BY <1>1, <1>2, <2>1, <2>2 DEF ProcOK, app, run
<1>5. Known'
  BY <1>1, <1>2, <1>3 DEF Known, Alive, run, ProcOK, Procs
<1>6. Single'
  BY <1>1, <1>2 DEF Single, Stopping, ops, run, IInv
<1> QED BY <1>1, <1>4, <1>5, <1>6, DaemonStep DEF run

-----------------------------------------------------------------------------
(* Every step.                                                             *)

LEMMA InitInv == Init => IInv
<1> SUFFICES ASSUME Init PROVE IInv
  OBVIOUS
<1>1. /\ chain = <<>> /\ Places = {} /\ MaxProcs \in Nat \ {0} /\ SkewLimit \in Nat /\ MaxOthers \in Nat
      /\ claim \in 0..1
  BY LifecycleAssumption DEF Init, Places
<1>2. OpsOK /\ Calls /\ OneUpdate
  BY <1>1, LifecycleAssumption DEF Init, OpsOK, Calls, OneUpdate, Ops
<1>3. PortClosed /\ ServesAgain
  BY <1>1, LifecycleAssumption DEF Init, PortClosed, ServesAgain, Preparing, Ops
<1>4. PcOK /\ Chained /\ OwnPlaces
  BY <1>1 DEF Init, PcOK, Chained, OwnPlaces
<1>5. ProcOK
  <2>1. claim \in 0..MaxProcs /\ 0 \in 0..MaxProcs /\ 0 \in 0..SkewLimit /\ 0 \in 0..MaxOthers
    BY <1>1
  <2>2. proc \in [Procs -> {"gone", "starting", "up", "asked"}]
    BY DEF Init
  <2>3. version \in [Procs -> Versions]
    BY DEF Init, Versions
  <2> QED BY <2>1, <2>2, <2>3 DEF Init, ProcOK
<1>6. Known
  BY <1>1 DEF Init, Known, Procs
<1>7. Single
  BY <1>1 DEF Init, Single, Stopping, Alive, Procs
<1>8. TypeOK
  BY <1>2, <1>4, <1>5, Parts
<1> QED BY <1>2, <1>3, <1>4, <1>6, <1>7, <1>8 DEF IInv

LEMMA StutterInv == IInv /\ UNCHANGED vars => IInv'
<1> SUFFICES ASSUME IInv, UNCHANGED vars PROVE IInv'
  OBVIOUS
<1>1. UNCHANGED <<ops, app, pc>> /\ ProcOK /\ Known /\ Single
  BY Parts DEF IInv, vars, run
<1>2. ProcOK' /\ Known' /\ Single'
  BY <1>1 DEF vars, ops, app, run, processes, ProcOK, Known, Single, Stopping, Alive
<1> QED BY <1>1, <1>2, DaemonStep

LEMMA StepInv == IInv /\ Next => IInv'
<1> SUFFICES ASSUME IInv, Next PROVE IInv'
  OBVIOUS
<1>1. ASSUME Shell PROVE IInv'
  BY <1>1, AskPortInv, StopInv DEF Shell
<1>2. ASSUME NEW e \in Ensures, EnsureStep(e) PROVE IInv'
  BY <1>2, EnsureProbeInv, AskSkewedInv, ClaimGoneInv, SpawnInv, SpawnFailsInv, WaitInv DEF EnsureStep
<1>3. ASSUME NEW s \in Stops, StopStep(s) PROVE IInv'
  BY <1>3, StopProbeInv, StopAskInv, StopExitedInv, StopTimesOutInv, StopSignalsInv DEF StopStep
<1>4. ASSUME Daemons PROVE IInv'
  BY <1>4, ComesUpInv, ExitInv, OtherLauncherInv DEF Daemons
<1> QED BY <1>1, <1>2, <1>3, <1>4 DEF Next, RunOp

-----------------------------------------------------------------------------
(* The theorems.                                                           *)

(* Every reachable state satisfies the inductive invariant.                *)
THEOREM LifecycleInductive == Spec => []IInv
<1>1. Init => IInv
  BY InitInv
<1>2. IInv /\ [Next]_vars => IInv'
  BY StepInv, StutterInv
<1> QED BY <1>1, <1>2, PTL DEF Spec

(* daemon-supervisor.ts's state keeps its types, and no call folds onto an *)
(* ensure that has settled.                                                *)
THEOREM TypeCorrect == Spec => []TypeOK
<1>1. IInv => TypeOK
  BY DEF IInv
<1> QED BY <1>1, LifecycleInductive, PTL

(* An installer that is told to go on finds no daemon running, but for the *)
(* histories the property names.                                           *)
THEOREM InstallerFindsNone == Spec => []InstallerSafe
<1>1. IInv => InstallerSafe
  BY DEF IInv, Single, InstallerSafe
<1> QED BY <1>1, LifecycleInductive, PTL

(* Windows are refused the port only while a stop runs, an update is       *)
(* applied or the app quits.                                               *)
THEOREM PortComesBack == Spec => []ServesAgain
<1>1. IInv => ServesAgain
  BY DEF IInv
<1> QED BY <1>1, LifecycleInductive, PTL
=============================================================================
