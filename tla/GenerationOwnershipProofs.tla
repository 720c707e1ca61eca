----------------------- MODULE GenerationOwnershipProofs -----------------------
(***************************************************************************)
(* GenerationOwnership for every number of sessions, lenses, runs and      *)
(* crashes: its type invariant, that a generation's document changes only  *)
(* by claims and by the attempt it holds, that the predecessor a round     *)
(* freezes is the document it read, and that a round that returned left a  *)
(* generation a reader can open.                                           *)
(***************************************************************************)
EXTENDS GenerationOwnership, TLAPS

-----------------------------------------------------------------------------
(* The inductive invariant.                                                *)

(* A run that waits is in its session's queue.                             *)
Queued ==
  /\ tail \in [Sessions -> Seq(Runs)]
  /\ prior \in [Runs -> [doc : Generation, rev : Nat]]
  /\ seen \in [Runs -> Nat] /\ pred \in [Runs -> Nat]
  /\ \A r \in Runs : pc[r] = "waiting" =>
       \E i \in 1..Len(tail[Of(r)]) : tail[Of(r)][i] = r

(* Slots k are those of session s: of a board, a run or the round.         *)
Has(s, k) ==
  \/ plan[s] = k
  \/ \E m \in metas[s] : m.slots = k
  \/ \E r \in Runs : Of(r) = s /\ own[r].slots = k

(* No two sessions have slots in common, and those to come are new.        *)
Apart ==
  \A s \in Sessions, k \in Nat \ {0} : Has(s, k) =>
    k <= started /\ \A t \in Sessions \ {s} : ~Has(t, k)

(* A run has its slots; until it claims its generation it has settled      *)
(* nothing.                                                                *)
Claiming(r) ==
  /\ pc[r] # "idle" => own[r].slots # 0
  /\ pc[r] \in {"clear", "claim"} => own[r].drafting /\ own[r].lanes = Unsettled

(* While the revision is the one it read, a run writes over its attempt.   *)
Reading(r) ==
  seen[r] # 0 =>
    /\ pc[r] \in Saving
    /\ rev[gen[r]] = seen[r] => SameDraftingAttempt(doc[gen[r]], own[r])

(* What the document of a run's attempt has settled, the run has settled.  *)
Agrees(d, o) == \A l \in Lenses : d.lanes[l] # "none" => o.lanes[l] = d.lanes[l]

Revealing(r) ==
  pc[r] \in {"report", "draft", "reveal"} /\ SameDraftingAttempt(doc[gen[r]], own[r])
    => Agrees(doc[gen[r]], own[r])

(* While the predecessor's revision is the one a round took, it is the     *)
(* document the round read.                                                *)
Preceding(r) ==
  pred[r] # 0 =>
    /\ pc[r] \in {"reject", "file", "freeze", "record", "return"}
    /\ pred[r] = rev[First] => doc[First] = prior[r].doc

RunInv(r) == Claiming(r) /\ Reading(r) /\ Revealing(r) /\ Preceding(r)

IInv == TypeOK /\ Queued /\ Apart /\ \A r \in Runs : RunInv(r)

-----------------------------------------------------------------------------
(* Data.                                                                   *)

LEMMA Domains ==
  /\ \A r \in Runs : Of(r) \in Sessions
  /\ Sessions \subseteq Gens /\ First \in Gens
  /\ MaxRuns \in Nat /\ MaxCrashes \in Nat
  /\ Core \subseteq Lenses /\ Boarded \subseteq Core
BY OwnershipAssumption DEF Runs, Of, Gens

LEMMA MintTyped ==
  MintGeneration \in Generation /\ MintGeneration.slots = 0 /\ Unsettled \in Lanes
BY Domains DEF MintGeneration, Generation, Unsettled, Lanes

(* A complete generation's slots are the session's.                        *)
LEMMA CompleteHas ==
  ASSUME NEW s, NEW g, NEW d, NEW round, Complete(s, g, d, round)
  PROVE  d.slots # 0 /\ \E m \in metas[s] : m.slots = d.slots
<1>1. PICK l \in Lenses : HasBoard(s, g, d, l)
  BY DEF Complete
<1> QED BY <1>1 DEF HasBoard, Names, Meta

LEMMA ReconstructedTyped ==
  ASSUME NEW s, NEW g, NEW d \in Generation
  PROVE  Reconstructed(s, g, d) \in Generation /\ Reconstructed(s, g, d).slots = d.slots
<1> DEFINE L == [l \in Lenses |->
     IF d.lanes[l] = "none" /\ HasBoard(s, g, d, l) THEN "board" ELSE d.lanes[l]]
<1>1. L \in Lanes
  BY DEF Generation, Lanes
<1>2. Reconstructed(s, g, d) = [d EXCEPT !.lanes = L]
  BY DEF Reconstructed
<1> HIDE DEF L
<1> QED BY <1>1, <1>2 DEF Generation

LEMMA AttemptTyped ==
  ASSUME NEW r \in Runs, NEW d \in Generation, own[r] \in Generation
  PROVE  /\ Attempt(r, d) \in Generation
         /\ Attempt(r, d).slots = own[r].slots
         /\ Attempt(r, d).drafting /\ Attempt(r, d).lanes = Unsettled
BY MintTyped DEF Attempt, Generation

-----------------------------------------------------------------------------
(* What a step leaves of the invariant.                                    *)

Others(r) == \A q \in Runs \ {r} :
  /\ pc'[q] = pc[q] /\ gen'[q] = gen[q] /\ prior'[q] = prior[q]
  /\ own'[q] = own[q] /\ seen'[q] = seen[q] /\ pred'[q] = pred[q]

OneRuns == \A s \in Sessions : \A r \in Runs : Of(r) = s =>
  (pc[r] \notin {"idle", "waiting"} => tail[s] # <<>> /\ Head(tail[s]) = r)

Past(r) == pc[r] \notin {"idle", "waiting"}

(* Two runs past their queues are of two sessions.                         *)
LEMMA PastApart ==
  ASSUME IInv, NEW q \in Runs, NEW r \in Runs, q # r, Past(q), Past(r)
  PROVE  Of(q) # Of(r)
BY Domains DEF IInv, TypeOK, Past

LEMMA SlotsApart ==
  ASSUME IInv, NEW q \in Runs, NEW r \in Runs, q # r, Past(q), Past(r)
  PROVE  own[q].slots # own[r].slots
<1>1. own[q].slots # 0 /\ own[q].slots \in Nat \ {0}
  BY Domains DEF IInv, RunInv, Claiming, Past, TypeOK, Generation
<1>2. Of(q) # Of(r) /\ Of(q) \in Sessions /\ Of(r) \in Sessions
  BY PastApart, Domains
<1>3. Has(Of(q), own[q].slots) /\ Has(Of(r), own[r].slots)
  BY DEF Has
<1> QED BY <1>1, <1>2, <1>3 DEF IInv, Apart

LEMMA OthersHeld ==
  ASSUME IInv, NEW r \in Runs, Others(r), UNCHANGED store
  PROVE  \A q \in Runs \ {r} : RunInv(q)'
BY DEF IInv, Others, store, RunInv, Claiming, Reading, Revealing, Preceding

LEMMA Saved ==
  ASSUME IInv, NEW g \in Gens, NEW d \in Generation, Save(g, d)
  PROVE  /\ doc' \in [Gens -> Generation] /\ rev' \in [Gens -> Nat]
         /\ doc'[g] = d /\ rev'[g] = rev[g] + 1 /\ rev'[g] \in Nat
         /\ \A h \in Gens : rev'[h] \in Nat /\ rev[h] \in Nat /\ rev'[h] >= rev[h]
         /\ \A h \in Gens \ {g} : doc'[h] = doc[h] /\ rev'[h] = rev[h]
BY DEF IInv, TypeOK, Save

(* A run that writes its attempt disturbs no other run.                    *)
LEMMA OthersWritten ==
  ASSUME IInv, NEW r \in Runs, NEW g \in Gens, NEW d \in Generation,
         Others(r), Save(g, d), Past(r), d.slots = own[r].slots
  PROVE  \A q \in Runs \ {r} : RunInv(q)'
<1> SUFFICES ASSUME NEW q \in Runs \ {r} PROVE RunInv(q)'
  OBVIOUS
<1>0. RunInv(q) /\ gen[q] \in Gens /\ seen[q] \in 0..rev[gen[q]] /\ pred[q] \in 0..rev[First]
  BY DEF IInv, TypeOK
<1>1. Claiming(q)'
  BY <1>0 DEF Others, RunInv, Claiming
<1>2. Reading(q)'
  <2>1. CASE gen[q] = g
    BY <2>1, <1>0, Saved DEF Others, RunInv, Reading
  <2>2. CASE gen[q] # g
    BY <2>2, <1>0, Saved DEF Others, RunInv, Reading
  <2> QED BY <2>1, <2>2
<1>3. Revealing(q)'
  <2>1. CASE gen[q] = g
    BY <2>1, <1>0, Saved, SlotsApart DEF Others, Revealing, SameDraftingAttempt, Past
  <2>2. CASE gen[q] # g
    BY <2>2, <1>0, Saved DEF Others, RunInv, Revealing
  <2> QED BY <2>1, <2>2
<1>4. Preceding(q)'
  <2>1. CASE First = g
    BY <2>1, <1>0, Saved DEF Others, RunInv, Preceding
  <2>2. CASE First # g
    BY <2>2, <1>0, Saved, Domains DEF Others, RunInv, Preceding
  <2> QED BY <2>1, <2>2
<1> QED BY <1>1, <1>2, <1>3, <1>4 DEF RunInv

(* Freezing changes no attempt.                                            *)
LEMMA OthersFrozen ==
  ASSUME IInv, NEW r \in Runs, Others(r),
         Save(First, [doc[First] EXCEPT !.frozen = TRUE])
  PROVE  \A q \in Runs \ {r} : RunInv(q)'
<1> DEFINE d == [doc[First] EXCEPT !.frozen = TRUE]
<1>0. doc[First] \in Generation /\ First \in Gens
  BY Domains DEF IInv, TypeOK
<1>1. /\ d \in Generation /\ d.slots = doc[First].slots
      /\ d.drafting = doc[First].drafting /\ d.lanes = doc[First].lanes
  BY <1>0 DEF Generation
<1>2. Save(First, d)
  OBVIOUS
<1> HIDE DEF d
<1> SUFFICES ASSUME NEW q \in Runs \ {r} PROVE RunInv(q)'
  OBVIOUS
<1>3. RunInv(q) /\ gen[q] \in Gens /\ seen[q] \in 0..rev[gen[q]] /\ pred[q] \in 0..rev[First]
  BY DEF IInv, TypeOK
<1>4. Claiming(q)'
  BY <1>3 DEF Others, RunInv, Claiming
<1>5. Reading(q)'
  <2>1. CASE gen[q] = First
    BY <2>1, <1>0, <1>1, <1>2, <1>3, Saved DEF Others, RunInv, Reading
  <2>2. CASE gen[q] # First
    BY <2>2, <1>0, <1>1, <1>2, <1>3, Saved DEF Others, RunInv, Reading
  <2> QED BY <2>1, <2>2
<1>6. Revealing(q)'
  <2>1. CASE gen[q] = First
    BY <2>1, <1>0, <1>1, <1>2, <1>3, Saved
    DEF Others, RunInv, Revealing, SameDraftingAttempt, Agrees
  <2>2. CASE gen[q] # First
    BY <2>2, <1>0, <1>1, <1>2, <1>3, Saved DEF Others, RunInv, Revealing
  <2> QED BY <2>1, <2>2
<1>7. Preceding(q)'
  BY <1>0, <1>1, <1>2, <1>3, Saved DEF Others, RunInv, Preceding
<1> QED BY <1>4, <1>5, <1>6, <1>7 DEF RunInv

LEMMA ApartHeld ==
  ASSUME IInv, started' = started,
         \A s \in Sessions, k \in Nat \ {0} : Has(s, k)' => Has(s, k)
  PROVE  Apart'
BY DEF IInv, Apart

(* No slots but those of runs that go on or end.                           *)
LEMMA RunsApart ==
  ASSUME IInv, UNCHANGED <<metas, plan, started>>,
         \A q \in Runs : own'[q].slots \in {own[q].slots, 0}
  PROVE  Apart'
<1>1. \A s \in Sessions, k \in Nat \ {0} : Has(s, k)' => Has(s, k)
  BY DEF Has
<1> QED BY <1>1, ApartHeld

(* Boards come with their run's slots.                                     *)
LEMMA BoardsApart ==
  ASSUME IInv, NEW r \in Runs, UNCHANGED <<plan, started>>,
         \A q \in Runs : own'[q].slots = own[q].slots,
         \A s \in Sessions : \A m \in metas'[s] :
           m \in metas[s] \/ (s = Of(r) /\ m.slots = own[r].slots)
  PROVE  Apart'
<1>1. \A s \in Sessions, k \in Nat \ {0} : Has(s, k)' => Has(s, k)
  BY DEF Has
<1> QED BY <1>1, ApartHeld

LEMMA QueueHeld ==
  ASSUME IInv, UNCHANGED tail, prior' \in [Runs -> [doc : Generation, rev : Nat]],
         seen' \in [Runs -> Nat], pred' \in [Runs -> Nat],
         \A q \in Runs : pc'[q] = "waiting" => pc[q] = "waiting"
  PROVE  Queued'
BY DEF IInv, Queued

LEMMA OneHeld ==
  ASSUME IInv, UNCHANGED tail, NEW r \in Runs,
         tail[Of(r)] # <<>> /\ Head(tail[Of(r)]) = r,
         \A q \in Runs \ {r} : pc'[q] = pc[q]
  PROVE  OneRuns'
BY Domains DEF IInv, TypeOK, OneRuns

(* The types, one run having moved.                                        *)
LEMMA TypeKept ==
  ASSUME IInv, NEW r \in Runs, Others(r), OneRuns',
         doc' \in [Gens -> Generation] /\ rev' \in [Gens -> Nat],
         \A g \in Gens : rev'[g] >= rev[g],
         pc' \in [Runs -> Places] /\ gen' \in [Runs -> Gens],
         own' \in [Runs -> Generation] /\ over' \in [Runs -> BOOLEAN],
         seen'[r] \in 0..rev'[gen'[r]] /\ pred'[r] \in 0..rev'[First],
         metas' = metas \/ \A s \in Sessions : metas'[s] \subseteq
           [gen : Gens, lens : Lenses \cup {"report"}, slots : 1..MaxRuns],
         ledger' \in [Sessions -> [filed : BOOLEAN, returned : BOOLEAN]],
         plan' \in [Sessions -> 0..MaxRuns],
         started' \in 0..MaxRuns /\ crashes' = crashes
  PROVE  TypeOK'
<1>1. \A s \in Sessions : metas'[s] \subseteq
        [gen : Gens, lens : Lenses \cup {"report"}, slots : 1..MaxRuns]
  BY DEF IInv, TypeOK
<1>2. \A q \in Runs : seen'[q] \in 0..rev'[gen'[q]] /\ pred'[q] \in 0..rev'[First]
  <2> SUFFICES ASSUME NEW q \in Runs, q # r
      PROVE seen'[q] \in 0..rev'[gen'[q]] /\ pred'[q] \in 0..rev'[First]
    OBVIOUS
  <2>1. /\ gen[q] \in Gens /\ First \in Gens /\ seen[q] \in 0..rev[gen[q]]
        /\ pred[q] \in 0..rev[First] /\ rev \in [Gens -> Nat]
    BY Domains DEF IInv, TypeOK
  <2>2. gen'[q] = gen[q] /\ seen'[q] = seen[q] /\ pred'[q] = pred[q]
    BY DEF Others
  <2> QED BY <2>1, <2>2
<1>3. crashes' \in 0..MaxCrashes
  BY DEF IInv, TypeOK
<1> QED BY <1>1, <1>2, <1>3 DEF TypeOK, OneRuns

LEMMA Gathered ==
  ASSUME TypeOK', Queued', Apart', NEW r \in Runs,
         RunInv(r)', \A q \in Runs \ {r} : RunInv(q)'
  PROVE  IInv'
BY DEF IInv

-----------------------------------------------------------------------------
(* Initially.                                                              *)

LEMMA InitInv == Init => IInv
<1> SUFFICES ASSUME Init PROVE IInv
  OBVIOUS
<1>1. TypeOK
  <2>1. doc \in [Gens -> Generation] /\ own \in [Runs -> Generation]
    BY MintTyped DEF Init
  <2>2. plan \in [Sessions -> 0..MaxRuns] /\ started \in 0..MaxRuns /\ crashes \in 0..MaxCrashes
    BY Domains DEF Init
  <2>3. pc \in [Runs -> Places] /\ gen \in [Runs -> Gens] /\ over \in [Runs -> BOOLEAN]
    BY Domains DEF Init, Places
  <2>4. \A r \in Runs : seen[r] \in 0..rev[gen[r]] /\ pred[r] \in 0..rev[First]
    BY Domains DEF Init
  <2>5. ledger \in [Sessions -> [filed : BOOLEAN, returned : BOOLEAN]]
    BY DEF Init, Unfiled
  <2> QED BY <2>1, <2>2, <2>3, <2>4, <2>5 DEF Init, TypeOK
<1>2. Queued
  BY MintTyped DEF Init, Queued, Unread
<1>3. Apart
  BY MintTyped DEF Init, Apart, Has
<1>4. \A r \in Runs : RunInv(r)
  BY DEF Init, RunInv, Claiming, Reading, Revealing, Preceding
<1> QED BY <1>1, <1>2, <1>3, <1>4 DEF IInv

-----------------------------------------------------------------------------
(* Entering.                                                               *)

LEMMA StartInv ==
  ASSUME IInv, NEW r \in Runs, Start(r)
  PROVE  IInv'
<1> DEFINE s == Of(r)
           g == IF IsRound(r) THEN First ELSE Current(s)
           k == IF IsRound(r) THEN plan'[s] ELSE started + 1
<1>0. s \in Sessions /\ started \in Nat /\ started + 1 \in 1..MaxRuns /\ g \in Gens
  BY Domains DEF IInv, TypeOK, Start, Current
<1>1. /\ plan' = [plan EXCEPT ![s] = IF IsRound(r) /\ @ = 0 THEN started + 1 ELSE @]
      /\ prior' = [prior EXCEPT ![r] = [doc |-> doc[g], rev |-> rev[g]]]
      /\ gen' = [gen EXCEPT ![r] = IF IsRound(r) THEN s ELSE g]
      /\ own' = [own EXCEPT ![r].slots = k]
      /\ tail' = [tail EXCEPT ![s] = Append(@, r)]
      /\ pc' = [pc EXCEPT ![r] = "waiting"] /\ pc[r] = "idle"
      /\ started' = started + 1
      /\ UNCHANGED <<store, metas, ledger, over, seen, pred, crashes>>
  BY DEF Start, Goto
<1>2. plan' \in [Sessions -> 0..MaxRuns] /\ (IsRound(r) => plan'[s] # 0)
  <2>1. plan \in [Sessions -> 0..MaxRuns] /\ started + 1 \in 0..MaxRuns /\ started + 1 # 0
    BY <1>0, Domains DEF IInv, TypeOK
  <2>2. CASE IsRound(r) /\ plan[s] = 0
    BY <2>1, <2>2, <1>0, <1>1
  <2>3. CASE ~(IsRound(r) /\ plan[s] = 0)
    BY <2>1, <2>3, <1>0, <1>1
  <2> QED BY <2>2, <2>3
<1>3. k \in 1..MaxRuns
  BY <1>0, <1>2, Domains
<1>4. plan'[s] \in {plan[s], started + 1} /\ \A t \in Sessions \ {s} : plan'[t] = plan[t]
  BY <1>0, <1>1 DEF IInv, TypeOK
<1> HIDE DEF g, k
<1>5. own \in [Runs -> Generation] /\ own'[r] = [own[r] EXCEPT !.slots = k]
  BY <1>1 DEF IInv, TypeOK
<1>6. own' \in [Runs -> Generation] /\ own'[r].slots = k
  <2>1. [own[r] EXCEPT !.slots = k] \in Generation /\ [own[r] EXCEPT !.slots = k].slots = k
    BY <1>3, <1>5, Domains DEF Generation
  <2> QED BY <2>1, <1>1, <1>5
<1>7. seen[r] = 0 /\ pred[r] = 0
  BY <1>1 DEF IInv, RunInv, Reading, Preceding, Saving
<1>8. Others(r)
  BY <1>1, <1>5 DEF Others, IInv, TypeOK, Queued
<1>9. RunInv(r)'
  <2>1. pc'[r] = "waiting" /\ seen'[r] = 0 /\ pred'[r] = 0 /\ own'[r].slots # 0
    BY <1>1, <1>3, <1>6, <1>7, Domains DEF IInv, TypeOK
  <2> QED BY <2>1 DEF RunInv, Claiming, Reading, Revealing, Preceding, Saving
<1>10. Queued'
  <2>1. tail[s] \in Seq(Runs) /\ tail' \in [Sessions -> Seq(Runs)]
    BY <1>0, <1>1 DEF IInv, Queued
  <2>2. prior' \in [Runs -> [doc : Generation, rev : Nat]]
    BY <1>0, <1>1 DEF IInv, Queued, TypeOK
  <2>3. ASSUME NEW q \in Runs, pc'[q] = "waiting"
        PROVE  \E i \in 1..Len(tail'[Of(q)]) : tail'[Of(q)][i] = q
    <3>1. CASE q = r
      <4>1. tail'[s] = Append(tail[s], r) /\ Len(tail'[s]) = Len(tail[s]) + 1 /\ Len(tail[s]) \in Nat
        BY <2>1, <1>0, <1>1 DEF IInv, Queued
      <4>2. tail'[s][Len(tail[s]) + 1] = r
        BY <4>1, <2>1
      <4> QED BY <3>1, <4>1, <4>2
    <3>2. CASE q # r
      <4>1. pc[q] = "waiting"
        BY <3>2, <2>3, <1>8 DEF Others
      <4>2. PICK i \in 1..Len(tail[Of(q)]) : tail[Of(q)][i] = q
        BY <4>1 DEF IInv, Queued
      <4>3. CASE Of(q) = s
        <5>1. tail'[s] = Append(tail[s], r)
          BY <1>0, <1>1 DEF IInv, Queued
        <5>2. i \in 1..Len(Append(tail[s], r)) /\ Append(tail[s], r)[i] = tail[s][i]
          BY <4>2, <4>3, <2>1
        <5> QED BY <5>1, <5>2, <4>2, <4>3
      <4>4. CASE Of(q) # s
        BY <4>2, <4>4, <1>1, Domains DEF IInv, Queued
      <4> QED BY <4>3, <4>4
    <3> QED BY <3>1, <3>2
  <2>4. seen' \in [Runs -> Nat] /\ pred' \in [Runs -> Nat]
    BY <1>1 DEF IInv, Queued
  <2> QED BY <2>1, <2>2, <2>3, <2>4 DEF Queued
<1>11. OneRuns'
  <2> SUFFICES ASSUME NEW q \in Runs, pc'[q] \notin {"idle", "waiting"}
      PROVE tail'[Of(q)] # <<>> /\ Head(tail'[Of(q)]) = q
    BY DEF OneRuns
  <2>1. q # r /\ pc[q] = pc'[q]
    BY <1>1, <1>8 DEF Others, IInv, TypeOK
  <2>2. tail[Of(q)] # <<>> /\ Head(tail[Of(q)]) = q /\ Of(q) \in Sessions
    BY <2>1, Domains DEF IInv, TypeOK
  <2>3. CASE Of(q) = s
    <3>1. tail'[s] = Append(tail[s], r) /\ tail[s] \in Seq(Runs)
      BY <1>0, <1>1 DEF IInv, Queued
    <3>2. Append(tail[s], r) # <<>> /\ Head(Append(tail[s], r)) = Head(tail[s])
      BY <2>2, <2>3, <3>1
    <3> QED BY <3>1, <3>2, <2>2, <2>3
  <2>4. CASE Of(q) # s
    BY <2>2, <2>4, <1>1 DEF IInv, Queued
  <2> QED BY <2>3, <2>4
<1>12. TypeOK'
  <2>1. pc' \in [Runs -> Places] /\ gen' \in [Runs -> Gens]
    BY <1>0, <1>1, Domains DEF IInv, TypeOK, Places
  <2>2. /\ doc' = doc /\ rev' = rev /\ metas' = metas /\ ledger' = ledger /\ over' = over
        /\ crashes' = crashes /\ started' \in 0..MaxRuns /\ seen'[r] = 0 /\ pred'[r] = 0
    BY <1>0, <1>1, <1>7, Domains DEF store
  <2>3. \A h \in Gens : rev'[h] \in Nat /\ rev'[h] >= rev[h]
    BY <2>2 DEF IInv, TypeOK
  <2>4. seen'[r] \in 0..rev'[gen'[r]] /\ pred'[r] \in 0..rev'[First]
    BY <2>1, <2>2, <2>3, Domains
  <2>5. /\ doc' \in [Gens -> Generation] /\ rev' \in [Gens -> Nat] /\ over' \in [Runs -> BOOLEAN]
        /\ ledger' \in [Sessions -> [filed : BOOLEAN, returned : BOOLEAN]]
    BY <2>2 DEF IInv, TypeOK
  <2> QED BY <2>1, <2>2, <2>3, <2>4, <2>5, <1>2, <1>6, <1>8, <1>11, TypeKept
<1>13. Apart'
  <2>1. \A t \in Sessions, n \in Nat \ {0} :
          Has(t, n)' => Has(t, n) \/ (t = s /\ n = started + 1)
    <3>1. k \in {plan[s], started + 1}
      BY <1>4 DEF k
    <3>2. \A q \in Runs : own'[q].slots = own[q].slots \/ (q = r /\ own'[q].slots \in {plan[s], started + 1})
      BY <3>1, <1>6, <1>8 DEF Others
    <3> QED BY <3>2, <1>1, <1>4 DEF Has
  <2>2. \A t \in Sessions, n \in Nat \ {0} : Has(t, n) => n <= started
    BY DEF IInv, Apart
  <2>3. \A t \in Sessions, n \in Nat \ {0} : Has(t, n)' => n <= started'
    BY <2>1, <2>2, <1>0, <1>1
  <2>4. \A t, u \in Sessions, n \in Nat \ {0} : t # u => ~(Has(t, n)' /\ Has(u, n)')
    BY <2>1, <2>2, <1>0 DEF IInv, Apart
  <2> QED BY <2>3, <2>4 DEF Apart
<1> QED BY <1>8, <1>9, <1>10, <1>12, <1>13, <1>1, OthersHeld, Gathered

(* A move that leaves queues and stores alone, of a run past its queue.    *)
LEMMA MoveInv ==
  ASSUME IInv, NEW r \in Runs,
         tail[Of(r)] # <<>> /\ Head(tail[Of(r)]) = r,
         UNCHANGED <<store, plan, tail, gen, prior, budgets>>,
         Others(r), Apart', RunInv(r)',
         pc' \in [Runs -> Places], pc'[r] # "waiting",
         own' \in [Runs -> Generation], over' \in [Runs -> BOOLEAN],
         seen' \in [Runs -> Nat], pred' \in [Runs -> Nat],
         seen'[r] \in 0..rev[gen[r]], pred'[r] \in 0..rev[First],
         \A s \in Sessions : metas'[s] \subseteq
           [gen : Gens, lens : Lenses \cup {"report"}, slots : 1..MaxRuns],
         ledger' \in [Sessions -> [filed : BOOLEAN, returned : BOOLEAN]]
  PROVE  IInv'
<1>1. UNCHANGED <<doc, rev, started, crashes>>
  BY DEF store, budgets
<1>2. OneRuns'
  BY OneHeld DEF Others
<1>3. TypeOK'
  <2>1. gen' \in [Runs -> Gens]
    BY DEF IInv, TypeOK
  <2>2. \A g \in Gens : rev'[g] >= rev[g]
    BY <1>1 DEF IInv, TypeOK
  <2>3. /\ doc' \in [Gens -> Generation] /\ rev' \in [Gens -> Nat]
        /\ plan' \in [Sessions -> 0..MaxRuns] /\ started' \in 0..MaxRuns
    BY <1>1 DEF IInv, TypeOK
  <2>4. seen'[r] \in 0..rev'[gen'[r]] /\ pred'[r] \in 0..rev'[First]
    BY <1>1
  <2> QED BY <1>1, <1>2, <2>1, <2>2, <2>3, <2>4, TypeKept
<1>4. Queued'
  <2>1. prior' \in [Runs -> [doc : Generation, rev : Nat]]
    BY DEF IInv, Queued
  <2>2. \A q \in Runs : pc'[q] = "waiting" => pc[q] = "waiting"
    BY DEF Others
  <2> QED BY <2>1, <2>2, QueueHeld
<1>5. \A q \in Runs \ {r} : RunInv(q)'
  BY OthersHeld
<1> QED BY <1>3, <1>4, <1>5, Gathered

(* A run's slots are its session's already.                                *)
LEMMA TakenApart ==
  ASSUME IInv, UNCHANGED <<metas, plan, started>>,
         \A q \in Runs : own'[q].slots = own[q].slots \/ Has(Of(q), own'[q].slots)
  PROVE  Apart'
<1>1. \A s \in Sessions, k \in Nat \ {0} : Has(s, k)' => Has(s, k)
  BY DEF Has
<1> QED BY <1>1, ApartHeld

LEMMA SelectedTyped ==
  ASSUME IInv, NEW r \in Runs, NEW moved \in BOOLEAN
  PROVE  Selected(r, moved) \in Generation
<1>1. gen[r] \in Gens /\ doc[gen[r]] \in Generation /\ prior[r].doc \in Generation
  BY DEF IInv, TypeOK, Queued
<1> QED BY <1>1, MintTyped DEF Selected

(* A run before its first write expects and freezes nothing.               *)
LEMMA Fresh ==
  ASSUME IInv, NEW r \in Runs,
         pc[r] \notin Saving \cup {"freeze", "record", "return"}
  PROVE  seen[r] = 0 /\ pred[r] = 0
BY DEF IInv, RunInv, Reading, Preceding, Saving

LEMMA EnterInv ==
  ASSUME IInv, NEW r \in Runs, Enter(r)
  PROVE  IInv'
<1>1. PICK moved \in BOOLEAN :
        LET d == Selected(r, moved)
        IN IF Complete(Of(r), gen[r], d, IsRound(r))
             THEN /\ own' = [own EXCEPT ![r] = Reconstructed(Of(r), gen[r], d)]
                  /\ Goto(r, IF IsRound(r) THEN "verifyStored" ELSE "drafted")
             ELSE /\ own' = [own EXCEPT ![r] = Attempt(r, d)]
                  /\ Goto(r, "clear")
  BY DEF Enter
<1>2. /\ pc[r] = "waiting" /\ Head(tail[Of(r)]) = r
      /\ UNCHANGED <<store, records, tail, gen, prior, over, seen, pred, budgets>>
      /\ UNCHANGED <<metas, ledger, plan, started>>
  BY DEF Enter, records, budgets
<1>3. tail[Of(r)] # <<>>
  <2>1. PICK i \in 1..Len(tail[Of(r)]) : TRUE
    BY <1>2 DEF IInv, Queued
  <2> QED BY <2>1
<1>4. seen[r] = 0 /\ pred[r] = 0
  BY <1>2, Fresh DEF Saving
<1> DEFINE d == Selected(r, moved)
<1>5. d \in Generation /\ own[r] \in Generation /\ own \in [Runs -> Generation]
  BY SelectedTyped DEF IInv, TypeOK
<1>6. PICK o \in Generation, p \in {"verifyStored", "drafted", "clear"} :
        /\ own' = [own EXCEPT ![r] = o] /\ pc' = [pc EXCEPT ![r] = p]
        /\ o.slots # 0 /\ (o.slots = own[r].slots \/ Has(Of(r), o.slots))
        /\ p = "clear" => o.drafting /\ o.lanes = Unsettled
  <2>1. CASE Complete(Of(r), gen[r], d, IsRound(r))
    <3> DEFINE o == Reconstructed(Of(r), gen[r], d)
               p == IF IsRound(r) THEN "verifyStored" ELSE "drafted"
    <3>1. own' = [own EXCEPT ![r] = o] /\ pc' = [pc EXCEPT ![r] = p]
      BY <2>1, <1>1 DEF Goto
    <3>2. o \in Generation /\ o.slots = d.slots
      BY <1>5, ReconstructedTyped
    <3>3. d.slots # 0 /\ Has(Of(r), d.slots)
      BY <2>1, CompleteHas DEF Has
    <3>4. p \in {"verifyStored", "drafted"}
      OBVIOUS
    <3> HIDE DEF o, p, d
    <3> QED BY <3>1, <3>2, <3>3, <3>4
  <2>2. CASE ~Complete(Of(r), gen[r], d, IsRound(r))
    <3> DEFINE o == Attempt(r, d)
    <3>1. own' = [own EXCEPT ![r] = o] /\ pc' = [pc EXCEPT ![r] = "clear"]
      BY <2>2, <1>1 DEF Goto
    <3>2. /\ o \in Generation /\ o.slots = own[r].slots
          /\ o.drafting /\ o.lanes = Unsettled
      BY <1>5, AttemptTyped
    <3>3. own[r].slots # 0
      BY <1>2 DEF IInv, RunInv, Claiming
    <3> HIDE DEF o
    <3> QED BY <3>1, <3>2, <3>3
  <2> QED BY <2>1, <2>2
<1>7. own'[r] = o /\ pc'[r] = p /\ pc' \in [Runs -> Places] /\ own' \in [Runs -> Generation]
  BY <1>5, <1>6 DEF IInv, TypeOK, Places
<1>8. Others(r)
  BY <1>2, <1>6 DEF Others, IInv, TypeOK
<1>9. Apart'
  BY <1>2, <1>6, <1>7, <1>8, TakenApart DEF Others
<1>10. RunInv(r)'
  <2>1. seen'[r] = 0 /\ pred'[r] = 0
    BY <1>2, <1>4
  <2> QED BY <2>1, <1>6, <1>7 DEF RunInv, Claiming, Reading, Revealing, Preceding
<1>11. /\ over' \in [Runs -> BOOLEAN] /\ seen' \in [Runs -> Nat] /\ pred' \in [Runs -> Nat]
       /\ seen'[r] \in 0..rev[gen[r]] /\ pred'[r] \in 0..rev[First]
       /\ \A s \in Sessions : metas'[s] \subseteq
            [gen : Gens, lens : Lenses \cup {"report"}, slots : 1..MaxRuns]
       /\ ledger' \in [Sessions -> [filed : BOOLEAN, returned : BOOLEAN]]
  BY <1>2 DEF IInv, TypeOK, Queued
<1> QED BY <1>2, <1>3, <1>6, <1>7, <1>8, <1>9, <1>10, <1>11, MoveInv

(* What a run past its queue finds.                                        *)
LEMMA PastFacts ==
  ASSUME IInv, NEW r \in Runs, Past(r)
  PROVE  /\ tail[Of(r)] # <<>> /\ Head(tail[Of(r)]) = r /\ Of(r) \in Sessions
         /\ own \in [Runs -> Generation] /\ own[r] \in Generation /\ own[r].slots # 0
         /\ own[r].slots \in 1..MaxRuns /\ gen[r] \in Gens /\ First \in Gens
         /\ seen[r] \in 0..rev[gen[r]] /\ pred[r] \in 0..rev[First]
         /\ rev \in [Gens -> Nat] /\ doc \in [Gens -> Generation]
         /\ pc \in [Runs -> Places] /\ over \in [Runs -> BOOLEAN]
         /\ seen \in [Runs -> Nat] /\ pred \in [Runs -> Nat]
         /\ \A s \in Sessions : metas[s] \subseteq
              [gen : Gens, lens : Lenses \cup {"report"}, slots : 1..MaxRuns]
         /\ ledger \in [Sessions -> [filed : BOOLEAN, returned : BOOLEAN]]
         /\ RunInv(r)
<1>1. own[r] \in Generation /\ own[r].slots # 0
  BY DEF IInv, TypeOK, RunInv, Claiming, Past
<1>2. own[r].slots \in 1..MaxRuns
  BY <1>1, Domains DEF Generation
<1> QED BY <1>1, <1>2, Domains DEF IInv, TypeOK, Queued, Past

LEMMA VerifyStoredInv ==
  ASSUME IInv, NEW r \in Runs, VerifyStored(r)
  PROVE  IInv'
<1>1. /\ pc[r] = "verifyStored" /\ Past(r)
      /\ UNCHANGED <<store, records, tail, gen, prior, over, seen, pred, budgets>>
      /\ UNCHANGED <<metas, ledger, plan, started>>
  BY DEF VerifyStored, Past, records, budgets
<1>2. PICK o \in Generation, p \in {"drafted", "clear"} :
        /\ own' = [own EXCEPT ![r] = o] /\ pc' = [pc EXCEPT ![r] = p]
        /\ o.slots = own[r].slots
        /\ p = "clear" => o.drafting /\ o.lanes = Unsettled
  <2>1. CASE Goto(r, "drafted") /\ UNCHANGED own
    <3>1. own' = [own EXCEPT ![r] = own[r]]
      BY <2>1, <1>1, PastFacts
    <3> QED BY <2>1, <3>1, <1>1, PastFacts DEF Goto
  <2>2. CASE Goto(r, "clear") /\ own' = [own EXCEPT ![r] = Attempt(r, @)]
    BY <2>2, <1>1, PastFacts, AttemptTyped DEF Goto
  <2> QED BY <2>1, <2>2 DEF VerifyStored
<1>3. own'[r] = o /\ pc'[r] = p /\ pc' \in [Runs -> Places] /\ own' \in [Runs -> Generation]
  BY <1>1, <1>2, PastFacts DEF Places
<1>4. Others(r)
  BY <1>1, <1>2, PastFacts DEF Others
<1>5. Apart'
  BY <1>1, <1>2, <1>3, <1>4, TakenApart DEF Others
<1>6. seen[r] = 0 /\ pred[r] = 0
  BY <1>1, Fresh DEF Saving
<1>7. RunInv(r)'
  <2>1. seen'[r] = 0 /\ pred'[r] = 0 /\ o.slots # 0
    BY <1>1, <1>2, <1>6, PastFacts
  <2> QED BY <2>1, <1>2, <1>3 DEF RunInv, Claiming, Reading, Revealing, Preceding
<1> QED BY <1>1, <1>2, <1>3, <1>4, <1>5, <1>7, PastFacts, MoveInv

-----------------------------------------------------------------------------
(* Leaving.                                                                *)

(* Leaving takes a run from the head of its queue and forgets it.          *)
LEMMA LeaveFacts ==
  ASSUME IInv, NEW r \in Runs, Past(r), Leave(r)
  PROVE  /\ Others(r) /\ OneRuns' /\ Queued' /\ RunInv(r)'
         /\ pc' \in [Runs -> Places] /\ gen' \in [Runs -> Gens]
         /\ own' \in [Runs -> Generation] /\ over' \in [Runs -> BOOLEAN]
         /\ seen'[r] = 0 /\ pred'[r] = 0
         /\ \A q \in Runs : own'[q].slots \in {own[q].slots, 0}
<1> DEFINE s == Of(r)
<1>1. /\ pc' = [pc EXCEPT ![r] = "idle"] /\ tail' = [tail EXCEPT ![s] = Tail(@)]
      /\ gen' = [gen EXCEPT ![r] = First] /\ prior' = [prior EXCEPT ![r] = Unread]
      /\ own' = [own EXCEPT ![r] = MintGeneration] /\ over' = [over EXCEPT ![r] = FALSE]
      /\ seen' = [seen EXCEPT ![r] = 0] /\ pred' = [pred EXCEPT ![r] = 0]
  BY DEF Leave, Goto
<1>2. /\ pc' \in [Runs -> Places] /\ gen' \in [Runs -> Gens] /\ own' \in [Runs -> Generation]
      /\ over' \in [Runs -> BOOLEAN] /\ prior' \in [Runs -> [doc : Generation, rev : Nat]]
      /\ seen' \in [Runs -> Nat] /\ pred' \in [Runs -> Nat]
      /\ pc'[r] = "idle" /\ own'[r].slots = 0 /\ seen'[r] = 0 /\ pred'[r] = 0
  BY <1>1, MintTyped, Domains DEF IInv, TypeOK, Queued, Places, Unread
<1>3. Others(r)
  BY <1>1 DEF Others, IInv, TypeOK, Queued
<1>4. tail[s] \in Seq(Runs) /\ tail[s] # <<>> /\ Head(tail[s]) = r /\ s \in Sessions
  BY PastFacts, Domains DEF IInv, Queued
<1>5. /\ tail' \in [Sessions -> Seq(Runs)] /\ tail'[s] = Tail(tail[s])
      /\ \A t \in Sessions \ {s} : tail'[t] = tail[t]
  BY <1>1, <1>4 DEF IInv, Queued
<1>6. OneRuns'
  <2> SUFFICES ASSUME NEW q \in Runs, pc'[q] \notin {"idle", "waiting"}
      PROVE tail'[Of(q)] # <<>> /\ Head(tail'[Of(q)]) = q
    BY DEF OneRuns
  <2>1. q # r /\ Past(q)
    BY <1>2, <1>3 DEF Others, Past
  <2>2. Of(q) # s /\ Of(q) \in Sessions
    BY <2>1, PastApart, Domains
  <2> QED BY <2>1, <2>2, <1>5, PastFacts
<1>7. Queued'
  <2> SUFFICES ASSUME NEW q \in Runs, pc'[q] = "waiting"
      PROVE \E i \in 1..Len(tail'[Of(q)]) : tail'[Of(q)][i] = q
    BY <1>2, <1>5 DEF Queued
  <2>1. q # r /\ pc[q] = "waiting" /\ Of(q) \in Sessions
    BY <1>2, <1>3, Domains DEF Others
  <2>2. PICK i \in 1..Len(tail[Of(q)]) : tail[Of(q)][i] = q
    BY <2>1 DEF IInv, Queued
  <2>3. CASE Of(q) = s
    <3>1. i # 1 /\ Len(tail[s]) \in Nat
      BY <2>1, <2>2, <2>3, <1>4
    <3>2. i - 1 \in 1..Len(Tail(tail[s])) /\ Tail(tail[s])[i - 1] = q
      BY <2>2, <2>3, <3>1, <1>4
    <3> QED BY <3>2, <2>3, <1>5
  <2>4. CASE Of(q) # s
    BY <2>1, <2>2, <2>4, <1>5
  <2> QED BY <2>3, <2>4
<1>8. RunInv(r)'
  BY <1>2 DEF RunInv, Claiming, Reading, Revealing, Preceding
<1>9. \A q \in Runs : own'[q].slots \in {own[q].slots, 0}
  BY <1>2, <1>3 DEF Others
<1> QED BY <1>2, <1>3, <1>6, <1>7, <1>8, <1>9

(* A run that leaves without a write.                                      *)
LEMMA LeaveInv ==
  ASSUME IInv, NEW r \in Runs, Past(r), Leave(r),
         UNCHANGED <<store, metas, plan, budgets>>,
         ledger' \in [Sessions -> [filed : BOOLEAN, returned : BOOLEAN]]
  PROVE  IInv'
<1>1. UNCHANGED <<doc, rev, started, crashes>>
  BY DEF store, budgets
<1>2. TypeOK'
  <2>1. \A g \in Gens : rev'[g] \in Nat /\ rev'[g] >= rev[g]
    BY <1>1 DEF IInv, TypeOK
  <2>2. /\ doc' \in [Gens -> Generation] /\ rev' \in [Gens -> Nat]
        /\ plan' \in [Sessions -> 0..MaxRuns] /\ started' \in 0..MaxRuns
    BY <1>1 DEF IInv, TypeOK
  <2>3. gen'[r] \in Gens /\ First \in Gens
    BY LeaveFacts, Domains
  <2>4. seen'[r] \in 0..rev'[gen'[r]] /\ pred'[r] \in 0..rev'[First]
    BY <2>1, <2>3, LeaveFacts
  <2> QED BY <1>1, <2>1, <2>2, <2>4, LeaveFacts, TypeKept
<1>3. Apart'
  BY <1>1, LeaveFacts, RunsApart
<1>4. \A q \in Runs \ {r} : RunInv(q)'
  BY LeaveFacts, OthersHeld
<1> QED BY <1>2, <1>3, <1>4, LeaveFacts, Gathered

LEMMA FailsInv ==
  ASSUME IInv, NEW r \in Runs, Fails(r)
  PROVE  IInv'
<1>1. Past(r) /\ Leave(r) /\ UNCHANGED <<store, metas, ledger, plan, budgets>>
  BY DEF Fails, Past, records
<1> QED BY <1>1, LeaveInv, PastFacts

-----------------------------------------------------------------------------
(* Drafting.                                                               *)

LEMMA ClearInv ==
  ASSUME IInv, NEW r \in Runs, Clear(r)
  PROVE  IInv'
<1> DEFINE s == Of(r)
           old == {m \in Drafted(s, gen[r]) : m.slots = own[r].slots /\ m.lens # "report"}
<1>1. /\ pc[r] = "clear" /\ Past(r)
      /\ UNCHANGED <<store, ledger, plan, tail, attempt, budgets>>
      /\ UNCHANGED <<gen, prior, own, over, seen, pred, started>>
  BY DEF Clear, Past, attempt, budgets
<1>2. \/ pc' = [pc EXCEPT ![r] = "claim"] /\ UNCHANGED metas
      \/ pc' = pc /\ \E m \in old : metas' = [metas EXCEPT ![s] = @ \ {m}]
  BY DEF Clear, Goto
<1> HIDE DEF old
<1>3. pc' \in [Runs -> Places] /\ pc'[r] \in {"clear", "claim"} /\ \A q \in Runs \ {r} : pc'[q] = pc[q]
  <2>1. CASE pc' = [pc EXCEPT ![r] = "claim"]
    BY <2>1, <1>1, PastFacts DEF Places
  <2>2. CASE pc' = pc
    BY <2>2, <1>1, PastFacts
  <2> QED BY <2>1, <2>2, <1>2
<1>4. \A t \in Sessions : metas'[t] \subseteq metas[t]
  <2>1. CASE UNCHANGED metas
    BY <2>1
  <2>2. CASE \E m \in old : metas' = [metas EXCEPT ![s] = @ \ {m}]
    <3>1. PICK m \in old : metas' = [metas EXCEPT ![s] = @ \ {m}]
      BY <2>2
    <3> SUFFICES ASSUME NEW t \in Sessions, NEW x \in metas'[t] PROVE x \in metas[t]
      OBVIOUS
    <3> QED BY <3>1
  <2> QED BY <2>1, <2>2, <1>2
<1>5. Others(r)
  BY <1>1, <1>3 DEF Others
<1>6. Apart'
  BY <1>1, <1>4, BoardsApart
<1>7. RunInv(r)'
  <2>1. seen'[r] = 0 /\ pred'[r] = 0
    BY <1>1, Fresh DEF Saving
  <2>2. Claiming(r)'
    BY <1>1, <1>3, PastFacts DEF RunInv, Claiming
  <2> QED BY <2>1, <2>2, <1>3 DEF RunInv, Reading, Revealing, Preceding
<1>8. \A t \in Sessions : metas'[t] \subseteq
        [gen : Gens, lens : Lenses \cup {"report"}, slots : 1..MaxRuns]
  BY <1>1, <1>4, PastFacts
<1> QED BY <1>1, <1>3, <1>5, <1>6, <1>7, <1>8, PastFacts, MoveInv

LEMMA ReportInv ==
  ASSUME IInv, NEW r \in Runs, Report(r)
  PROVE  IInv'
<1> DEFINE s == Of(r)
           m == Meta(gen[r], "report", own[r].slots)
<1>1. /\ pc[r] = "report" /\ Past(r) /\ pc' = [pc EXCEPT ![r] = "draft"]
      /\ metas' = [metas EXCEPT ![s] = @ \cup {m}]
      /\ UNCHANGED <<store, ledger, plan, tail, attempt, budgets>>
      /\ UNCHANGED <<gen, prior, own, over, seen, pred, started, doc, rev>>
  BY DEF Report, Past, Goto, attempt, budgets, store
<1>2. /\ m \in [gen : Gens, lens : Lenses \cup {"report"}, slots : 1..MaxRuns]
      /\ m.slots = own[r].slots
  BY <1>1, PastFacts DEF Meta
<1> HIDE DEF m
<1>3. \A t \in Sessions : \A x \in metas'[t] : x \in metas[t] \/ (t = s /\ x = m)
  BY <1>1
<1>4. Others(r) /\ pc' \in [Runs -> Places] /\ pc'[r] = "draft"
  BY <1>1, PastFacts DEF Others, Places
<1>5. Apart'
  BY <1>1, <1>2, <1>3, BoardsApart
<1>6. RunInv(r)'
  <2>1. seen'[r] = 0 /\ pred'[r] = 0
    BY <1>1, Fresh DEF Saving
  <2>2. Claiming(r)' /\ Revealing(r)'
    BY <1>1, <1>4, PastFacts DEF RunInv, Claiming, Revealing
  <2> QED BY <2>1, <2>2 DEF RunInv, Reading, Preceding
<1>7. \A t \in Sessions : metas'[t] \subseteq
        [gen : Gens, lens : Lenses \cup {"report"}, slots : 1..MaxRuns]
  BY <1>1, <1>2, <1>3, PastFacts
<1> QED BY <1>1, <1>4, <1>5, <1>6, <1>7, PastFacts, MoveInv

LEMMA SettleInv ==
  ASSUME IInv, NEW r \in Runs, Settle(r)
  PROVE  IInv'
<1> DEFINE s == Of(r)
<1>1. /\ pc[r] = "draft" /\ Past(r) /\ pc' = [pc EXCEPT ![r] = "reveal"]
      /\ UNCHANGED <<store, ledger, plan, tail, gen, prior, over, seen, pred, budgets>>
      /\ UNCHANGED <<started, doc, rev>>
  BY DEF Settle, Past, Goto, budgets, store
<1>2. PICK l \in Lenses, o \in {"board", "absent", "failed", "retry"} :
        /\ own[r].lanes[l] = "none"
        /\ own' = [own EXCEPT ![r].lanes[l] = o]
        /\ metas' = [metas EXCEPT ![s] = IF o = "board" THEN @ \cup {Meta(gen[r], l, own[r].slots)}
                                                         ELSE @]
  BY DEF Settle, Outcomes
<1> DEFINE m == Meta(gen[r], l, own[r].slots)
<1>3. /\ m \in [gen : Gens, lens : Lenses \cup {"report"}, slots : 1..MaxRuns]
      /\ m.slots = own[r].slots
  BY <1>1, PastFacts DEF Meta
<1> HIDE DEF m
<1>4. \A t \in Sessions : \A x \in metas'[t] : x \in metas[t] \/ (t = s /\ x = m)
  BY <1>2 DEF m
<1> DEFINE L == [own[r].lanes EXCEPT ![l] = o]
<1>5. /\ own' = [own EXCEPT ![r] = [own[r] EXCEPT !.lanes = L]]
      /\ own[r].lanes \in Lanes /\ L \in Lanes
  BY <1>1, <1>2, PastFacts DEF Generation, Lanes
<1>6. /\ own' \in [Runs -> Generation] /\ own'[r].slots = own[r].slots
      /\ own'[r].drafting = own[r].drafting /\ own'[r].lanes = L
      /\ \A q \in Runs \ {r} : own'[q] = own[q]
  BY <1>1, <1>5, PastFacts DEF Generation
<1>7. Others(r) /\ pc' \in [Runs -> Places] /\ pc'[r] = "reveal"
  BY <1>1, <1>6, PastFacts DEF Others, Places, Saving
<1>8. Apart'
  BY <1>1, <1>3, <1>4, <1>6, BoardsApart
<1>9. RunInv(r)'
  <2>1. seen'[r] = 0 /\ pred'[r] = 0
    BY <1>1, Fresh DEF Saving
  <2>2. Claiming(r)'
    BY <1>1, <1>6, <1>7, PastFacts DEF Claiming
  <2>3. Revealing(r)'
    <3> SUFFICES ASSUME SameDraftingAttempt(doc[gen[r]], own[r])
        PROVE Agrees(doc[gen[r]], own'[r])
      BY <1>1, <1>6 DEF Revealing, SameDraftingAttempt
    <3>1. Agrees(doc[gen[r]], own[r])
      BY <1>1, PastFacts DEF RunInv, Revealing
    <3>2. \A k \in Lenses : L[k] = own[r].lanes[k] \/ k = l
      BY <1>5 DEF Lanes
    <3> HIDE DEF L
    <3> QED BY <3>1, <3>2, <1>2, <1>6 DEF Agrees
  <2> QED BY <2>1, <2>2, <2>3 DEF RunInv, Reading, Preceding
<1>10. \A t \in Sessions : metas'[t] \subseteq
        [gen : Gens, lens : Lenses \cup {"report"}, slots : 1..MaxRuns]
  BY <1>1, <1>3, <1>4, PastFacts
<1> QED BY <1>1, <1>6, <1>7, <1>8, <1>9, <1>10, PastFacts, MoveInv

(* A move that changes but the run's place, the revision its write expects *)
(* and the predecessor's.                                                  *)
LEMMA StepInv ==
  ASSUME IInv, NEW r \in Runs, Past(r), RunInv(r)',
         NEW p \in Places \ {"waiting"}, pc' = [pc EXCEPT ![r] = p],
         NEW n \in Nat, seen' = [seen EXCEPT ![r] = n], n <= rev[gen[r]],
         NEW f \in Nat, pred' = [pred EXCEPT ![r] = f], f <= rev[First],
         over' \in [Runs -> BOOLEAN],
         ledger' \in [Sessions -> [filed : BOOLEAN, returned : BOOLEAN]],
         UNCHANGED <<store, metas, plan, tail, gen, prior, own, budgets>>
  PROVE  IInv'
<1>1. started' = started
  BY DEF budgets
<1>2. /\ pc' \in [Runs -> Places] /\ pc'[r] # "waiting"
      /\ seen' \in [Runs -> Nat] /\ pred' \in [Runs -> Nat]
      /\ seen'[r] \in 0..rev[gen[r]] /\ pred'[r] \in 0..rev[First]
  BY PastFacts
<1>3. Others(r)
  BY PastFacts DEF Others
<1>4. Apart'
  BY <1>1, RunsApart
<1> QED BY <1>2, <1>3, <1>4, PastFacts, MoveInv

-----------------------------------------------------------------------------
(* persistAttempt.                                                         *)

(* A step that writes a generation.                                        *)
LEMMA WriteInv ==
  ASSUME IInv, NEW r \in Runs, NEW g \in Gens, NEW d \in Generation, Save(g, d),
         UNCHANGED <<metas, plan, ledger, budgets>>,
         Others(r), OneRuns', Queued',
         pc' \in [Runs -> Places], gen' \in [Runs -> Gens],
         own' \in [Runs -> Generation], over' \in [Runs -> BOOLEAN],
         seen'[r] \in 0..rev'[gen'[r]], pred'[r] \in 0..rev'[First],
         \A q \in Runs : own'[q].slots \in {own[q].slots, 0},
         RunInv(r)', \A q \in Runs \ {r} : RunInv(q)'
  PROVE  IInv'
<1>1. UNCHANGED <<started, crashes>>
  BY DEF budgets
<1>2. TypeOK'
  <2>1. /\ doc' \in [Gens -> Generation] /\ rev' \in [Gens -> Nat]
        /\ \A h \in Gens : rev'[h] >= rev[h]
    BY Saved
  <2>2. /\ ledger' \in [Sessions -> [filed : BOOLEAN, returned : BOOLEAN]]
        /\ plan' \in [Sessions -> 0..MaxRuns] /\ started' \in 0..MaxRuns
    BY <1>1 DEF IInv, TypeOK
  <2> QED BY <1>1, <2>1, <2>2, TypeKept
<1>3. Apart'
  BY <1>1, RunsApart
<1> QED BY <1>2, <1>3, Gathered

LEMMA ClaimInv ==
  ASSUME IInv, NEW r \in Runs, Claim(r)
  PROVE  IInv'
<1> DEFINE p == IF IsRound(r) THEN "report" ELSE "draft"
<1>1. /\ pc[r] = "claim" /\ Past(r) /\ pc' = [pc EXCEPT ![r] = p]
      /\ Save(gen[r], own[r])
      /\ UNCHANGED <<metas, plan, ledger, tail, budgets>>
      /\ UNCHANGED <<gen, prior, own, over, seen, pred>>
  BY DEF Claim, Past, Goto, attempt, records
<1>2. p \in {"report", "draft"}
  OBVIOUS
<1> HIDE DEF p
<1>3. Others(r) /\ pc' \in [Runs -> Places] /\ pc'[r] = p
  BY <1>1, <1>2, PastFacts DEF Others, Places
<1>4. OneRuns'
  BY <1>1, <1>3, PastFacts, OneHeld DEF Others
<1>5. Queued'
  <2>1. /\ prior' \in [Runs -> [doc : Generation, rev : Nat]]
        /\ seen' \in [Runs -> Nat] /\ pred' \in [Runs -> Nat]
    BY <1>1 DEF IInv, Queued
  <2>2. \A q \in Runs : pc'[q] = "waiting" => pc[q] = "waiting"
    BY <1>2, <1>3 DEF Others
  <2> QED BY <1>1, <2>1, <2>2, QueueHeld
<1>6. seen[r] = 0 /\ pred[r] = 0
  BY <1>1, Fresh DEF Saving
<1>7. doc'[gen[r]] = own[r] /\ \A h \in Gens : rev'[h] \in Nat
  BY <1>1, PastFacts, Saved
<1>8. RunInv(r)'
  <2>1. Claiming(r)'
    BY <1>1, <1>2, <1>3, PastFacts DEF Claiming
  <2>2. Revealing(r)'
    BY <1>1, <1>7 DEF Revealing, Agrees
  <2> QED BY <2>1, <2>2, <1>1, <1>6 DEF RunInv, Reading, Preceding
<1>9. \A q \in Runs \ {r} : RunInv(q)'
  BY <1>1, <1>3, PastFacts, OthersWritten
<1>10. seen'[r] \in 0..rev'[gen'[r]] /\ pred'[r] \in 0..rev'[First]
  BY <1>1, <1>6, <1>7, PastFacts
<1>11. gen' \in [Runs -> Gens] /\ own' \in [Runs -> Generation] /\ over' \in [Runs -> BOOLEAN]
  BY <1>1 DEF IInv, TypeOK
<1> QED BY <1>1, <1>3, <1>4, <1>5, <1>8, <1>9, <1>10, <1>11, PastFacts, WriteInv

(* A refused write leaves the stores alone.                                *)
LEMMA RefusedInv ==
  ASSUME IInv, NEW r \in Runs, pc[r] \in Saving, Refused(r),
         UNCHANGED <<store, records, budgets>>
  PROVE  IInv'
<1>1. Past(r) /\ UNCHANGED <<metas, plan, ledger, doc, rev>>
  BY DEF Past, Saving, records, store
<1>2. CASE pc[r] = "reveal"
  <2> DEFINE p == IF \E l \in Lenses : own[r].lanes[l] = "none" THEN "draft" ELSE "drafted"
  <2>1. /\ over' = [over EXCEPT ![r] = TRUE] /\ pc' = [pc EXCEPT ![r] = p]
        /\ seen' = [seen EXCEPT ![r] = 0] /\ UNCHANGED <<tail, gen, prior, own, pred>>
    BY <1>2 DEF Refused, Revealed, Goto
  <2>2. p \in {"draft", "drafted"}
    OBVIOUS
  <2> HIDE DEF p
  <2>3. pred[r] = 0 /\ pred' = [pred EXCEPT ![r] = 0]
    <3>1. pred[r] = 0
      BY <1>2 DEF IInv, RunInv, Preceding
    <3> QED BY <2>1, <3>1, <1>1, PastFacts
  <2>4. pc'[r] = p /\ seen'[r] = 0 /\ pred'[r] = 0 /\ over' \in [Runs -> BOOLEAN]
    BY <2>1, <2>3, <1>1, PastFacts
  <2>5. RunInv(r)'
    <3>1. Claiming(r)' /\ Revealing(r)'
      BY <1>1, <1>2, <2>1, <2>2, <2>4, PastFacts
      DEF RunInv, Claiming, Revealing, SameDraftingAttempt
    <3> QED BY <3>1, <2>4 DEF RunInv, Reading, Preceding
  <2>6. p \in Places \ {"waiting"} /\ 0 \in Nat /\ 0 <= rev[gen[r]] /\ 0 <= rev[First]
        /\ ledger' \in [Sessions -> [filed : BOOLEAN, returned : BOOLEAN]]
    BY <1>1, <2>2, PastFacts DEF Places
  <2> QED BY <1>1, <2>1, <2>3, <2>4, <2>5, <2>6, StepInv
<1>3. CASE pc[r] # "reveal"
  BY <1>1, <1>3, PastFacts, LeaveInv DEF Refused
<1> QED BY <1>2, <1>3

LEMMA ReadVersionInv ==
  ASSUME IInv, NEW r \in Runs, ReadVersion(r)
  PROVE  IInv'
<1>1. pc[r] \in Saving /\ Past(r) /\ UNCHANGED <<store, records, budgets>>
  BY DEF ReadVersion, Past, Saving
<1>2. CASE rev[gen[r]] > 0 /\ SameDraftingAttempt(doc[gen[r]], own[r])
  <2>1. /\ seen' = [seen EXCEPT ![r] = rev[gen[r]]]
        /\ UNCHANGED <<tail, pc, gen, prior, own, over, pred>>
        /\ UNCHANGED <<metas, plan, ledger, doc, rev>>
    BY <1>1, <1>2 DEF ReadVersion, records, store
  <2>2. pc' = [pc EXCEPT ![r] = pc[r]] /\ pred' = [pred EXCEPT ![r] = pred[r]]
    BY <1>1, <2>1, PastFacts
  <2>3. RunInv(r)'
    <3>1. Claiming(r)' /\ Revealing(r)' /\ Preceding(r)'
      BY <1>1, <2>1, PastFacts
      DEF RunInv, Claiming, Revealing, Preceding, SameDraftingAttempt
    <3>2. Reading(r)'
      BY <1>1, <1>2, <2>1, PastFacts DEF Reading, SameDraftingAttempt
    <3> QED BY <3>1, <3>2 DEF RunInv
  <2>4. /\ pc[r] \in Places \ {"waiting"} /\ rev[gen[r]] \in Nat /\ pred[r] \in Nat
        /\ pred[r] <= rev[First] /\ over' \in [Runs -> BOOLEAN]
        /\ ledger' \in [Sessions -> [filed : BOOLEAN, returned : BOOLEAN]]
    BY <1>1, <2>1, PastFacts DEF Past
  <2>5. rev[gen[r]] <= rev[gen[r]]
    BY <2>4
  <2> QED BY <1>1, <2>1, <2>2, <2>3, <2>4, <2>5, StepInv
<1>3. CASE ~(rev[gen[r]] > 0 /\ SameDraftingAttempt(doc[gen[r]], own[r]))
  BY <1>1, <1>3, RefusedInv DEF ReadVersion
<1> QED BY <1>2, <1>3

(* The terminal writes are of the attempt, settled.                        *)
LEMMA WrittenFacts ==
  ASSUME IInv, NEW r \in Runs, Past(r)
  PROVE  /\ Written(r) \in Generation
         /\ Written(r).slots = own[r].slots /\ Written(r).lanes = own[r].lanes
         /\ pc[r] \in {"reject", "file"} => ~Written(r).drafting
         /\ pc[r] \notin {"reject", "file"} => Written(r) = own[r]
BY PastFacts DEF Written, Generation

LEMMA SaveIfRevisionInv ==
  ASSUME IInv, NEW r \in Runs, SaveIfRevision(r)
  PROVE  IInv'
<1>1. /\ pc[r] \in Saving /\ Past(r) /\ UNCHANGED <<records, budgets>>
      /\ UNCHANGED <<metas, plan, ledger>>
  BY DEF SaveIfRevision, Past, Saving, records
<1>2. CASE rev[gen[r]] # seen[r]
  BY <1>1, <1>2, RefusedInv DEF SaveIfRevision
<1>3. CASE rev[gen[r]] = seen[r]
  <2> DEFINE d == Written(r)
  <2>1. Save(gen[r], d) /\ Accepted(r)
    BY <1>3 DEF SaveIfRevision
  <2>2. /\ d \in Generation /\ d.slots = own[r].slots /\ gen[r] \in Gens
        /\ pc[r] = "reveal" => d = own[r]
    BY <1>1, WrittenFacts, PastFacts
  <2> HIDE DEF d
  <2>3. /\ doc'[gen[r]] = d /\ \A h \in Gens : rev'[h] \in Nat /\ rev'[h] >= rev[h]
        /\ rev'[gen[r]] = rev[gen[r]] + 1
        /\ \A h \in Gens \ {gen[r]} : doc'[h] = doc[h] /\ rev'[h] = rev[h]
    BY <2>1, <2>2, Saved
  <2>4. CASE Leave(r)
    <3>1. \A q \in Runs \ {r} : RunInv(q)'
      BY <1>1, <2>1, <2>2, <2>4, LeaveFacts, OthersWritten
    <3>2. seen'[r] \in 0..rev'[gen'[r]] /\ pred'[r] \in 0..rev'[First]
      BY <1>1, <2>3, <2>4, LeaveFacts, Domains
    <3> QED BY <1>1, <2>1, <2>2, <2>4, <3>1, <3>2, LeaveFacts, WriteInv
  <2>5. ASSUME NEW p \in {"draft", "drafted", "freeze"}, pc' = [pc EXCEPT ![r] = p],
               p \in {"draft", "drafted"} => pc[r] = "reveal",
               p = "freeze" => pc[r] = "file",
               seen' = [seen EXCEPT ![r] = 0], over' \in [Runs -> BOOLEAN],
               UNCHANGED <<tail, gen, prior, own, pred>>
        PROVE  IInv'
    <3>1. /\ pc' \in [Runs -> Places] /\ pc'[r] = p /\ seen'[r] = 0
          /\ Others(r) /\ \A q \in Runs \ {r} : pc'[q] = pc[q]
      BY <1>1, <2>5, PastFacts DEF Others, Places
    <3>2. OneRuns'
      BY <1>1, <2>5, <3>1, PastFacts, OneHeld
    <3>3. Queued'
      <4>1. /\ prior' \in [Runs -> [doc : Generation, rev : Nat]]
            /\ seen' \in [Runs -> Nat] /\ pred' \in [Runs -> Nat]
        BY <2>5 DEF IInv, Queued
      <4>2. \A q \in Runs : pc'[q] = "waiting" => pc[q] = "waiting"
        BY <3>1, <2>5
      <4> QED BY <2>5, <4>1, <4>2, QueueHeld
    <3>4. RunInv(r)'
      <4>1. Claiming(r)'
        BY <1>1, <2>5, <3>1, PastFacts DEF Claiming
      <4>2. Revealing(r)'
        BY <2>2, <2>3, <2>5, <3>1 DEF Revealing, Agrees
      <4>3. Preceding(r)'
        <5>1. pred'[r] = pred[r] /\ prior'[r] = prior[r] /\ pred[r] \in 0..rev[First]
          BY <1>1, <2>5, PastFacts
        <5>2. pred[r] # 0 => pc'[r] = "freeze"
          BY <1>1, <2>5, <3>1, PastFacts DEF RunInv, Preceding
        <5>3. CASE gen[r] = First
          <6>1. rev'[First] = rev[First] + 1 /\ rev[First] \in Nat
            BY <1>1, <2>3, <5>3, PastFacts
          <6> QED BY <5>1, <5>2, <6>1 DEF Preceding
        <5>4. CASE gen[r] # First
          <6>1. rev'[First] = rev[First] /\ doc'[First] = doc[First]
            BY <2>3, <5>4, Domains
          <6>2. pred[r] = rev[First] /\ pred[r] # 0 => doc[First] = prior[r].doc
            BY <1>1, PastFacts DEF RunInv, Preceding
          <6> QED BY <5>1, <5>2, <6>1, <6>2 DEF Preceding
        <5> QED BY <5>3, <5>4
      <4> QED BY <4>1, <4>2, <4>3, <3>1 DEF RunInv, Reading
    <3>5. \A q \in Runs \ {r} : RunInv(q)'
      BY <1>1, <2>1, <2>2, <3>1, OthersWritten
    <3>6. seen'[r] \in 0..rev'[gen'[r]] /\ pred'[r] \in 0..rev'[First]
      <4>1. /\ rev'[gen[r]] \in Nat /\ rev'[First] \in Nat /\ rev'[First] >= rev[First]
            /\ pred[r] \in 0..rev[First] /\ rev[First] \in Nat
        BY <1>1, <2>3, PastFacts
      <4> QED BY <4>1, <2>5, <3>1
    <3>7. gen' \in [Runs -> Gens] /\ own' \in [Runs -> Generation]
      BY <2>5 DEF IInv, TypeOK
    <3> QED BY <1>1, <2>1, <2>2, <2>5, <3>1, <3>2, <3>3, <3>4, <3>5, <3>6, <3>7, WriteInv
  <2>6. CASE pc[r] = "reveal"
    <3> DEFINE p == IF \E l \in Lenses : own[r].lanes[l] = "none" THEN "draft" ELSE "drafted"
    <3>1. /\ over' = [over EXCEPT ![r] = over[r]] /\ pc' = [pc EXCEPT ![r] = p]
          /\ seen' = [seen EXCEPT ![r] = 0] /\ UNCHANGED <<tail, gen, prior, own, pred>>
      BY <2>1, <2>6 DEF Accepted, Revealed, Goto
    <3>2. p \in {"draft", "drafted"}
      OBVIOUS
    <3> HIDE DEF p
    <3>3. over' \in [Runs -> BOOLEAN]
      BY <1>1, <3>1, PastFacts
    <3> QED BY <2>5, <2>6, <3>1, <3>2, <3>3
  <2>7. CASE pc[r] = "file" /\ IsRound(r)
    <3>1. /\ pc' = [pc EXCEPT ![r] = "freeze"] /\ seen' = [seen EXCEPT ![r] = 0]
          /\ UNCHANGED <<tail, gen, prior, own, over, pred>>
      BY <2>1, <2>7 DEF Accepted, Goto
    <3>2. over' \in [Runs -> BOOLEAN]
      BY <1>1, <3>1, PastFacts
    <3> QED BY <2>5, <2>7, <3>1, <3>2
  <2>8. CASE pc[r] # "reveal" /\ ~(pc[r] = "file" /\ IsRound(r))
    BY <2>1, <2>4, <2>8 DEF Accepted
  <2> QED BY <2>6, <2>7, <2>8
<1> QED BY <1>2, <1>3

-----------------------------------------------------------------------------
(* The terminal boundary.                                                  *)

LEMMA DraftInv ==
  ASSUME IInv, NEW r \in Runs, Draft(r)
  PROVE  IInv'
<1>1. /\ pc[r] = "drafted" /\ Past(r) /\ UNCHANGED <<store, records, budgets>>
      /\ UNCHANGED <<metas, plan, ledger>>
  BY DEF Draft, Past, records
<1>2. CASE over[r]
  BY <1>1, <1>2, PastFacts, LeaveInv DEF Draft
<1>3. CASE ~over[r]
  <2> DEFINE p == IF \A l \in Lenses : own[r].lanes[l] # "board" THEN "reject" ELSE "judge"
  <2>1. /\ pc' = [pc EXCEPT ![r] = p]
        /\ UNCHANGED <<tail, gen, prior, own, over, seen, pred>>
    BY <1>3 DEF Draft, Goto, attempt
  <2>2. p \in {"reject", "judge"}
    OBVIOUS
  <2> HIDE DEF p
  <2>3. seen[r] = 0 /\ pred[r] = 0
    BY <1>1, Fresh DEF Saving
  <2>4. /\ pc'[r] = p /\ p \in Places \ {"waiting"}
        /\ seen' = [seen EXCEPT ![r] = 0] /\ pred' = [pred EXCEPT ![r] = 0]
        /\ 0 \in Nat /\ 0 <= rev[gen[r]] /\ 0 <= rev[First]
        /\ over' \in [Runs -> BOOLEAN]
        /\ ledger' \in [Sessions -> [filed : BOOLEAN, returned : BOOLEAN]]
    BY <1>1, <2>1, <2>2, <2>3, PastFacts DEF Places, Saving
  <2>5. RunInv(r)'
    BY <1>1, <2>1, <2>2, <2>3, <2>4, PastFacts
    DEF RunInv, Claiming, Reading, Revealing, Preceding
  <2> QED BY <1>1, <2>1, <2>4, <2>5, StepInv
<1> QED BY <1>2, <1>3

LEMMA JudgeInv ==
  ASSUME IInv, NEW r \in Runs, Judge(r)
  PROVE  IInv'
<1> DEFINE p == IF Missing(own[r].lanes) = {} THEN "file" ELSE "reject"
           f == IF IsRound(r) /\ prior[r].rev > 0 /\ doc[First] = prior[r].doc
                  THEN rev[First] ELSE 0
<1>1. /\ pc[r] = "judge" /\ Past(r) /\ pc' = [pc EXCEPT ![r] = p]
      /\ pred' = [pred EXCEPT ![r] = f]
      /\ UNCHANGED <<store, records, tail, gen, prior, own, over, seen, budgets>>
      /\ UNCHANGED <<metas, plan, ledger, doc, rev>>
  BY DEF Judge, Past, Goto, records, store
<1>2. p \in {"file", "reject"} /\ (f # 0 => doc[First] = prior[r].doc)
  OBVIOUS
<1>3. f \in Nat /\ f <= rev[First] /\ 0 \in Nat /\ 0 <= rev[gen[r]]
  BY <1>1, PastFacts
<1> HIDE DEF p, f
<1>4. seen[r] = 0
  BY <1>1, Fresh DEF Saving
<1>5. /\ pc'[r] = p /\ p \in Places \ {"waiting"} /\ pred'[r] = f
      /\ seen' = [seen EXCEPT ![r] = 0] /\ over' \in [Runs -> BOOLEAN]
      /\ ledger' \in [Sessions -> [filed : BOOLEAN, returned : BOOLEAN]]
  BY <1>1, <1>2, <1>4, PastFacts DEF Places, Saving
<1>6. RunInv(r)'
  BY <1>1, <1>2, <1>4, <1>5, PastFacts
  DEF RunInv, Claiming, Reading, Revealing, Preceding
<1> QED BY <1>1, <1>3, <1>5, <1>6, StepInv

LEMMA FreezeInv ==
  ASSUME IInv, NEW r \in Runs, Freeze(r)
  PROVE  IInv'
<1>1. /\ pc[r] = "freeze" /\ Past(r) /\ pc' = [pc EXCEPT ![r] = "record"]
      /\ UNCHANGED <<records, tail, gen, prior, own, over, seen, budgets>>
      /\ UNCHANGED <<metas, plan, ledger>>
  BY DEF Freeze, Past, Goto, records
<1>2. seen[r] = 0
  BY <1>1 DEF IInv, RunInv, Reading, Saving
<1>3. /\ pc'[r] = "record" /\ pc' \in [Runs -> Places] /\ over' \in [Runs -> BOOLEAN]
      /\ \A q \in Runs \ {r} : pc'[q] = pc[q]
      /\ ledger' \in [Sessions -> [filed : BOOLEAN, returned : BOOLEAN]]
  BY <1>1, PastFacts DEF Places
<1>4. CASE pred[r] # 0 /\ pred[r] = rev[First]
  <2> DEFINE d == [doc[First] EXCEPT !.frozen = TRUE]
  <2>1. Save(First, d) /\ UNCHANGED pred
    BY <1>4 DEF Freeze
  <2>2. d \in Generation /\ First \in Gens
    <3>1. First \in Gens /\ doc[First] \in Generation
      BY Domains DEF IInv, TypeOK
    <3> QED BY <3>1 DEF Generation
  <2>3. Others(r)
    BY <1>1, <1>3, <2>1 DEF Others
  <2>4. \A q \in Runs \ {r} : RunInv(q)'
    BY <2>1, <2>3, OthersFrozen
  <2> HIDE DEF d
  <2>5. rev'[First] = rev[First] + 1 /\ \A h \in Gens : rev'[h] \in Nat /\ rev'[h] >= rev[h]
    BY <2>1, <2>2, Saved
  <2>6. RunInv(r)'
    <3>1. Claiming(r)'
      BY <1>1, <1>3, PastFacts DEF Claiming
    <3>2. Preceding(r)'
      BY <1>1, <1>3, <1>4, <2>1, <2>2, <2>5, PastFacts DEF Preceding
    <3> QED BY <3>1, <3>2, <1>1, <1>2, <1>3 DEF RunInv, Reading, Revealing
  <2>7. OneRuns'
    BY <1>1, <1>3, PastFacts, OneHeld
  <2>8. Queued'
    <3>1. /\ prior' \in [Runs -> [doc : Generation, rev : Nat]]
          /\ seen' \in [Runs -> Nat] /\ pred' \in [Runs -> Nat]
      BY <1>1, <2>1 DEF IInv, Queued
    <3>2. \A q \in Runs : pc'[q] = "waiting" => pc[q] = "waiting"
      BY <1>3
    <3> QED BY <1>1, <3>1, <3>2, QueueHeld
  <2>9. seen'[r] \in 0..rev'[gen'[r]] /\ pred'[r] \in 0..rev'[First]
    BY <1>1, <1>2, <1>4, <2>1, <2>2, <2>5, PastFacts
  <2>10. gen' \in [Runs -> Gens] /\ own' \in [Runs -> Generation]
    BY <1>1 DEF IInv, TypeOK
  <2> QED BY <1>1, <1>3, <2>1, <2>2, <2>3, <2>4, <2>6, <2>7, <2>8, <2>9, <2>10, WriteInv
<1>5. CASE ~(pred[r] # 0 /\ pred[r] = rev[First])
  <2>1. pred' = [pred EXCEPT ![r] = 0] /\ UNCHANGED store
    BY <1>5 DEF Freeze
  <2>2. /\ pred'[r] = 0 /\ seen' = [seen EXCEPT ![r] = 0]
        /\ 0 \in Nat /\ 0 <= rev[gen[r]] /\ 0 <= rev[First]
        /\ "record" \in Places \ {"waiting"}
    BY <1>1, <1>2, <2>1, PastFacts DEF Places
  <2>3. RunInv(r)'
    BY <1>1, <1>2, <1>3, <2>2, PastFacts DEF RunInv, Claiming, Reading, Revealing, Preceding
  <2> QED BY <1>1, <1>3, <2>1, <2>2, <2>3, StepInv
<1> QED BY <1>4, <1>5

LEMMA RecordInv ==
  ASSUME IInv, NEW r \in Runs, Record(r)
  PROVE  IInv'
<1>1. /\ pc[r] = "record" /\ Past(r) /\ pc' = [pc EXCEPT ![r] = "return"]
      /\ ledger' = [ledger EXCEPT ![Of(r)] = [filed |-> TRUE, returned |-> FALSE]]
      /\ UNCHANGED <<store, metas, plan, tail, gen, prior, own, over, seen, pred, budgets>>
      /\ UNCHANGED <<doc, rev>>
  BY DEF Record, Past, Goto, attempt, store
<1>2. seen[r] = 0
  BY <1>1 DEF IInv, RunInv, Reading, Saving
<1>3. /\ pc'[r] = "return" /\ "return" \in Places \ {"waiting"}
      /\ seen' = [seen EXCEPT ![r] = 0] /\ pred' = [pred EXCEPT ![r] = pred[r]]
      /\ 0 \in Nat /\ 0 <= rev[gen[r]] /\ pred[r] \in Nat /\ pred[r] <= rev[First]
      /\ over' \in [Runs -> BOOLEAN]
      /\ ledger' \in [Sessions -> [filed : BOOLEAN, returned : BOOLEAN]]
  BY <1>1, <1>2, PastFacts DEF Places
<1>4. RunInv(r)'
  BY <1>1, <1>2, <1>3, PastFacts DEF RunInv, Claiming, Reading, Revealing, Preceding
<1> QED BY <1>1, <1>3, <1>4, StepInv

LEMMA ReturnInv ==
  ASSUME IInv, NEW r \in Runs, Return(r)
  PROVE  IInv'
<1>1. /\ Past(r) /\ Leave(r) /\ UNCHANGED <<store, metas, plan, budgets>>
      /\ ledger' = [ledger EXCEPT ![Of(r)].returned = TRUE]
  BY DEF Return, Past
<1>2. ledger' \in [Sessions -> [filed : BOOLEAN, returned : BOOLEAN]]
  BY <1>1, PastFacts
<1> QED BY <1>1, <1>2, LeaveInv

-----------------------------------------------------------------------------
(* A crash forgets the runs of its sessions.                               *)

LEMMA CrashInv ==
  ASSUME IInv, NEW S \in SUBSET Sessions, Crash(S)
  PROVE  IInv'
<1>1. /\ tail' = [s \in Sessions |-> IF s \in S THEN <<>> ELSE tail[s]]
      /\ pc' = [r \in Runs |-> IF Of(r) \in S THEN "idle" ELSE pc[r]]
      /\ gen' = [r \in Runs |-> IF Of(r) \in S THEN First ELSE gen[r]]
      /\ prior' = [r \in Runs |-> IF Of(r) \in S THEN Unread ELSE prior[r]]
      /\ own' = [r \in Runs |-> IF Of(r) \in S THEN MintGeneration ELSE own[r]]
      /\ over' = [r \in Runs |-> Of(r) \notin S /\ over[r]]
      /\ seen' = [r \in Runs |-> IF Of(r) \in S THEN 0 ELSE seen[r]]
      /\ pred' = [r \in Runs |-> IF Of(r) \in S THEN 0 ELSE pred[r]]
      /\ UNCHANGED <<doc, rev, metas, ledger, plan, started>>
      /\ crashes < MaxCrashes /\ crashes' = crashes + 1
  BY DEF Crash, store, records
<1>2. Apart'
  <2>1. \A q \in Runs : own'[q].slots \in {own[q].slots, 0}
    BY <1>1, MintTyped
  <2> QED BY <1>1, <2>1, RunsApart
<1>3. TypeOK'
  <2>1. /\ pc' \in [Runs -> Places] /\ gen' \in [Runs -> Gens]
        /\ own' \in [Runs -> Generation] /\ over' \in [Runs -> BOOLEAN]
    BY <1>1, MintTyped, Domains DEF IInv, TypeOK, Places
  <2>2. \A r \in Runs : seen'[r] \in 0..rev'[gen'[r]] /\ pred'[r] \in 0..rev'[First]
    <3> SUFFICES ASSUME NEW r \in Runs
        PROVE seen'[r] \in 0..rev'[gen'[r]] /\ pred'[r] \in 0..rev'[First]
      OBVIOUS
    <3>1. /\ seen[r] \in 0..rev[gen[r]] /\ pred[r] \in 0..rev[First] /\ rev[First] \in Nat
          /\ rev[gen[r]] \in Nat
      BY Domains DEF IInv, TypeOK
    <3> QED BY <3>1, <1>1
  <2>3. OneRuns'
    <3> SUFFICES ASSUME NEW q \in Runs, pc'[q] \notin {"idle", "waiting"}
        PROVE tail'[Of(q)] # <<>> /\ Head(tail'[Of(q)]) = q
      BY DEF OneRuns
    <3>1. Of(q) \notin S /\ Past(q)
      BY <1>1 DEF Past
    <3> QED BY <3>1, <1>1, PastFacts
  <2>4. crashes' \in 0..MaxCrashes
    BY <1>1, Domains DEF IInv, TypeOK
  <2>5. /\ doc' \in [Gens -> Generation] /\ rev' \in [Gens -> Nat]
        /\ \A s \in Sessions : metas'[s] \subseteq
             [gen : Gens, lens : Lenses \cup {"report"}, slots : 1..MaxRuns]
        /\ ledger' \in [Sessions -> [filed : BOOLEAN, returned : BOOLEAN]]
        /\ plan' \in [Sessions -> 0..MaxRuns] /\ started' \in 0..MaxRuns
    BY <1>1 DEF IInv, TypeOK
  <2> QED BY <2>1, <2>2, <2>3, <2>4, <2>5 DEF TypeOK, OneRuns
<1>4. Queued'
  <2>1. /\ prior' \in [Runs -> [doc : Generation, rev : Nat]]
        /\ seen' \in [Runs -> Nat] /\ pred' \in [Runs -> Nat]
    BY <1>1, MintTyped DEF IInv, Queued, Unread
  <2>2. tail' \in [Sessions -> Seq(Runs)]
    BY <1>1 DEF IInv, Queued
  <2>3. ASSUME NEW q \in Runs, pc'[q] = "waiting"
        PROVE  \E i \in 1..Len(tail'[Of(q)]) : tail'[Of(q)][i] = q
    <3>1. Of(q) \notin S /\ pc[q] = "waiting" /\ Of(q) \in Sessions
      BY <2>3, <1>1, Domains
    <3>2. tail'[Of(q)] = tail[Of(q)]
      BY <3>1, <1>1
    <3> QED BY <3>1, <3>2 DEF IInv, Queued
  <2> QED BY <2>1, <2>2, <2>3 DEF Queued
<1>5. ASSUME NEW r \in Runs PROVE RunInv(r)'
  <2>1. CASE Of(r) \in S
    BY <2>1, <1>1 DEF RunInv, Claiming, Reading, Revealing, Preceding
  <2>2. CASE Of(r) \notin S
    BY <2>2, <1>1 DEF IInv, RunInv, Claiming, Reading, Revealing, Preceding
  <2> QED BY <2>1, <2>2
<1> QED BY <1>2, <1>3, <1>4, <1>5 DEF IInv

-----------------------------------------------------------------------------
(* The theorems.                                                           *)

LEMMA NextInv == IInv /\ Next => IInv'
<1> SUFFICES ASSUME IInv, Next PROVE IInv'
  OBVIOUS
<1>1. CASE \E S \in SUBSET Sessions \ {{}} : Crash(S)
  BY <1>1, CrashInv
<1>2. CASE \E r \in Runs : \/ Start(r) \/ Enter(r) \/ Fails(r)
                           \/ Drafting(r) \/ Persisting(r) \/ Ending(r)
  <2>1. PICK r \in Runs : \/ Start(r) \/ Enter(r) \/ Fails(r)
                          \/ Drafting(r) \/ Persisting(r) \/ Ending(r)
    BY <1>2
  <2>2. CASE Start(r) \/ Enter(r) \/ Fails(r)
    BY <2>2, StartInv, EnterInv, FailsInv
  <2>3. CASE Drafting(r)
    BY <2>3, ClearInv, ClaimInv, ReportInv, SettleInv DEF Drafting
  <2>4. CASE Persisting(r)
    BY <2>4, ReadVersionInv, SaveIfRevisionInv DEF Persisting
  <2>5. CASE Ending(r)
    BY <2>5, VerifyStoredInv, DraftInv, JudgeInv, FreezeInv, RecordInv, ReturnInv DEF Ending
  <2> QED BY <2>1, <2>2, <2>3, <2>4, <2>5
<1> QED BY <1>1, <1>2 DEF Next

LEMMA StutterInv == IInv /\ UNCHANGED vars => IInv'
<1> SUFFICES ASSUME IInv, UNCHANGED vars PROVE IInv'
  OBVIOUS
<1>1. UNCHANGED <<doc, rev, metas, ledger, plan, tail, pc, gen, prior, own, over, seen, pred,
                  started, crashes>>
  BY DEF vars, store, records, attempt, budgets
<1>2. TypeOK' /\ Queued'
  BY <1>1 DEF IInv, TypeOK, Queued
<1>3. Apart'
  BY <1>1, RunsApart
<1>4. \A r \in Runs : RunInv(r)'
  BY <1>1 DEF IInv, RunInv, Claiming, Reading, Revealing, Preceding
<1> QED BY <1>2, <1>3, <1>4 DEF IInv

(* Every reachable state satisfies the inductive invariant.                *)
THEOREM OwnershipInductive == Spec => []IInv
<1>1. IInv /\ [Next]_vars => IInv'
  BY NextInv, StutterInv
<1> QED BY <1>1, InitInv, PTL DEF Spec

(* The runtime's and the stores' state keeps its types, and one run of a   *)
(* session is past the queue.                                              *)
THEOREM TypeCorrect == Spec => []TypeOK
<1>1. IInv => TypeOK
  BY DEF IInv
<1> QED BY <1>1, OwnershipInductive, PTL

-----------------------------------------------------------------------------
(* What a step does to the documents.                                      *)

Continued(g) == doc'[g] # doc[g] =>
  \/ doc'[g].drafting /\ doc'[g].lanes = Unsettled
  \/ /\ doc'[g].slots = doc[g].slots
     /\ doc'[g].drafting =>
          \A l \in Lenses : doc[g].lanes[l] # "none" => doc'[g].lanes[l] = doc[g].lanes[l]

LEMMA ClaimContinues ==
  ASSUME IInv, NEW r \in Runs, Claim(r)
  PROVE  \A g \in Gens : Continued(g)
<1>1. pc[r] = "claim" /\ Past(r) /\ Save(gen[r], own[r])
  BY DEF Claim, Past
<1>2. own[r].drafting /\ own[r].lanes = Unsettled
  BY <1>1 DEF IInv, RunInv, Claiming
<1> QED BY <1>1, <1>2, PastFacts, Saved DEF Continued

LEMMA SaveContinues ==
  ASSUME IInv, NEW r \in Runs, SaveIfRevision(r)
  PROVE  \A g \in Gens : Continued(g)
<1>1. pc[r] \in Saving /\ Past(r) /\ seen[r] # 0
  BY DEF SaveIfRevision, Past, Saving
<1>2. CASE rev[gen[r]] # seen[r]
  BY <1>2 DEF SaveIfRevision, store, Continued
<1>3. CASE rev[gen[r]] = seen[r]
  <2> DEFINE d == Written(r)
  <2>1. Save(gen[r], d)
    BY <1>3 DEF SaveIfRevision
  <2>2. /\ d \in Generation /\ d.slots = own[r].slots /\ d.lanes = own[r].lanes
        /\ d.drafting => pc[r] = "reveal"
    BY <1>1, WrittenFacts DEF Saving
  <2> HIDE DEF d
  <2>3. SameDraftingAttempt(doc[gen[r]], own[r])
    BY <1>1, <1>3, PastFacts DEF RunInv, Reading
  <2>4. pc[r] = "reveal" => Agrees(doc[gen[r]], own[r])
    BY <1>1, <2>3, PastFacts DEF RunInv, Revealing
  <2>5. doc'[gen[r]] = d /\ \A h \in Gens \ {gen[r]} : doc'[h] = doc[h]
    BY <1>1, <2>1, <2>2, PastFacts, Saved
  <2> QED BY <2>2, <2>3, <2>4, <2>5 DEF Continued, SameDraftingAttempt, Agrees
<1> QED BY <1>2, <1>3

LEMMA FreezeContinues ==
  ASSUME IInv, NEW r \in Runs, Freeze(r)
  PROVE  \A g \in Gens : Continued(g)
<1> DEFINE d == [doc[First] EXCEPT !.frozen = TRUE]
<1>1. Save(First, d) \/ UNCHANGED store
  BY DEF Freeze
<1>2. /\ d \in Generation /\ First \in Gens
      /\ d.slots = doc[First].slots /\ d.lanes = doc[First].lanes
  BY Domains DEF IInv, TypeOK, Generation
<1> HIDE DEF d
<1>3. CASE Save(First, d)
  BY <1>2, <1>3, Saved DEF Continued
<1>4. CASE UNCHANGED store
  BY <1>4 DEF store, Continued
<1> QED BY <1>1, <1>3, <1>4

LEMMA NextContinues == IInv /\ [Next]_vars => \A g \in Gens : Continued(g)
<1> SUFFICES ASSUME IInv, [Next]_vars PROVE \A g \in Gens : Continued(g)
  OBVIOUS
<1>1. CASE \E r \in Runs : Claim(r) \/ SaveIfRevision(r) \/ Freeze(r)
  BY <1>1, ClaimContinues, SaveContinues, FreezeContinues
<1>2. CASE UNCHANGED store
  BY <1>2 DEF store, Continued
<1>3. (\E r \in Runs : Claim(r) \/ SaveIfRevision(r) \/ Freeze(r)) \/ UNCHANGED store
  <2>1. CASE UNCHANGED vars
    BY <2>1 DEF vars
  <2>2. CASE \E S \in SUBSET Sessions \ {{}} : Crash(S)
    BY <2>2 DEF Crash
  <2>3. CASE \E r \in Runs : \/ Start(r) \/ Enter(r) \/ Fails(r)
                             \/ Drafting(r) \/ Persisting(r) \/ Ending(r)
    BY <2>3 DEF Start, Enter, Fails, Drafting, Clear, Report, Settle, Persisting, ReadVersion,
                Ending, VerifyStored, Draft, Judge, Record, Return
  <2> QED BY <2>1, <2>2, <2>3 DEF Next
<1> QED BY <1>1, <1>2, <1>3

(* A generation's document is replaced only by the claim of an attempt;    *)
(* every other write goes on with the attempt it holds, and a reveal takes *)
(* back no lane it has settled.                                            *)
THEOREM AttemptGoesOn == Spec => AttemptsContinue
<1>1. IInv /\ [Next]_vars => [\A g \in Gens : doc'[g] # doc[g] =>
       \/ doc'[g].drafting /\ doc'[g].lanes = Unsettled
       \/ /\ doc'[g].slots = doc[g].slots
          /\ doc'[g].drafting =>
               \A l \in Lenses : doc[g].lanes[l] # "none" => doc'[g].lanes[l] = doc[g].lanes[l]]_vars
  BY NextContinues DEF Continued
<1> QED BY <1>1, OwnershipInductive, PTL DEF Spec, AttemptsContinue

(* Only freezing takes a run from freeze to record.                        *)
LEMMA OnlyFreezes ==
  ASSUME IInv, Next, NEW r \in Runs, pc[r] = "freeze", pc'[r] = "record"
  PROVE  Freeze(r)
<1>1. pc \in [Runs -> Places]
  BY DEF IInv, TypeOK
<1>2. CASE \E S \in SUBSET Sessions \ {{}} : Crash(S)
  BY <1>2 DEF Crash
<1>3. ASSUME NEW q \in Runs, q # r, \/ Start(q) \/ Enter(q) \/ Fails(q)
                                   \/ Drafting(q) \/ Persisting(q) \/ Ending(q)
      PROVE  FALSE
  <2>1. pc' = pc \/ \E p : pc' = [pc EXCEPT ![q] = p]
    BY <1>3 DEF Start, Enter, Fails, Drafting, Clear, Claim, Report, Settle, Persisting,
      ReadVersion, SaveIfRevision, Refused, Accepted, Revealed, Ending, VerifyStored, Draft,
      Judge, Freeze, Record, Return, Leave, Goto
  <2> QED BY <2>1, <1>1, <1>3
<1>4. CASE \/ Start(r) \/ Enter(r) \/ Fails(r) \/ Drafting(r) \/ Persisting(r) \/ Ending(r)
  BY <1>4 DEF Start, Enter, Fails, Drafting, Clear, Claim, Report, Settle, Persisting,
    ReadVersion, SaveIfRevision, Saving, Ending, VerifyStored, Draft, Judge, Record, Return
<1> QED BY <1>2, <1>3, <1>4 DEF Next

(* The predecessor a round freezes is the document it read before it       *)
(* drafted.                                                                *)
THEOREM FreezesWhatItRead == Spec => FrozenAsRead
<1>1. IInv /\ [Next]_vars =>
        [\A r \in Runs : pc[r] = "freeze" /\ pc'[r] = "record" /\ pred'[r] # 0 =>
           doc'[First] = [prior[r].doc EXCEPT !.frozen = TRUE]]_vars
  <2> SUFFICES ASSUME IInv, Next, NEW r \in Runs,
                      pc[r] = "freeze", pc'[r] = "record", pred'[r] # 0
      PROVE doc'[First] = [prior[r].doc EXCEPT !.frozen = TRUE]
    OBVIOUS
  <2>1. Freeze(r) /\ pred \in [Runs -> Nat]
    BY OnlyFreezes DEF IInv, Queued
  <2>2. pred[r] # 0 /\ pred[r] = rev[First]
    BY <2>1 DEF Freeze
  <2>3. doc[First] = prior[r].doc
    BY <2>2 DEF IInv, RunInv, Preceding
  <2>4. Save(First, [doc[First] EXCEPT !.frozen = TRUE])
    BY <2>1, <2>2 DEF Freeze
  <2>5. First \in Gens /\ doc \in [Gens -> Generation]
    BY Domains DEF IInv, TypeOK
  <2> QED BY <2>3, <2>4, <2>5 DEF Save
<1> QED BY <1>1, OwnershipInductive, PTL DEF Spec, FrozenAsRead

-----------------------------------------------------------------------------
(* What a returned round leaves: the inductive invariant, second part.     *)

(* A run drafts its session's generation or the shared one; it has the     *)
(* board of every lane it calls so, and one that restores a settled        *)
(* generation, or files one, misses no core lens.                          *)
Backed(r) ==
  /\ gen[r] \in {Of(r), First}
  /\ IsRound(r) /\ pc[r] # "idle" => gen[r] = Of(r)
  /\ Past(r) => \A l \in Lenses :
       own[r].lanes[l] = "board" => Meta(gen[r], l, own[r].slots) \in metas[Of(r)]
  /\ (Past(r) /\ ~own[r].drafting) \/ pc[r] = "file" =>
       Missing(own[r].lanes) = {}

(* After its write, a round's generation is what it filed.                 *)
Filed(r) ==
  pc[r] \in {"freeze", "record", "return"} =>
    /\ IsRound(r)
    /\ doc[Of(r)].slots = own[r].slots /\ ~doc[Of(r)].drafting
    /\ doc[Of(r)].lanes = own[r].lanes
    /\ Missing(own[r].lanes) = {}

(* An open that drafts does so under slots that are not the round's; only  *)
(* a round verifies a stored report, and it has reserved its slots.        *)
OwnSlots(r) ==
  /\ pc[r] = "verifyStored" => IsRound(r)
  /\ ~IsRound(r) /\ pc[r] \in {"waiting", "clear", "claim", "report", "draft", "reveal"}
       => own[r].slots # plan[Of(r)]
  /\ IsRound(r) /\ pc[r] # "idle" => plan[Of(r)] # 0

(* A round that returned has reserved its slots and drafts no more.        *)
Over(s) ==
  ledger[s].returned =>
    plan[s] # 0 /\ \A r \in Runs : Of(r) = s /\ IsRound(r) => pc[r] = "idle"

Readable(s) ==
  ledger[s].returned /\ doc[s].slots = plan[s] =>
    /\ ~doc[s].drafting
    /\ Missing(doc[s].lanes) = {}
    /\ \A l \in Lenses : doc[s].lanes[l] = "board" => HasBoard(s, s, doc[s], l)

BInv ==
  /\ DOMAIN metas = Sessions /\ metas = [s \in DOMAIN metas |-> metas[s]]
  /\ \A r \in Runs : Backed(r) /\ Filed(r) /\ OwnSlots(r)
  /\ \A s \in Sessions : Over(s) /\ Readable(s)

LEMMA InitBooks == Init => BInv
BY Domains
DEF Init, BInv, Backed, Filed, OwnSlots, Over, Readable, Past, Unfiled

(* A step of one run leaves the other sessions' books as they are, and     *)
(* those of its own session's run, which waits.                            *)
LEMMA BookOthers ==
  ASSUME IInv, BInv, NEW r \in Runs, Others(r), UNCHANGED plan,
         Past(r) \/ UNCHANGED <<doc, metas>>,
         \A t \in Sessions \ {Of(r)} :
           doc'[t] = doc[t] /\ metas'[t] = metas[t] /\ ledger'[t] = ledger[t]
  PROVE  /\ \A q \in Runs \ {r} : Backed(q)' /\ Filed(q)' /\ OwnSlots(q)'
         /\ \A t \in Sessions \ {Of(r)} : Over(t)' /\ Readable(t)'
<1>1. ASSUME NEW q \in Runs \ {r} PROVE Backed(q)' /\ Filed(q)' /\ OwnSlots(q)'
  <2>1. /\ Backed(q) /\ Filed(q) /\ OwnSlots(q) /\ Of(q) \in Sessions
        /\ pc'[q] = pc[q] /\ gen'[q] = gen[q] /\ own'[q] = own[q]
    BY Domains DEF BInv, Others
  <2>2. Past(q) => doc'[Of(q)] = doc[Of(q)] /\ metas'[Of(q)] = metas[Of(q)]
    BY <2>1, PastApart
  <2>3. Backed(q)'
    BY <2>1, <2>2 DEF Backed, Past
  <2>4. Filed(q)'
    BY <2>1, <2>2 DEF Filed, Past
  <2>5. OwnSlots(q)'
    BY <2>1 DEF OwnSlots
  <2> QED BY <2>3, <2>4, <2>5
<1>2. ASSUME NEW t \in Sessions \ {Of(r)} PROVE Over(t)' /\ Readable(t)'
  <2>1. Over(t) /\ Readable(t)
    BY DEF BInv
  <2>2. Over(t)'
    BY <2>1 DEF Over, Others
  <2>3. Readable(t)'
    BY <2>1 DEF Readable, HasBoard
  <2> QED BY <2>2, <2>3
<1> QED BY <1>1, <1>2

LEMMA BookKept ==
  ASSUME IInv, BInv, NEW r \in Runs, pc[r] # "idle", Others(r),
         UNCHANGED <<plan, ledger>>,
         Past(r) \/ UNCHANGED <<doc, metas>>,
         metas' = metas \/ \E M : metas' = [metas EXCEPT ![Of(r)] = M],
         \A t \in Sessions \ {Of(r)} : doc'[t] = doc[t] /\ metas'[t] = metas[t],
         Backed(r)', Filed(r)', OwnSlots(r)', Readable(Of(r))'
  PROVE  BInv'
<1>1. Over(Of(r))'
  BY Domains DEF BInv, Over, Others
<1>2. DOMAIN metas' = Sessions /\ metas' = [s \in DOMAIN metas' |-> metas'[s]]
  BY DEF BInv
<1> QED BY <1>1, <1>2, BookOthers DEF BInv

(* Nothing of the session's books but the run's own has changed.           *)
LEMMA ReadableHeld ==
  ASSUME BInv, NEW s \in Sessions, UNCHANGED <<doc, ledger, plan>>,
         metas[s] \subseteq metas'[s]
  PROVE  Readable(s)'
BY DEF BInv, Readable, HasBoard

(* While a session's round has returned, the run that writes is an open.   *)
LEMMA OpenAfterReturn ==
  ASSUME BInv, NEW r \in Runs, pc[r] # "idle", ledger[Of(r)].returned
  PROVE  ~IsRound(r) /\ plan[Of(r)] # 0
BY Domains DEF BInv, Over

LEMMA StartBooks ==
  ASSUME IInv, BInv, NEW r \in Runs, Start(r)
  PROVE  BInv'
<1> DEFINE s == Of(r)
           g == IF IsRound(r) THEN First ELSE Current(s)
           k == IF IsRound(r) THEN plan'[s] ELSE started + 1
<1>1. /\ s \in Sessions /\ started \in Nat /\ pc[r] = "idle"
      /\ plan \in [Sessions -> 0..MaxRuns] /\ g \in {s, First}
  BY Domains DEF IInv, TypeOK, Start, Current
<1>2. /\ plan' = [plan EXCEPT ![s] = IF IsRound(r) /\ @ = 0 THEN started + 1 ELSE @]
      /\ gen' = [gen EXCEPT ![r] = IF IsRound(r) THEN s ELSE g]
      /\ own' = [own EXCEPT ![r].slots = k] /\ pc' = [pc EXCEPT ![r] = "waiting"]
      /\ IsRound(r) => ~ledger[s].returned
      /\ UNCHANGED <<doc, metas, ledger>>
  BY DEF Start, Goto, store
<1>3. /\ plan'[s] \in {plan[s], started + 1} /\ (~IsRound(r) => plan'[s] = plan[s])
      /\ (IsRound(r) \/ plan[s] # 0 => plan'[s] # 0)
      /\ \A t \in Sessions \ {s} : plan'[t] = plan[t]
  BY <1>1, <1>2
<1> HIDE DEF g
<1>4. /\ pc'[r] = "waiting" /\ gen'[r] = (IF IsRound(r) THEN s ELSE g)
      /\ \A q \in Runs \ {r} : pc'[q] = pc[q] /\ gen'[q] = gen[q] /\ own'[q] = own[q]
  BY <1>2 DEF IInv, TypeOK
<1>5. ~IsRound(r) => own'[r].slots = started + 1
  <2>1. own[r] \in Generation /\ own'[r] = [own[r] EXCEPT !.slots = k]
    BY <1>2 DEF IInv, TypeOK
  <2> QED BY <2>1 DEF Generation
<1>6. \A t \in Sessions, n \in Nat \ {0} : Has(t, n) => n <= started
  BY DEF IInv, Apart
<1>7. \A t \in Sessions : plan[t] # started + 1
  BY <1>1, <1>6, Domains DEF Has
<1>8. \A q \in Runs : own[q].slots # started + 1
  BY <1>1, <1>6, Domains DEF Has, IInv, TypeOK, Generation
<1>9. ASSUME NEW q \in Runs PROVE Backed(q)' /\ Filed(q)' /\ OwnSlots(q)'
  <2>1. CASE q = r
    BY <2>1, <1>1, <1>3, <1>4, <1>5, <1>7 DEF Backed, Filed, OwnSlots, Past
  <2>2. CASE q # r
    <3>1. Backed(q) /\ Filed(q) /\ OwnSlots(q) /\ Of(q) \in Sessions
      BY Domains DEF BInv
    <3>2. Backed(q)' /\ Filed(q)'
      BY <2>2, <3>1, <1>2, <1>4 DEF Backed, Filed, Past
    <3>3. OwnSlots(q)'
      BY <2>2, <3>1, <1>3, <1>4, <1>8 DEF OwnSlots
    <3> QED BY <3>2, <3>3
  <2> QED BY <2>1, <2>2
<1>10. ASSUME NEW t \in Sessions PROVE Over(t)' /\ Readable(t)'
  <2>1. Over(t) /\ Readable(t)
    BY DEF BInv
  <2>2. ledger'[t].returned => plan'[t] = plan[t] /\ ~(Of(r) = t /\ IsRound(r))
    BY <1>2, <1>3
  <2>3. Over(t)'
    BY <2>1, <2>2, <1>2, <1>4 DEF Over
  <2>4. Readable(t)'
    BY <2>1, <2>2, <1>2 DEF Readable, HasBoard
  <2> QED BY <2>3, <2>4
<1> QED BY <1>2, <1>9, <1>10 DEF BInv

(* What a complete generation restores.                                    *)
LEMMA CompleteBacked ==
  ASSUME NEW s, NEW g, NEW d \in Generation, NEW round, Complete(s, g, d, round)
  PROVE  /\ \A l \in Lenses : Reconstructed(s, g, d).lanes[l] = "board" =>
              Meta(g, l, d.slots) \in metas[s]
         /\ Missing(Reconstructed(s, g, d).lanes) = {}
         /\ Reconstructed(s, g, d).drafting = d.drafting
<1>1. /\ \A l \in Lenses : Reconstructed(s, g, d).lanes[l] =
           IF d.lanes[l] = "none" /\ HasBoard(s, g, d, l) THEN "board" ELSE d.lanes[l]
      /\ Reconstructed(s, g, d).drafting = d.drafting
  BY DEF Reconstructed, Generation
<1>2. \A l \in Lenses : d.lanes[l] = "board" => HasBoard(s, g, d, l)
  BY DEF Complete
<1>3. Missing(Reconstructed(s, g, d).lanes) = {}
  BY DEF Complete
<1>4. \A l \in Lenses : HasBoard(s, g, d, l) => Meta(g, l, d.slots) \in metas[s]
  BY DEF HasBoard
<1> QED BY <1>1, <1>2, <1>3, <1>4

LEMMA EnterBooks ==
  ASSUME IInv, BInv, NEW r \in Runs, Enter(r)
  PROVE  BInv'
<1>1. PICK moved \in BOOLEAN :
        LET d == Selected(r, moved)
        IN IF Complete(Of(r), gen[r], d, IsRound(r))
             THEN /\ own' = [own EXCEPT ![r] = Reconstructed(Of(r), gen[r], d)]
                  /\ Goto(r, IF IsRound(r) THEN "verifyStored" ELSE "drafted")
             ELSE /\ own' = [own EXCEPT ![r] = Attempt(r, d)]
                  /\ Goto(r, "clear")
  BY DEF Enter
<1>2. /\ pc[r] = "waiting" /\ UNCHANGED <<doc, metas, ledger, plan, gen, prior, seen, pred>>
  BY DEF Enter, records, store
<1> DEFINE d == Selected(r, moved)
<1>3. d \in Generation /\ own[r] \in Generation
  BY SelectedTyped DEF IInv, TypeOK
<1>4. \E o \in Generation, p \in {"verifyStored", "drafted", "clear"} :
        /\ own' = [own EXCEPT ![r] = o] /\ pc' = [pc EXCEPT ![r] = p]
        /\ p = "clear" => o.slots = own[r].slots
        /\ p = "verifyStored" => IsRound(r)
        /\ \A l \in Lenses : o.lanes[l] = "board" => Meta(gen[r], l, o.slots) \in metas[Of(r)]
        /\ ~o.drafting => Missing(o.lanes) = {}
  <2>1. CASE Complete(Of(r), gen[r], d, IsRound(r))
    <3> DEFINE o == Reconstructed(Of(r), gen[r], d)
               p == IF IsRound(r) THEN "verifyStored" ELSE "drafted"
    <3>1. own' = [own EXCEPT ![r] = o] /\ pc' = [pc EXCEPT ![r] = p]
      BY <2>1, <1>1 DEF Goto
    <3>2. o \in Generation /\ o.slots = d.slots
      BY <1>3, ReconstructedTyped
    <3>3. /\ \A l \in Lenses : o.lanes[l] = "board" => Meta(gen[r], l, d.slots) \in metas[Of(r)]
          /\ ~o.drafting => Missing(o.lanes) = {}
      BY <2>1, <1>3, CompleteBacked
    <3>4. p \in {"verifyStored", "drafted"} /\ (p = "verifyStored" => IsRound(r))
      OBVIOUS
    <3> HIDE DEF o, p, d
    <3> QED BY <3>1, <3>2, <3>3, <3>4
  <2>2. CASE ~Complete(Of(r), gen[r], d, IsRound(r))
    <3> DEFINE o == Attempt(r, d)
    <3>1. own' = [own EXCEPT ![r] = o] /\ pc' = [pc EXCEPT ![r] = "clear"]
      BY <2>2, <1>1 DEF Goto
    <3>2. o \in Generation /\ o.slots = own[r].slots /\ o.drafting /\ o.lanes = Unsettled
      BY <1>3, AttemptTyped
    <3>3. \A l \in Lenses : o.lanes[l] # "board"
      BY <3>2 DEF Unsettled
    <3> HIDE DEF o
    <3> QED BY <3>1, <3>2, <3>3
  <2> QED BY <2>1, <2>2
<1>5. PICK o \in Generation, p \in {"verifyStored", "drafted", "clear"} :
        /\ own' = [own EXCEPT ![r] = o] /\ pc' = [pc EXCEPT ![r] = p]
        /\ p = "clear" => o.slots = own[r].slots
        /\ p = "verifyStored" => IsRound(r)
        /\ \A l \in Lenses : o.lanes[l] = "board" => Meta(gen[r], l, o.slots) \in metas[Of(r)]
        /\ ~o.drafting => Missing(o.lanes) = {}
  BY <1>4
<1>6. own'[r] = o /\ pc'[r] = p /\ Others(r)
  BY <1>2, <1>5 DEF Others, IInv, TypeOK
<1>7. Backed(r) /\ OwnSlots(r)
  BY DEF BInv
<1>8. Backed(r)' /\ Filed(r)' /\ OwnSlots(r)'
  BY <1>2, <1>5, <1>6, <1>7 DEF Backed, Filed, OwnSlots, Past
<1>9. Readable(Of(r))'
  BY <1>2, Domains, ReadableHeld
<1> QED BY <1>2, <1>6, <1>8, <1>9, BookKept

LEMMA VerifyStoredBooks ==
  ASSUME IInv, BInv, NEW r \in Runs, VerifyStored(r)
  PROVE  BInv'
<1>1. /\ pc[r] = "verifyStored" /\ Past(r)
      /\ UNCHANGED <<doc, metas, ledger, plan, gen, prior, seen, pred>>
  BY DEF VerifyStored, Past, records, store
<1>2. PICK o \in Generation, p \in {"drafted", "clear"} :
        /\ own' = [own EXCEPT ![r] = o] /\ pc' = [pc EXCEPT ![r] = p]
        /\ o.slots = own[r].slots
        /\ \A l \in Lenses : o.lanes[l] = "board" => own[r].lanes[l] = "board"
        /\ ~o.drafting => o = own[r]
  <2>1. CASE Goto(r, "drafted") /\ UNCHANGED own
    <3>1. own' = [own EXCEPT ![r] = own[r]]
      BY <2>1, <1>1, PastFacts
    <3> QED BY <2>1, <3>1, <1>1, PastFacts DEF Goto
  <2>2. CASE Goto(r, "clear") /\ own' = [own EXCEPT ![r] = Attempt(r, @)]
    <3> DEFINE o == Attempt(r, own[r])
    <3>1. o \in Generation /\ o.slots = own[r].slots /\ o.drafting /\ o.lanes = Unsettled
      BY <1>1, PastFacts, AttemptTyped
    <3>2. \A l \in Lenses : o.lanes[l] # "board"
      BY <3>1 DEF Unsettled
    <3>3. own' = [own EXCEPT ![r] = o] /\ pc' = [pc EXCEPT ![r] = "clear"]
      BY <2>2, <1>1, PastFacts DEF Goto
    <3> HIDE DEF o
    <3> QED BY <3>1, <3>2, <3>3
  <2> QED BY <2>1, <2>2 DEF VerifyStored
<1>3. own'[r] = o /\ pc'[r] = p /\ Others(r)
  BY <1>1, <1>2, PastFacts DEF Others
<1>4. Backed(r) /\ IsRound(r)
  BY <1>1 DEF BInv, OwnSlots
<1>5. Backed(r)' /\ Filed(r)' /\ OwnSlots(r)'
  BY <1>1, <1>2, <1>3, <1>4 DEF BInv, Backed, Filed, OwnSlots, Past
<1>6. Readable(Of(r))'
  BY <1>1, Domains, ReadableHeld
<1> QED BY <1>1, <1>3, <1>5, <1>6, BookKept

(* A run that leaves, having written or not.                               *)
LEMMA LeaveBooks ==
  ASSUME IInv, BInv, NEW r \in Runs, Past(r), Leave(r),
         UNCHANGED <<metas, plan, ledger>>,
         \A t \in Sessions \ {Of(r)} : doc'[t] = doc[t],
         Readable(Of(r))'
  PROVE  BInv'
<1>1. pc'[r] = "idle" /\ gen'[r] = First /\ pc[r] # "idle"
  BY DEF Leave, Goto, IInv, TypeOK, Past
<1>2. Backed(r)' /\ Filed(r)' /\ OwnSlots(r)'
  BY <1>1 DEF Backed, Filed, OwnSlots, Past
<1> QED BY <1>1, <1>2, LeaveFacts, BookKept

LEMMA FailsBooks ==
  ASSUME IInv, BInv, NEW r \in Runs, Fails(r)
  PROVE  BInv'
<1>1. Past(r) /\ Leave(r) /\ UNCHANGED <<doc, metas, ledger, plan>>
  BY DEF Fails, Past, records, store
<1>2. Readable(Of(r))'
  BY <1>1, Domains, ReadableHeld
<1> QED BY <1>1, <1>2, LeaveBooks

LEMMA ClearBooks ==
  ASSUME IInv, BInv, NEW r \in Runs, Clear(r)
  PROVE  BInv'
<1> DEFINE s == Of(r)
           old == {m \in Drafted(s, gen[r]) : m.slots = own[r].slots /\ m.lens # "report"}
<1>1. /\ pc[r] = "clear" /\ Past(r)
      /\ UNCHANGED <<doc, ledger, plan, gen, prior, own, seen, pred>>
  BY DEF Clear, Past, attempt, store
<1>2. \/ pc' = [pc EXCEPT ![r] = "claim"] /\ UNCHANGED metas
      \/ pc' = pc /\ \E m \in old : metas' = [metas EXCEPT ![s] = @ \ {m}]
  BY DEF Clear, Goto
<1>3. \A m \in old : m.slots = own[r].slots
  OBVIOUS
<1>3a. metas' = metas \/ \E M : metas' = [metas EXCEPT ![s] = M]
  BY <1>2
<1> HIDE DEF old
<1>4. pc'[r] \in {"clear", "claim"} /\ \A q \in Runs \ {r} : pc'[q] = pc[q]
  BY <1>1, <1>2, PastFacts
<1>5. Others(r)
  BY <1>1, <1>4 DEF Others
<1>6. /\ \A t \in Sessions \ {s} : metas'[t] = metas[t]
      /\ \A m \in metas[s] : m.slots # own[r].slots => m \in metas'[s]
  <2>1. CASE UNCHANGED metas
    BY <2>1
  <2>2. CASE \E m \in old : metas' = [metas EXCEPT ![s] = @ \ {m}]
    <3>1. PICK m \in old : metas' = [metas EXCEPT ![s] = @ \ {m}]
      BY <2>2
    <3>2. m.slots = own[r].slots
      BY <1>3
    <3>3. \A t \in Sessions \ {s} : metas'[t] = metas[t]
      BY <3>1
    <3>4. metas'[s] = metas[s] \ {m} \/ metas'[s] = metas[s]
      BY <3>1
    <3> QED BY <3>2, <3>3, <3>4
  <2> QED BY <2>1, <2>2, <1>2
<1>7. /\ Backed(r) /\ OwnSlots(r) /\ Claiming(r) /\ s \in Sessions
  BY Domains DEF BInv, IInv, RunInv
<1>8. \A l \in Lenses : own[r].lanes[l] # "board"
  BY <1>1, <1>7 DEF Claiming, Unsettled
<1>9. Backed(r)'
  <2>1. own[r].drafting
    BY <1>1, <1>7 DEF Claiming
  <2> QED BY <2>1, <1>1, <1>4, <1>7, <1>8 DEF Backed
<1>10. Filed(r)' /\ OwnSlots(r)'
  BY <1>1, <1>4, <1>7 DEF Filed, OwnSlots
<1>11. Readable(s)'
  <2> SUFFICES ASSUME ledger[s].returned, doc[s].slots = plan[s]
      PROVE /\ ~doc[s].drafting
            /\ Missing(doc[s].lanes) = {}
            /\ \A l \in Lenses : doc[s].lanes[l] = "board" => HasBoard(s, s, doc[s], l)'
    BY <1>1 DEF Readable
  <2>1. own[r].slots # doc[s].slots
    BY <1>1, <1>7, OpenAfterReturn DEF OwnSlots
  <2>2. Readable(s)
    BY <1>7 DEF BInv
  <2>3. ASSUME NEW l \in Lenses, doc[s].lanes[l] = "board"
        PROVE  HasBoard(s, s, doc[s], l)'
    <3>1. Names(doc[s], l) /\ Meta(s, l, doc[s].slots) \in metas[s]
      BY <2>2, <2>3 DEF Readable, HasBoard
    <3>2. Meta(s, l, doc[s].slots) \in metas'[s]
      BY <3>1, <2>1, <1>6 DEF Meta
    <3> QED BY <3>1, <3>2, <1>1 DEF HasBoard, Names
  <2> QED BY <2>2, <2>3 DEF Readable
<1> QED BY <1>1, <1>5, <1>6, <1>9, <1>10, <1>11, <1>3a, BookKept

LEMMA ClaimBooks ==
  ASSUME IInv, BInv, NEW r \in Runs, Claim(r)
  PROVE  BInv'
<1> DEFINE s == Of(r)
           p == IF IsRound(r) THEN "report" ELSE "draft"
<1>1. /\ pc[r] = "claim" /\ Past(r) /\ pc' = [pc EXCEPT ![r] = p]
      /\ Save(gen[r], own[r])
      /\ UNCHANGED <<metas, plan, ledger, gen, prior, own, seen, pred>>
  BY DEF Claim, Past, Goto, attempt, records
<1>2. p \in {"report", "draft"}
  OBVIOUS
<1> HIDE DEF p
<1>3. Others(r) /\ pc'[r] = p /\ s \in Sessions
  BY <1>1, PastFacts DEF Others
<1>4. Backed(r) /\ OwnSlots(r) /\ Claiming(r)
  BY DEF BInv, IInv, RunInv
<1>5. doc'[gen[r]] = own[r] /\ \A h \in Gens \ {gen[r]} : doc'[h] = doc[h]
  BY <1>1, PastFacts, Saved
<1>6. \A t \in Sessions \ {s} : doc'[t] = doc[t]
  BY <1>4, <1>5, OwnershipAssumption DEF Backed, Gens
<1>7. Backed(r)'
  <2>1. own[r].drafting
    BY <1>1, <1>4 DEF Claiming
  <2> QED BY <2>1, <1>1, <1>2, <1>3, <1>4 DEF Backed, Past
<1>8. Filed(r)' /\ OwnSlots(r)'
  BY <1>1, <1>2, <1>3, <1>4 DEF Filed, OwnSlots
<1>9. Readable(s)'
  <2>1. CASE gen[r] = s /\ ledger[s].returned
    <3>1. doc'[s].slots # plan[s]
      BY <2>1, <1>1, <1>4, <1>5, OpenAfterReturn DEF OwnSlots
    <3> QED BY <3>1, <1>1 DEF Readable
  <2>2. CASE ~ledger[s].returned
    BY <2>2, <1>1 DEF Readable
  <2>3. CASE gen[r] # s
    <3>1. doc'[s] = doc[s] /\ Readable(s)
      BY <2>3, <1>3, <1>5, Domains DEF BInv
    <3> QED BY <3>1, <1>1 DEF Readable, HasBoard
  <2> QED BY <2>1, <2>2, <2>3
<1> QED BY <1>1, <1>3, <1>6, <1>7, <1>8, <1>9, BookKept

LEMMA ReportBooks ==
  ASSUME IInv, BInv, NEW r \in Runs, Report(r)
  PROVE  BInv'
<1> DEFINE s == Of(r)
           m == Meta(gen[r], "report", own[r].slots)
<1>1. /\ pc[r] = "report" /\ Past(r) /\ pc' = [pc EXCEPT ![r] = "draft"]
      /\ metas' = [metas EXCEPT ![s] = @ \cup {m}]
      /\ UNCHANGED <<doc, ledger, plan, gen, prior, own, seen, pred>>
  BY DEF Report, Past, Goto, attempt, store
<1> HIDE DEF m
<1>2. Others(r) /\ pc'[r] = "draft" /\ s \in Sessions
  BY <1>1, PastFacts DEF Others
<1>3. /\ \A t \in Sessions \ {s} : metas'[t] = metas[t]
      /\ metas[s] \subseteq metas'[s]
  BY <1>1
<1>4. Backed(r) /\ OwnSlots(r)
  BY DEF BInv
<1>5. Backed(r)' /\ Filed(r)' /\ OwnSlots(r)'
  BY <1>1, <1>2, <1>3, <1>4 DEF Backed, Filed, OwnSlots, Past
<1>6. Readable(s)'
  BY <1>1, <1>2, <1>3, ReadableHeld
<1> QED BY <1>1, <1>2, <1>3, <1>5, <1>6, BookKept

LEMMA SettleBooks ==
  ASSUME IInv, BInv, NEW r \in Runs, Settle(r)
  PROVE  BInv'
<1> DEFINE s == Of(r)
<1>1. /\ pc[r] = "draft" /\ Past(r) /\ pc' = [pc EXCEPT ![r] = "reveal"]
      /\ UNCHANGED <<doc, ledger, plan, gen, prior, seen, pred>>
  BY DEF Settle, Past, Goto, store
<1>2. PICK l \in Lenses, o \in {"board", "absent", "failed", "retry"} :
        /\ own[r].lanes[l] = "none"
        /\ own' = [own EXCEPT ![r].lanes[l] = o]
        /\ metas' = [metas EXCEPT ![s] = IF o = "board" THEN @ \cup {Meta(gen[r], l, own[r].slots)}
                                                         ELSE @]
  BY DEF Settle, Outcomes
<1>3. s \in Sessions /\ own[r] \in Generation /\ own \in [Runs -> Generation]
  BY <1>1, PastFacts
<1> DEFINE L == [own[r].lanes EXCEPT ![l] = o]
<1>4. own' = [own EXCEPT ![r] = [own[r] EXCEPT !.lanes = L]]
  BY <1>2, <1>3 DEF Generation
<1>5. /\ own'[r].slots = own[r].slots /\ own'[r].drafting = own[r].drafting
      /\ own'[r].lanes = L /\ \A q \in Runs \ {r} : own'[q] = own[q]
  BY <1>3, <1>4 DEF Generation
<1>6. \A k \in Lenses : L[k] = (IF k = l THEN o ELSE own[r].lanes[k])
  BY <1>3 DEF Generation, Lanes
<1> HIDE DEF L
<1>7. Others(r) /\ pc'[r] = "reveal"
  BY <1>1, <1>5, PastFacts DEF Others
<1>8. /\ \A t \in Sessions \ {s} : metas'[t] = metas[t]
      /\ metas[s] \subseteq metas'[s]
      /\ o = "board" => Meta(gen[r], l, own[r].slots) \in metas'[s]
  BY <1>2, <1>3 DEF BInv
<1>9. Backed(r) /\ OwnSlots(r)
  BY DEF BInv
<1>10. Backed(r)'
  <2>1. own'[r].drafting \/ l \notin Core
    BY <1>1, <1>2, <1>5, <1>9 DEF Backed, Past, Missing
  <2>2. \A k \in Lenses : own'[r].lanes[k] = "board" =>
          Meta(gen'[r], k, own'[r].slots) \in metas'[s]
    BY <1>1, <1>2, <1>5, <1>6, <1>8, <1>9 DEF Backed
  <2>3. ~own'[r].drafting => Missing(own'[r].lanes) = {}
    BY <1>1, <1>5, <1>6, <1>9, <2>1, Domains DEF Backed, Missing
  <2> QED BY <1>1, <1>7, <1>9, <2>2, <2>3 DEF Backed
<1>11. Filed(r)' /\ OwnSlots(r)'
  BY <1>1, <1>5, <1>7, <1>9 DEF Filed, OwnSlots
<1>12. Readable(s)'
  BY <1>1, <1>3, <1>8, ReadableHeld
<1>13. \E M : metas' = [metas EXCEPT ![s] = M]
  BY <1>2
<1> QED BY <1>1, <1>7, <1>8, <1>10, <1>11, <1>12, <1>13, BookKept

(* A step that changes where a run is and leaves all else it drafts by.    *)
LEMMA PlaceBooks ==
  ASSUME IInv, BInv, NEW r \in Runs, Past(r), Others(r),
         UNCHANGED <<doc, metas, ledger, plan, gen, own>>,
         pc'[r] \in {pc[r], "draft", "drafted", "judge", "reject", "file"},
         pc'[r] = "draft" => pc[r] \in {"draft", "reveal"},
         pc'[r] = "file" => Missing(own[r].lanes) = {}
  PROVE  BInv'
<1>1. Backed(r) /\ Filed(r) /\ OwnSlots(r)
  BY DEF BInv
<1>2. Backed(r)'
  BY <1>1 DEF Backed, Past
<1>3. Filed(r)' /\ OwnSlots(r)'
  BY <1>1 DEF Filed, OwnSlots, Past
<1>4. Readable(Of(r))'
  BY Domains, ReadableHeld
<1> QED BY <1>2, <1>3, <1>4, BookKept DEF Past

LEMMA RefusedBooks ==
  ASSUME IInv, BInv, NEW r \in Runs, pc[r] \in Saving, Refused(r),
         UNCHANGED <<store, records, budgets>>
  PROVE  BInv'
<1>1. Past(r) /\ UNCHANGED <<doc, metas, ledger, plan>>
  BY DEF Past, Saving, records, store
<1>2. CASE pc[r] = "reveal"
  <2>1. /\ pc' \in {[pc EXCEPT ![r] = "draft"], [pc EXCEPT ![r] = "drafted"]}
        /\ seen' = [seen EXCEPT ![r] = 0] /\ UNCHANGED <<gen, prior, own, pred>>
    BY <1>2 DEF Refused, Revealed, Goto
  <2>2. pc'[r] \in {"draft", "drafted"} /\ Others(r)
    BY <2>1, <1>1, PastFacts DEF Others
  <2> QED BY <1>1, <1>2, <2>1, <2>2, PlaceBooks
<1>3. CASE pc[r] # "reveal"
  <2>1. Leave(r) /\ Readable(Of(r))'
    BY <1>1, <1>3, Domains, ReadableHeld DEF Refused
  <2> QED BY <1>1, <2>1, LeaveBooks
<1> QED BY <1>2, <1>3

LEMMA ReadVersionBooks ==
  ASSUME IInv, BInv, NEW r \in Runs, ReadVersion(r)
  PROVE  BInv'
<1>1. pc[r] \in Saving /\ Past(r) /\ UNCHANGED <<store, records, budgets>>
  BY DEF ReadVersion, Past, Saving
<1>2. CASE rev[gen[r]] > 0 /\ SameDraftingAttempt(doc[gen[r]], own[r])
  <2>1. /\ seen' = [seen EXCEPT ![r] = rev[gen[r]]]
        /\ UNCHANGED <<pc, gen, prior, own, pred, doc, metas, ledger, plan>>
    BY <1>1, <1>2 DEF ReadVersion, records, store
  <2>2. Others(r)
    BY <2>1 DEF Others
  <2>3. pc[r] = "file" => Missing(own[r].lanes) = {}
    BY DEF BInv, Backed
  <2>4. pc'[r] = pc[r]
    BY <2>1
  <2> QED BY <1>1, <2>1, <2>2, <2>3, <2>4, PlaceBooks DEF Saving
<1>3. CASE ~(rev[gen[r]] > 0 /\ SameDraftingAttempt(doc[gen[r]], own[r]))
  BY <1>1, <1>3, RefusedBooks DEF ReadVersion
<1> QED BY <1>2, <1>3

(* An open that writes a returned round's generation drafts an attempt of  *)
(* its own, or writes back what it restored whole.                         *)
LEMMA SaveReadable ==
  ASSUME IInv, BInv, NEW r \in Runs, SaveIfRevision(r), rev[gen[r]] = seen[r]
  PROVE  Readable(Of(r))'
<1> DEFINE s == Of(r)
           d == Written(r)
<1>1. /\ pc[r] \in Saving /\ Past(r) /\ seen[r] # 0 /\ s \in Sessions
      /\ Save(gen[r], d) /\ UNCHANGED <<metas, plan, ledger>>
  BY Domains DEF SaveIfRevision, Past, Saving, records
<1>2. /\ d \in Generation /\ d.slots = own[r].slots /\ d.lanes = own[r].lanes
      /\ pc[r] # "reveal" => ~d.drafting
  BY <1>1, WrittenFacts DEF Saving
<1> HIDE DEF d
<1>3. doc'[gen[r]] = d /\ \A h \in Gens \ {gen[r]} : doc'[h] = doc[h]
  BY <1>1, <1>2, PastFacts, Saved
<1>4. Backed(r) /\ OwnSlots(r) /\ Readable(s)
  BY <1>1 DEF BInv
<1>5. CASE gen[r] # s
  <2>1. doc'[s] = doc[s]
    BY <1>1, <1>3, <1>5, Domains
  <2> QED BY <2>1, <1>1, <1>4 DEF Readable, HasBoard
<1>6. CASE gen[r] = s
  <2> SUFFICES ASSUME ledger[s].returned, own[r].slots = plan[s]
      PROVE /\ ~d.drafting
            /\ Missing(d.lanes) = {}
            /\ \A l \in Lenses : d.lanes[l] = "board" =>
                 Names(d, l) /\ Meta(s, l, d.slots) \in metas[s]
    BY <1>1, <1>2, <1>3, <1>6 DEF Readable, HasBoard
  <2>1. ~IsRound(r) /\ plan[s] # 0
    BY <1>1, OpenAfterReturn DEF Past
  <2>2. pc[r] # "reveal"
    BY <2>1, <1>4 DEF OwnSlots
  <2>3. SameDraftingAttempt(doc[s], own[r])
    BY <1>1, <1>6, PastFacts DEF RunInv, Reading
  <2>4. ~own[r].drafting
    BY <2>3, <1>4 DEF Readable, SameDraftingAttempt
  <2>5. Missing(own[r].lanes) = {}
    BY <2>4, <1>1, <1>4 DEF Backed
  <2>6. \A l \in Lenses : own[r].lanes[l] = "board" => Meta(s, l, own[r].slots) \in metas[s]
    BY <1>1, <1>4, <1>6 DEF Backed
  <2> QED BY <2>1, <2>2, <2>5, <2>6, <1>1, <1>2 DEF Names
<1> QED BY <1>5, <1>6

LEMMA SaveIfRevisionBooks ==
  ASSUME IInv, BInv, NEW r \in Runs, SaveIfRevision(r)
  PROVE  BInv'
<1>1. /\ pc[r] \in Saving /\ Past(r) /\ UNCHANGED <<records, budgets>>
      /\ UNCHANGED <<metas, plan, ledger>> /\ Of(r) \in Sessions
  BY Domains DEF SaveIfRevision, Past, Saving, records
<1>2. CASE rev[gen[r]] # seen[r]
  BY <1>1, <1>2, RefusedBooks DEF SaveIfRevision
<1>3. CASE rev[gen[r]] = seen[r]
  <2> DEFINE s == Of(r)
             d == Written(r)
  <2>1. Save(gen[r], d) /\ Accepted(r) /\ Readable(s)'
    BY <1>3, SaveReadable DEF SaveIfRevision
  <2>2. /\ d \in Generation /\ d.slots = own[r].slots /\ d.lanes = own[r].lanes
        /\ pc[r] # "reveal" => ~d.drafting
    BY <1>1, WrittenFacts DEF Saving
  <2> HIDE DEF d
  <2>3. doc'[gen[r]] = d /\ \A h \in Gens \ {gen[r]} : doc'[h] = doc[h]
    BY <1>1, <2>1, <2>2, PastFacts, Saved
  <2>4. Backed(r) /\ OwnSlots(r)
    BY DEF BInv
  <2>5. \A t \in Sessions \ {s} : doc'[t] = doc[t]
    BY <2>3, <2>4, OwnershipAssumption DEF Backed, Gens
  <2>6. CASE pc[r] = "reveal"
    <3>1. /\ pc' \in {[pc EXCEPT ![r] = "draft"], [pc EXCEPT ![r] = "drafted"]}
          /\ seen' = [seen EXCEPT ![r] = 0] /\ UNCHANGED <<gen, prior, own, pred>>
      BY <2>1, <2>6 DEF Accepted, Revealed, Goto
    <3>2. pc'[r] \in {"draft", "drafted"} /\ Others(r)
      BY <3>1, <1>1, PastFacts DEF Others
    <3>3. Backed(r)' /\ Filed(r)' /\ OwnSlots(r)'
      BY <1>1, <2>4, <2>6, <3>1, <3>2 DEF Backed, Filed, OwnSlots, Past
    <3> QED BY <1>1, <2>1, <2>5, <3>2, <3>3, BookKept DEF Past
  <2>7. CASE pc[r] = "file" /\ IsRound(r)
    <3>1. /\ pc' = [pc EXCEPT ![r] = "freeze"] /\ seen' = [seen EXCEPT ![r] = 0]
          /\ UNCHANGED <<gen, prior, own, pred>>
      BY <2>1, <2>7 DEF Accepted, Goto
    <3>2. pc'[r] = "freeze" /\ Others(r)
      BY <3>1, <1>1, PastFacts DEF Others
    <3>3. Backed(r)' /\ OwnSlots(r)'
      BY <1>1, <2>4, <2>7, <3>1, <3>2 DEF Backed, OwnSlots, Past
    <3>4. Filed(r)'
      BY <2>2, <2>3, <2>4, <2>7, <3>1, <3>2 DEF Filed, Backed
    <3> QED BY <1>1, <2>1, <2>5, <3>2, <3>3, <3>4, BookKept DEF Past
  <2>8. CASE pc[r] # "reveal" /\ ~(pc[r] = "file" /\ IsRound(r))
    <3>1. Leave(r)
      BY <2>1, <2>8 DEF Accepted
    <3> QED BY <1>1, <2>1, <2>5, <3>1, LeaveBooks
  <2> QED BY <2>6, <2>7, <2>8
<1> QED BY <1>2, <1>3

LEMMA DraftBooks ==
  ASSUME IInv, BInv, NEW r \in Runs, Draft(r)
  PROVE  BInv'
<1>1. /\ pc[r] = "drafted" /\ Past(r) /\ UNCHANGED <<doc, metas, ledger, plan>>
  BY DEF Draft, Past, records, store
<1>2. CASE over[r]
  <2>1. Leave(r) /\ Readable(Of(r))'
    BY <1>1, <1>2, Domains, ReadableHeld DEF Draft
  <2> QED BY <1>1, <2>1, LeaveBooks
<1>3. CASE ~over[r]
  <2>1. /\ pc' \in {[pc EXCEPT ![r] = "reject"], [pc EXCEPT ![r] = "judge"]}
        /\ UNCHANGED <<gen, prior, own, seen, pred>>
    BY <1>3 DEF Draft, Goto, attempt
  <2>2. pc'[r] \in {"reject", "judge"} /\ Others(r)
    BY <2>1, <1>1, PastFacts DEF Others
  <2> QED BY <1>1, <2>1, <2>2, PlaceBooks
<1> QED BY <1>2, <1>3

LEMMA JudgeBooks ==
  ASSUME IInv, BInv, NEW r \in Runs, Judge(r)
  PROVE  BInv'
<1> DEFINE whole == Missing(own[r].lanes) = {}
<1>1. /\ pc[r] = "judge" /\ Past(r)
      /\ pc' = [pc EXCEPT ![r] = IF whole THEN "file" ELSE "reject"]
      /\ \E f : pred' = [pred EXCEPT ![r] = f]
      /\ UNCHANGED <<doc, metas, ledger, plan, gen, prior, own, seen>>
  BY DEF Judge, Past, Goto, records, store
<1>2. pc'[r] = IF whole THEN "file" ELSE "reject"
  BY <1>1, PastFacts
<1>3. Others(r)
  BY <1>1, PastFacts DEF Others
<1> QED BY <1>1, <1>2, <1>3, PlaceBooks

LEMMA FreezeBooks ==
  ASSUME IInv, BInv, NEW r \in Runs, Freeze(r)
  PROVE  BInv'
<1>1. /\ pc[r] = "freeze" /\ Past(r) /\ pc' = [pc EXCEPT ![r] = "record"]
      /\ UNCHANGED <<metas, plan, ledger, gen, prior, own, seen>>
      /\ UNCHANGED pred \/ pred' = [pred EXCEPT ![r] = 0]
      /\ Save(First, [doc[First] EXCEPT !.frozen = TRUE]) \/ UNCHANGED store
  BY DEF Freeze, Past, Goto, records
<1>2. \A t \in Sessions : doc'[t] = doc[t]
  BY <1>1, OwnershipAssumption DEF Save, store, IInv, TypeOK, Gens
<1>3. pc'[r] = "record" /\ Others(r)
  BY <1>1, PastFacts DEF Others
<1>4. Backed(r) /\ Filed(r) /\ Readable(Of(r)) /\ Of(r) \in Sessions
  BY Domains DEF BInv
<1>5. Backed(r)' /\ Filed(r)' /\ OwnSlots(r)'
  BY <1>1, <1>2, <1>3, <1>4 DEF BInv, Backed, Filed, OwnSlots, Past
<1>6. Readable(Of(r))'
  BY <1>1, <1>2, <1>4 DEF Readable, HasBoard
<1> QED BY <1>1, <1>2, <1>3, <1>5, <1>6, BookKept

LEMMA RecordBooks ==
  ASSUME IInv, BInv, NEW r \in Runs, Record(r)
  PROVE  BInv'
<1> DEFINE s == Of(r)
<1>1. /\ pc[r] = "record" /\ Past(r) /\ pc' = [pc EXCEPT ![r] = "return"]
      /\ ledger' = [ledger EXCEPT ![s] = [filed |-> TRUE, returned |-> FALSE]]
      /\ UNCHANGED <<doc, metas, plan, gen, prior, own, seen, pred>>
  BY DEF Record, Past, Goto, attempt, store
<1>2. /\ pc'[r] = "return" /\ Others(r) /\ ~ledger'[s].returned
      /\ \A t \in Sessions \ {s} : ledger'[t] = ledger[t]
  BY <1>1, PastFacts DEF Others
<1>3. Backed(r) /\ Filed(r)
  BY DEF BInv
<1>4. Backed(r)' /\ Filed(r)' /\ OwnSlots(r)'
  BY <1>1, <1>2, <1>3 DEF BInv, Backed, Filed, OwnSlots, Past
<1>5. Over(s)' /\ Readable(s)'
  BY <1>2 DEF Over, Readable
<1> QED BY <1>1, <1>2, <1>4, <1>5, BookOthers DEF BInv

LEMMA RoundsOne ==
  ASSUME NEW q \in Runs, NEW r \in Runs, Of(q) = Of(r), IsRound(q), IsRound(r)
  PROVE  q = r
BY DEF Runs, Of, IsRound

LEMMA ReturnBooks ==
  ASSUME IInv, BInv, NEW r \in Runs, Return(r)
  PROVE  BInv'
<1> DEFINE s == Of(r)
<1>1. /\ pc[r] = "return" /\ Past(r) /\ Leave(r)
      /\ ledger' = [ledger EXCEPT ![s].returned = TRUE]
      /\ UNCHANGED <<doc, metas, plan>>
  BY DEF Return, Past, store
<1>2. /\ pc'[r] = "idle" /\ gen'[r] = First /\ Others(r)
      /\ \A t \in Sessions \ {s} : ledger'[t] = ledger[t]
  BY <1>1, LeaveFacts, PastFacts DEF Leave, Goto, IInv, TypeOK
<1>3. Backed(r) /\ Filed(r) /\ s \in Sessions
  BY Domains DEF BInv
<1>4. IsRound(r) /\ gen[r] = s
  BY <1>1, <1>3 DEF Filed, Backed
<1>5. Backed(r)' /\ Filed(r)' /\ OwnSlots(r)'
  BY <1>2 DEF Backed, Filed, OwnSlots, Past
<1>6. Readable(s)'
  <2>1. /\ ~doc[s].drafting /\ Missing(doc[s].lanes) = {}
        /\ doc[s].slots # 0
        /\ \A l \in Lenses : doc[s].lanes[l] = "board" =>
             Meta(s, l, doc[s].slots) \in metas[s]
    BY <1>1, <1>3, <1>4, PastFacts DEF Filed, Backed
  <2> QED BY <2>1, <1>1 DEF Readable, HasBoard, Names
<1>7. Over(s)'
  <2>1. \A q \in Runs : Of(q) = s /\ IsRound(q) => pc'[q] = "idle"
    BY <1>2, <1>4, RoundsOne
  <2>2. plan[s] # 0
    BY <1>1, <1>4 DEF BInv, OwnSlots
  <2> QED BY <2>1, <2>2, <1>1 DEF Over
<1> QED BY <1>1, <1>2, <1>5, <1>6, <1>7, BookOthers DEF BInv

LEMMA CrashBooks ==
  ASSUME IInv, BInv, NEW S \in SUBSET Sessions, Crash(S)
  PROVE  BInv'
<1>1. /\ pc' = [r \in Runs |-> IF Of(r) \in S THEN "idle" ELSE pc[r]]
      /\ gen' = [r \in Runs |-> IF Of(r) \in S THEN First ELSE gen[r]]
      /\ own' = [r \in Runs |-> IF Of(r) \in S THEN MintGeneration ELSE own[r]]
      /\ UNCHANGED <<doc, metas, ledger, plan>>
  BY DEF Crash, store, records
<1>2. ASSUME NEW r \in Runs PROVE Backed(r)' /\ Filed(r)' /\ OwnSlots(r)'
  <2>1. CASE Of(r) \in S
    BY <2>1, <1>1 DEF Backed, Filed, OwnSlots, Past
  <2>2. CASE Of(r) \notin S
    BY <2>2, <1>1 DEF BInv, Backed, Filed, OwnSlots, Past
  <2> QED BY <2>1, <2>2
<1>3. ASSUME NEW s \in Sessions PROVE Over(s)' /\ Readable(s)'
  <2>1. Over(s)'
    BY <1>1 DEF BInv, Over
  <2>2. Readable(s)'
    BY <1>1, ReadableHeld
  <2> QED BY <2>1, <2>2
<1> QED BY <1>1, <1>2, <1>3 DEF BInv

LEMMA NextBooks == IInv /\ BInv /\ Next => BInv'
<1> SUFFICES ASSUME IInv, BInv, Next PROVE BInv'
  OBVIOUS
<1>1. CASE \E S \in SUBSET Sessions \ {{}} : Crash(S)
  BY <1>1, CrashBooks
<1>2. CASE \E r \in Runs : \/ Start(r) \/ Enter(r) \/ Fails(r)
                           \/ Drafting(r) \/ Persisting(r) \/ Ending(r)
  <2>1. PICK r \in Runs : \/ Start(r) \/ Enter(r) \/ Fails(r)
                          \/ Drafting(r) \/ Persisting(r) \/ Ending(r)
    BY <1>2
  <2>2. CASE Start(r) \/ Enter(r) \/ Fails(r)
    BY <2>2, StartBooks, EnterBooks, FailsBooks
  <2>3. CASE Drafting(r)
    BY <2>3, ClearBooks, ClaimBooks, ReportBooks, SettleBooks DEF Drafting
  <2>4. CASE Persisting(r)
    BY <2>4, ReadVersionBooks, SaveIfRevisionBooks DEF Persisting
  <2>5. CASE Ending(r)
    BY <2>5, VerifyStoredBooks, DraftBooks, JudgeBooks, FreezeBooks, RecordBooks, ReturnBooks
    DEF Ending
  <2> QED BY <2>1, <2>2, <2>3, <2>4, <2>5
<1> QED BY <1>1, <1>2 DEF Next

LEMMA StutterBooks == BInv /\ UNCHANGED vars => BInv'
BY DEF vars, store, records, attempt, BInv, Backed, Filed, OwnSlots, Over, Readable, Past,
       HasBoard

(* A round that returned left a generation a reader can open: until a      *)
(* later attempt claims it, it is settled, each core lens has its board or *)
(* an absence it admits, and every board it names has its metadata.        *)
THEOREM LeavesReadable == Spec => []ReturnedIsReadable
<1>1. Init => IInv /\ BInv
  BY InitInv, InitBooks
<1>2. IInv /\ BInv /\ [Next]_vars => IInv' /\ BInv'
  BY NextInv, StutterInv, NextBooks, StutterBooks
<1>3. BInv => ReturnedIsReadable
  BY DEF BInv, Readable, ReturnedIsReadable, Missing
<1> QED BY <1>1, <1>2, <1>3, PTL DEF Spec

==============================================================================
