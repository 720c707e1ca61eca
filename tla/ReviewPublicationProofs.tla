------------------------ MODULE ReviewPublicationProofs ------------------------
(***************************************************************************)
(* ReviewPublication for every number of drafts, openers, calls and        *)
(* faults: its type invariant, that a draft has one review on the forge,   *)
(* and that it implements PublishedOnce.                                   *)
(***************************************************************************)
EXTENDS ReviewPublication, TLAPS

-----------------------------------------------------------------------------
(* The inductive invariant.                                                *)

Active(q) == phase[q] # "idle"

(* A draft gets one opener and keeps it, so every preview of it, and all   *)
(* that descends from a preview, carries the same marker.                  *)
OneMarker ==
  /\ \A d \in drafting : opener[d] = 0
  /\ \A m \in previews : m.opener = opener[m.draft]
  /\ inFlight \subseteq previews
  /\ \A m \in Marks : reviews[m] > 0 \/ strays[m] > 0 => m \in previews

(* Calls under way hold their markers, each its own.                       *)
SingleFlight ==
  /\ \A q \in Posters : Active(q) => mark[q] \in inFlight
  /\ \A q, r \in Posters : Active(q) /\ Active(r) /\ mark[q] = mark[r] => q = r

(* A call about to post found no review of its marker, and none has come   *)
(* since but by requests that outlived their calls.                        *)
Counted ==
  /\ \A m \in Marks : landed[m] <= strays[m] /\ reviews[m] <= 1 + landed[m]
  /\ \A q \in Posters : phase[q] \in {"head", "posting"} => reviews[mark[q]] <= landed[mark[q]]

(* What a call goes by when it completes an operation is on the forge.     *)
Evident ==
  /\ \A q \in Posters :
       /\ phase[q] \in {"posted", "approved", "headAgain", "approving", "approvalPosted"}
            => reviews[mark[q]] > 0
       /\ phase[q] = "approvalPosted" => approved
  /\ \A m \in receipts : Whole(m)

IInv == TypeOK /\ OneMarker /\ SingleFlight /\ Counted /\ Evident

-----------------------------------------------------------------------------
(* Initially.                                                              *)

LEMMA InitInv == Init => IInv
<1> SUFFICES ASSUME Init PROVE IInv
  OBVIOUS
<1>1. TypeOK
  <2>1. mark \in [Posters -> Marks]
    BY DEF Init
  <2>2. MaxOpeners \in Nat /\ 0 \in 0..MaxOpeners
    BY PublicationAssumption
  <2>3. phase \in [Posters -> Phases]
    BY DEF Init, Phases
  <2> QED BY <2>1, <2>2, <2>3 DEF Init, TypeOK
<1>2. OneMarker /\ Counted
  BY DEF Init, OneMarker, Counted
<1>3. SingleFlight /\ Evident
  BY DEF Init, SingleFlight, Evident, Active
<1> QED BY <1>1, <1>2, <1>3 DEF IInv

-----------------------------------------------------------------------------
(* How a call moves on.                                                    *)

LEMMA Typed ==
  ASSUME TypeOK
  PROVE  /\ MaxOpeners \in Nat
         /\ \A q \in Posters : mark[q] \in Marks /\ phase[q] \in Phases
         /\ \A m \in Marks : reviews[m] \in Nat /\ strays[m] \in Nat /\ landed[m] \in Nat
BY PublicationAssumption DEF TypeOK

(* A call under way goes on, or ends and leaves the flight; nothing but    *)
(* its own place changes of the calls, and nothing of what is composed.    *)
Moves(q) ==
  /\ \E p \in Phases : /\ phase' = [phase EXCEPT ![q] = p]
                       /\ inFlight' = IF p = "idle" THEN inFlight \ {mark[q]} ELSE inFlight
  /\ UNCHANGED <<mark, draft, compose, batched, landed, edits, posts>>

LEMMA GoesOn ==
  ASSUME NEW q, NEW p \in Phases \ {"idle"}, Goto(q, p)
  PROVE  /\ \E r \in Phases : /\ phase' = [phase EXCEPT ![q] = r]
                              /\ inFlight' = IF r = "idle" THEN inFlight \ {mark[q]} ELSE inFlight
         /\ mark' = mark
BY DEF Goto

LEMMA Ends ==
  ASSUME NEW q, Leave(q)
  PROVE  /\ \E r \in Phases : /\ phase' = [phase EXCEPT ![q] = r]
                              /\ inFlight' = IF r = "idle" THEN inFlight \ {mark[q]} ELSE inFlight
         /\ mark' = mark
BY DEF Leave, Phases

LEMMA StepMoves ==
  ASSUME NEW q \in Posters, Step(q) \/ GiveUp(q)
  PROVE  Moves(q)
<1>1. CASE Query(q)
  BY <1>1, GoesOn, Ends DEF Query, Unposted, Finish, Refuse, Moves, forge, network, budgets, Phases
<1>2. CASE CheckHead(q)
  BY <1>2, GoesOn, Ends DEF CheckHead, Refuse, Moves, network, budgets, Phases
<1>3. CASE CheckApproval(q)
  BY <1>3, GoesOn, Ends DEF CheckApproval, Finish, Moves, network, budgets, Phases
<1>4. CASE Answer(q)
  BY <1>4, GoesOn, Ends DEF Answer, Finish, Moves, network, budgets, Phases
<1>5. CASE ApprovalAnswer(q)
  BY <1>5, Ends DEF ApprovalAnswer, Finish, Moves, network, budgets
<1>6. CASE Land(q)
  BY <1>6, GoesOn DEF Land, Moves, network, budgets, Phases
<1>7. CASE LandApproval(q)
  BY <1>7, GoesOn, Ends DEF LandApproval, Refuse, Moves, network, budgets, Phases
<1>8. CASE GiveUp(q)
  BY <1>8, Ends DEF GiveUp, Refuse, Moves
<1> QED BY <1>1, <1>2, <1>3, <1>4, <1>5, <1>6, <1>7, <1>8 DEF Step

(* Only a request that lands changes the forge. *)
LEMMA OnlyLanding ==
  ASSUME NEW q \in Posters, Step(q) \/ GiveUp(q)
  PROVE  /\ head' = head
         /\ Land(q) \/ reviews' = reviews
         /\ LandApproval(q) \/ approved' = approved
BY DEF Step, Query, CheckHead, CheckApproval, Answer, ApprovalAnswer, Land, LandApproval, GiveUp, forge

(* Whether an approval may still arrive stays a yes or a no.               *)
LEMMA LateStays ==
  ASSUME late \in BOOLEAN, Composing \/ Posting \/ Crash
  PROVE  late' \in BOOLEAN
<1>1. CASE Composing
  BY <1>1 DEF Composing, Compose, Edit, OpenerDrafted, OpenerFailed, network
<1>2. CASE Crash
  BY <1>2, Zenon DEF Crash
<1>3. ASSUME NEW q \in Posters, Step(q) \/ GiveUp(q) PROVE late' \in BOOLEAN
  BY <1>3 DEF Step, Query, CheckHead, CheckApproval, Answer, ApprovalAnswer, Land, LandApproval,
     GiveUp, network
<1>4. ASSUME NEW q \in Posters, NEW m \in Marks, Begin(q, m) PROVE late' \in BOOLEAN
  BY <1>4 DEF Begin, network
<1> QED BY <1>1, <1>2, <1>3, <1>4 DEF Posting

LEMMA TypeStep == TypeOK /\ [Next]_vars => TypeOK'
<1> SUFFICES ASSUME TypeOK, [Next]_vars PROVE TypeOK'
  OBVIOUS
<1> USE Typed
<1>1. CASE UNCHANGED vars
  BY <1>1 DEF vars, compose, call, forge, network, budgets, TypeOK
<1>2. CASE Compose
  <2>1. opener[draft] # 0 => Preview(draft) \in Marks
    BY DEF Preview, Marks, TypeOK
  <2> QED BY <1>2, <2>1 DEF Compose, call, forge, network, budgets, TypeOK
<1>3. ASSUME NEW d \in Drafts, Edit(d) \/ OpenerFailed(d) PROVE TypeOK'
  BY <1>3 DEF Edit, OpenerFailed, compose, call, forge, network, budgets, TypeOK
<1>4. ASSUME NEW d \in Drafts, OpenerDrafted(d) PROVE TypeOK'
  <2>1. nextOpener + 1 \in 1..MaxOpeners
    BY <1>4 DEF OpenerDrafted, TypeOK
  <2>2. [draft |-> d, opener |-> nextOpener + 1] \in Marks
    BY <2>1 DEF Marks
  <2> QED BY <1>4, <2>1, <2>2 DEF OpenerDrafted, call, forge, network, budgets, TypeOK
<1>8. ASSUME NEW q \in Posters, Step(q) \/ GiveUp(q) PROVE TypeOK'
  <2>1. /\ phase' \in [Posters -> Phases] /\ inFlight' \subseteq Marks
        /\ UNCHANGED <<mark, draft, compose, batched, landed, edits, posts>>
    BY <1>8, StepMoves DEF Moves, TypeOK
  <2>2. receipts' \subseteq Marks
    BY <1>8 DEF Step, Query, CheckHead, CheckApproval, Answer, ApprovalAnswer, Land, LandApproval,
       GiveUp, Unposted, Finish, Refuse, TypeOK
  <2>3. head' \in Nat /\ approved' \in BOOLEAN
    BY <1>8, OnlyLanding DEF LandApproval, Refuse, TypeOK
  <2>5. reviews' \in [Marks -> Nat]
    BY <1>8, OnlyLanding DEF Land, TypeOK
  <2>6. late' \in BOOLEAN
    BY <1>8, LateStays DEF Posting, TypeOK
  <2>4. strays' \in [Marks -> Nat] /\ faults' \in Nat
    BY <1>8 DEF Step, Query, CheckHead, CheckApproval, Answer, ApprovalAnswer, Land, LandApproval,
       GiveUp, network, budgets, TypeOK
  <2> QED BY <2>1, <2>2, <2>3, <2>4, <2>5, <2>6 DEF compose, TypeOK
<1>5. ASSUME NEW q \in Posters, NEW m \in Marks, Begin(q, m) PROVE TypeOK'
  BY <1>5 DEF Begin, compose, call, forge, network, TypeOK, Phases
<1>6. CASE Crash
  <2>1. late' \in BOOLEAN
    BY <1>6, LateStays DEF TypeOK
  <2>2. strays' \in [Marks -> Nat]
    BY <1>6 DEF Crash, TypeOK
  <2> QED BY <1>6, <2>1, <2>2 DEF Crash, forge, TypeOK, Phases
<1>7. CASE MoveHead \/ \E m \in Marks : LandStray(m)
  BY <1>7 DEF MoveHead, LandStray, compose, call, network, budgets, TypeOK
<1>9. CASE LandLateApproval
  <2>1. late' \in BOOLEAN /\ approved' \in BOOLEAN
    BY <1>9 DEF LandLateApproval
  <2>2. UNCHANGED <<draft, compose, call, receipts, head, reviews, batched, strays, landed, budgets>>
    BY <1>9 DEF LandLateApproval
  <2> QED BY <2>1, <2>2 DEF compose, call, budgets, TypeOK
<1> QED BY <1>1, <1>2, <1>3, <1>4, <1>5, <1>6, <1>7, <1>8, <1>9 DEF Next, Composing, Posting, Outside

-----------------------------------------------------------------------------
(* A draft has one marker.                                                 *)

LEMMA MarkerStep == IInv /\ [Next]_vars => OneMarker'
<1> SUFFICES ASSUME TypeOK, OneMarker, SingleFlight, Counted, [Next]_vars PROVE OneMarker'
  BY DEF IInv
<1> USE Typed DEF OneMarker
<1>1. CASE UNCHANGED vars
  BY <1>1 DEF vars, compose, call, forge, network
<1>2. CASE Compose
  <2>1. Preview(draft).draft = draft /\ Preview(draft).opener = opener[draft]
    BY DEF Preview
  <2> QED BY <1>2, <2>1 DEF Compose, call, forge, network
<1>3. ASSUME NEW d \in Drafts, Edit(d) \/ OpenerFailed(d) PROVE OneMarker'
  BY <1>3 DEF Edit, OpenerFailed, compose, call, forge, network
<1>4. ASSUME NEW d \in Drafts, OpenerDrafted(d) PROVE OneMarker'
  <2>1. opener[d] = 0 /\ \A m \in previews : m.draft # d
    BY <1>4 DEF OpenerDrafted, TypeOK, Marks
  <2>2. \A e \in drafting' : opener'[e] = 0
    BY <1>4, <2>1 DEF OpenerDrafted, TypeOK
  <2>3. \A m \in previews' : m.opener = opener'[m.draft]
    BY <1>4, <2>1 DEF OpenerDrafted, TypeOK, Marks
  <2>4. previews \subseteq previews' /\ UNCHANGED <<inFlight, reviews, strays>>
    BY <1>4 DEF OpenerDrafted, call, forge, network
  <2> QED BY <2>2, <2>3, <2>4
<1>5. ASSUME NEW q \in Posters, NEW m \in Marks, Begin(q, m) PROVE OneMarker'
  BY <1>5 DEF Begin, compose, call, forge, network
<1>6. ASSUME NEW q \in Posters, Step(q) \/ GiveUp(q) PROVE OneMarker'
  <2>1. inFlight' \subseteq inFlight /\ UNCHANGED compose
    BY <1>6, StepMoves DEF Moves
  <2>2. \A m \in Marks : reviews'[m] > 0 => reviews[m] > 0 \/ (m = mark[q] /\ phase[q] = "posting")
    BY <1>6, OnlyLanding DEF Land, TypeOK
  <2>3. \A m \in Marks : strays'[m] > 0 => strays[m] > 0 \/ (m = mark[q] /\ phase[q] = "posting")
    BY <1>6 DEF Step, Query, CheckHead, CheckApproval, Answer, ApprovalAnswer, Land, LandApproval,
       GiveUp, network, TypeOK
  <2>4. phase[q] = "posting" => mark[q] \in previews
    BY DEF SingleFlight, Active
  <2> QED BY <2>1, <2>2, <2>3, <2>4 DEF compose
<1>7. CASE Crash
  <2>1. \A m \in Marks : strays'[m] > 0 => strays[m] > 0 \/ \E q \in Posters : m = mark[q] /\ Active(q)
    BY <1>7 DEF Crash, Active
  <2>2. \A q \in Posters : Active(q) => mark[q] \in previews
    BY DEF SingleFlight
  <2> QED BY <1>7, <2>1, <2>2 DEF Crash, forge
<1>8. ASSUME NEW m \in Marks, LandStray(m) PROVE OneMarker'
  <2>1. strays[m] > 0
    BY <1>8 DEF LandStray
  <2>2. \A n \in Marks : reviews'[n] > 0 => reviews[n] > 0 \/ n = m
    BY <1>8 DEF LandStray, TypeOK
  <2> QED BY <1>8, <2>1, <2>2 DEF LandStray, compose, call
<1>9. CASE MoveHead \/ LandLateApproval
  BY <1>9 DEF MoveHead, LandLateApproval, compose, call, network
<1> QED BY <1>1, <1>2, <1>3, <1>4, <1>5, <1>6, <1>7, <1>8, <1>9 DEF Next, Composing, Posting, Outside

-----------------------------------------------------------------------------
(* Calls hold their own markers.                                           *)

LEMMA FlightStep == IInv /\ [Next]_vars => SingleFlight'
<1> SUFFICES ASSUME TypeOK, SingleFlight, [Next]_vars PROVE SingleFlight'
  BY DEF IInv
<1> USE DEF SingleFlight, Active
<1>1. CASE UNCHANGED call
  BY <1>1 DEF call
<1>2. ASSUME NEW q \in Posters, NEW m \in Marks, Begin(q, m) PROVE SingleFlight'
  BY <1>2 DEF Begin, call, TypeOK
<1>3. ASSUME NEW q \in Posters, Step(q) PROVE SingleFlight'
  <2>1. phase[q] # "idle"
    BY <1>3 DEF Step, Query, CheckHead, CheckApproval, Answer, ApprovalAnswer, Land, LandApproval
  <2> QED BY <1>3, <2>1, StepMoves DEF Moves, TypeOK
<1>4. ASSUME NEW q \in Posters, GiveUp(q) PROVE SingleFlight'
  <2>1. phase[q] # "idle"
    BY <1>4 DEF GiveUp
  <2> QED BY <1>4, <2>1, StepMoves DEF Moves, TypeOK
<1>5. CASE Crash
  BY <1>5 DEF Crash
<1>6. CASE Composing \/ Outside
  BY <1>1, <1>6 DEF Composing, Compose, Edit, OpenerDrafted, OpenerFailed, Outside, MoveHead,
     LandLateApproval, LandStray
<1> QED BY <1>1, <1>2, <1>3, <1>4, <1>5, <1>6 DEF Next, Posting, vars

-----------------------------------------------------------------------------
(* Reviews are counted.                                                    *)

LEMMA CountedStep == IInv /\ [Next]_vars => Counted'
<1> SUFFICES ASSUME TypeOK, SingleFlight, Counted, [Next]_vars PROVE Counted'
  BY DEF IInv
<1> USE Typed DEF Counted
<1>1. CASE UNCHANGED <<phase, mark, reviews, strays, landed>>
  BY <1>1
<1>2. ASSUME NEW q \in Posters, NEW m \in Marks, Begin(q, m) PROVE Counted'
  BY <1>2 DEF Begin, call, forge, network, TypeOK
<1>3. ASSUME NEW q \in Posters, Query(q) PROVE Counted'
  <2>1. /\ UNCHANGED <<mark, reviews, strays, landed>>
        /\ \A r \in Posters : r # q => phase'[r] = phase[r]
    BY <1>3, StepMoves DEF Step, Moves, Query, forge, network, TypeOK
  <2>2. phase'[q] \in {"head", "posting"} => ~(reviews[mark[q]] > 0)
    BY <1>3 DEF Query, Unposted, Finish, Refuse, Leave, Goto, TypeOK
  <2>3. mark[q] \in Marks
    OBVIOUS
  <2> QED BY <2>1, <2>2, <2>3
<1>4. ASSUME NEW q \in Posters, Land(q) PROVE Counted'
  <2>1. /\ phase[q] = "posting" /\ mark[q] \in Marks
        /\ reviews' = [reviews EXCEPT ![mark[q]] = @ + 1]
        /\ phase' = [phase EXCEPT ![q] = "posted"]
        /\ UNCHANGED <<mark, strays, landed>>
    BY <1>4 DEF Land, Goto, network
  <2>2. \A r \in Posters : phase'[r] \in {"head", "posting"} => r # q /\ mark[r] # mark[q]
    BY <2>1 DEF SingleFlight, Active, TypeOK
  <2>3. \A m \in Marks : landed'[m] <= strays'[m] /\ reviews'[m] <= 1 + landed'[m]
    BY <2>1 DEF TypeOK
  <2>4. \A r \in Posters :
          phase'[r] \in {"head", "posting"} => reviews'[mark'[r]] <= landed'[mark'[r]]
    BY <2>1, <2>2 DEF TypeOK
  <2> QED BY <2>3, <2>4
<1>5. ASSUME NEW q \in Posters, Step(q), ~Query(q), ~Land(q) PROVE Counted'
  <2>1. UNCHANGED <<mark, reviews, strays, landed>>
    BY <1>5, StepMoves, OnlyLanding DEF Moves, Step, CheckHead, CheckApproval, Answer,
       ApprovalAnswer, LandApproval, network
  <2>2. \A r \in Posters : phase'[r] \in {"head", "posting"} => phase[r] \in {"head", "posting"}
    BY <1>5 DEF Step, CheckHead, CheckApproval, Answer, ApprovalAnswer, LandApproval,
       Finish, Refuse, Leave, Goto, TypeOK
  <2> QED BY <2>1, <2>2
<1>6. ASSUME NEW q \in Posters, GiveUp(q) PROVE Counted'
  <2>1. UNCHANGED <<mark, reviews, landed>>
    BY <1>6 DEF GiveUp, Refuse, Leave, forge
  <2>2. \A m \in Marks : strays[m] <= strays'[m]
    BY <1>6 DEF GiveUp, TypeOK
  <2>3. strays' \in [Marks -> Nat]
    BY <1>6, TypeStep DEF TypeOK, Next, Posting
  <2>4. \A r \in Posters : phase'[r] \in {"head", "posting"} => phase[r] \in {"head", "posting"}
    BY <1>6 DEF GiveUp, Refuse, Leave, TypeOK
  <2> QED BY <2>1, <2>2, <2>3, <2>4
<1>7. CASE Crash
  <2>1. \A m \in Marks : strays'[m] \in {strays[m], strays[m] + 1}
    BY <1>7 DEF Crash
  <2>2. UNCHANGED <<mark, reviews, landed>> /\ \A q \in Posters : phase'[q] = "idle"
    BY <1>7 DEF Crash, forge
  <2> QED BY <2>1, <2>2
<1>8. ASSUME NEW m \in Marks, LandStray(m) PROVE Counted'
  <2>1. /\ strays[m] > landed[m] /\ UNCHANGED <<phase, mark, strays>>
        /\ landed' = [landed EXCEPT ![m] = @ + 1] /\ reviews' = [reviews EXCEPT ![m] = @ + 1]
    BY <1>8 DEF LandStray, call
  <2> QED BY <2>1 DEF TypeOK
<1>9. CASE Composing \/ MoveHead \/ LandLateApproval \/ UNCHANGED vars
  BY <1>1, <1>9 DEF Composing, Compose, Edit, OpenerDrafted, OpenerFailed, MoveHead,
     LandLateApproval, call, forge, network, vars
<1> QED BY <1>2, <1>3, <1>4, <1>5, <1>6, <1>7, <1>8, <1>9 DEF Next, Posting, Outside

-----------------------------------------------------------------------------
(* What completes an operation is on the forge.                            *)

(* What is published stays so. *)
LEMMA WholeStays ==
  ASSUME TypeOK, [Next]_vars, NEW m \in Marks, Whole(m)
  PROVE  Whole(m)'
<1> USE Typed
<1>1. (reviews'[m] = reviews[m] \/ reviews'[m] = reviews[m] + 1) /\ batched' = batched
  <2>1. ASSUME NEW q \in Posters, Step(q) \/ GiveUp(q)
        PROVE  (reviews'[m] = reviews[m] \/ reviews'[m] = reviews[m] + 1) /\ batched' = batched
    BY <2>1, StepMoves, OnlyLanding DEF Moves, Land, TypeOK
  <2>2. CASE \E n \in Marks : LandStray(n)
    BY <2>2 DEF LandStray, TypeOK
  <2>3. CASE Composing \/ MoveHead \/ LandLateApproval \/ Crash \/ UNCHANGED vars
             \/ \E q \in Posters : \E n \in Marks : Begin(q, n)
    BY <2>3 DEF Composing, Compose, Edit, OpenerDrafted, OpenerFailed, MoveHead,
       LandLateApproval, Crash, Begin, forge, network, vars
  <2> QED BY <2>1, <2>2, <2>3 DEF Next, Posting, Outside
<1>2. approved = TRUE => approved' = TRUE
  <2>1. ASSUME NEW q \in Posters, Step(q) \/ GiveUp(q) PROVE approved = TRUE => approved' = TRUE
    BY <2>1, OnlyLanding DEF LandApproval
  <2>2. CASE Composing \/ MoveHead \/ Crash \/ UNCHANGED vars
             \/ (\E n \in Marks : LandStray(n)) \/ \E q \in Posters : \E n \in Marks : Begin(q, n)
    BY <2>2 DEF Composing, Compose, Edit, OpenerDrafted, OpenerFailed, MoveHead, Crash, Begin,
       LandStray, forge, vars
  <2>3. CASE LandLateApproval
    BY <2>3 DEF LandLateApproval
  <2> QED BY <2>1, <2>2, <2>3 DEF Next, Posting, Outside
<1> QED BY <1>1, <1>2 DEF Whole, NeedsApproval, TypeOK

(* A receipt is written of a post that is whole, and the forge stays as    *)
(* the call found it.                                                      *)
LEMMA Completes ==
  ASSUME TypeOK, Evident, NEW q \in Posters, Step(q) \/ GiveUp(q), receipts' # receipts
  PROVE  /\ receipts' = receipts \cup {mark[q]} /\ Whole(mark[q])
         /\ UNCHANGED <<forge, batched>>
<1> USE Typed DEF Evident
<1>1. CASE Query(q)
  BY <1>1 DEF Query, Unposted, Refuse, Finish, Whole, forge, network
<1>2. CASE CheckApproval(q)
  BY <1>2 DEF CheckApproval, Finish, Whole, forge, network
<1>3. CASE Answer(q)
  BY <1>3 DEF Answer, Finish, Whole, forge, network
<1>4. CASE ApprovalAnswer(q)
  BY <1>4 DEF ApprovalAnswer, Finish, Whole, forge, network
<1>5. CASE CheckHead(q) \/ Land(q) \/ LandApproval(q) \/ GiveUp(q)
  BY <1>5 DEF CheckHead, Land, LandApproval, GiveUp, Refuse
<1> QED BY <1>1, <1>2, <1>3, <1>4, <1>5 DEF Step

LEMMA ReceiptsGrow ==
  ASSUME TypeOK, Evident, [Next]_vars, receipts' # receipts
  PROVE  \E q \in Posters : /\ receipts' = receipts \cup {mark[q]} /\ Whole(mark[q])
                            /\ UNCHANGED <<forge, batched>>
<1>1. ASSUME NEW q \in Posters, NEW m \in Marks, Begin(q, m) PROVE FALSE
  BY <1>1 DEF Begin
<1>2. CASE Composing \/ Outside \/ Crash \/ UNCHANGED vars
  BY <1>2 DEF Composing, Compose, Edit, OpenerDrafted, OpenerFailed, Outside, MoveHead,
     LandLateApproval, Crash, LandStray, vars
<1> QED BY <1>1, <1>2, Completes DEF Next, Posting

LEMMA EvidentStep == IInv /\ [Next]_vars => Evident'
<1> SUFFICES ASSUME TypeOK, Evident, [Next]_vars PROVE Evident'
  BY DEF IInv
<1> USE Typed
<1>1. \A m \in receipts' : Whole(m)'
  <2>1. \A m \in receipts' : m \in Marks /\ Whole(m)
    BY ReceiptsGrow DEF Evident, TypeOK
  <2> QED BY <2>1, WholeStays
<1> DEFINE Late == {"posted", "approved", "headAgain", "approving", "approvalPosted"}
           Shown(r) == /\ phase[r] \in Late => reviews[mark[r]] > 0
                       /\ phase[r] = "approvalPosted" => approved
<1>2. \A r \in Posters : Shown(r)'
  <2>1. ASSUME NEW q \in Posters, Step(q) \/ GiveUp(q) PROVE \A r \in Posters : Shown(r)'
    <3>1. /\ mark' = mark /\ \A r \in Posters : r # q => phase'[r] = phase[r]
      BY <2>1, StepMoves DEF Moves, TypeOK
    <3>3. \A m \in Marks : reviews[m] > 0 => reviews'[m] > 0
      BY <2>1, OnlyLanding DEF Land, TypeOK
    <3>4. approved => approved'
      BY <2>1, OnlyLanding DEF LandApproval
    <3>2. Shown(q)'
      <4>1. phase'[q] \in Late => phase[q] \in Late \/ Land(q) \/ reviews[mark[q]] > 0
        BY <2>1 DEF Step, Query, CheckHead, CheckApproval, Answer, ApprovalAnswer, Land,
           LandApproval, GiveUp, Unposted, Finish, Refuse, Leave, Goto, TypeOK
      <4>2. Land(q) => reviews'[mark[q]] > 0
        BY DEF Land, TypeOK
      <4>3. phase'[q] = "approvalPosted" => approved'
        BY <2>1 DEF Step, Query, CheckHead, CheckApproval, Answer, ApprovalAnswer, Land,
           LandApproval, GiveUp, Unposted, Finish, Refuse, Leave, Goto, TypeOK
      <4> QED BY <3>1, <3>3, <4>1, <4>2, <4>3 DEF Evident
    <3> QED BY <3>1, <3>2, <3>3, <3>4 DEF Evident
  <2>2. ASSUME NEW q \in Posters, NEW m \in Marks, Begin(q, m) PROVE \A r \in Posters : Shown(r)'
    BY <2>2 DEF Begin, Evident, call, forge, TypeOK
  <2>3. ASSUME NEW m \in Marks, LandStray(m) PROVE \A r \in Posters : Shown(r)'
    <3>1. /\ UNCHANGED <<phase, mark, approved>>
          /\ \A n \in Marks : reviews[n] > 0 => reviews'[n] > 0
      BY <2>3 DEF LandStray, call, TypeOK
    <3> QED BY <3>1 DEF Evident
  <2>4. CASE Crash
    BY <2>4 DEF Crash
  <2>5. CASE Composing \/ MoveHead \/ UNCHANGED vars
    BY <2>5 DEF Composing, Compose, Edit, OpenerDrafted, OpenerFailed, MoveHead, call, forge, vars,
       Evident
  <2>6. CASE LandLateApproval
    BY <2>6 DEF LandLateApproval, call, Evident
  <2> QED BY <2>1, <2>2, <2>3, <2>4, <2>5, <2>6 DEF Next, Posting, Outside
<1> QED BY <1>1, <1>2 DEF Evident

-----------------------------------------------------------------------------
(* The theorems.                                                           *)

LEMMA Inductive == Spec => []IInv
<1>1. IInv /\ [Next]_vars => IInv'
  BY TypeStep, MarkerStep, FlightStep, CountedStep, EvidentStep DEF IInv
<1> QED BY <1>1, InitInv, PTL DEF Spec

(* The state of publish.ts and its stores keeps its types. *)
THEOREM TypeCorrect == Spec => []TypeOK
<1>1. IInv => TypeOK
  BY DEF IInv
<1> QED BY <1>1, Inductive, PTL

(* Whatever calls overlap, crash or lose their answers, a draft has one    *)
(* marker, and reviews beyond the first of a marker are of requests that   *)
(* outlived their calls.                                                   *)
THEOREM OneReview == Spec => []OneReviewPerDraft
<1>1. IInv => OneReviewPerDraft
  BY DEF IInv, OneMarker, Counted, OneReviewPerDraft, OnForge, Marks
<1> QED BY <1>1, Inductive, PTL

(* Publication implements PublishedOnce: publishing is not undone, and a   *)
(* receipt is only ever kept of what is on the forge.                      *)
THEOREM Implements == Spec => KeepsPromise
<1> DEFINE Published == {m.draft : m \in {n \in Marks : Whole(n)}}
           Confirmed == {m.draft : m \in receipts}
<1>1. Init => Promise!Init
  BY DEF Init, Promise!Init, Whole
<1>2. ASSUME IInv, [Next]_vars PROVE [Promise!Next]_(Promise!vars)
  <2>1. TypeOK /\ Evident
    BY <1>2 DEF IInv
  <2>2. CASE receipts' = receipts
    <3>1. Published \subseteq Published' /\ Published' \in SUBSET Drafts /\ Confirmed' = Confirmed
      BY <1>2, <2>1, <2>2, WholeStays DEF Marks
    <3>2. Published' = Published \cup Published'
      BY <3>1
    <3> QED BY <3>1, <3>2 DEF Promise!Next, Promise!Publish
  <2>3. CASE receipts' # receipts
    <3>1. PICK q \in Posters : /\ receipts' = receipts \cup {mark[q]} /\ Whole(mark[q])
                              /\ UNCHANGED <<forge, batched>>
      BY <1>2, <2>1, <2>3, ReceiptsGrow
    <3>2. Published' = Published
      BY <3>1 DEF forge, Whole, NeedsApproval
    <3>3. mark[q].draft \in Published /\ Confirmed' = Confirmed \cup {mark[q].draft}
      BY <2>1, <3>1, Typed
    <3> QED BY <3>2, <3>3 DEF Promise!Next, Promise!Confirm
  <2> QED BY <2>2, <2>3
<1> QED BY <1>1, <1>2, Inductive, PTL DEF Spec, KeepsPromise, Promise!Spec
=============================================================================
