-------------------------- MODULE ReviewPublication --------------------------
(***************************************************************************)
(* Posting a review onto a pull request: the preview publish.compose makes *)
(* and the opener it keeps for it, the checks and the single flight of     *)
(* publish.review (packages/server/src/dispatch/publish.ts), the receipt   *)
(* store, and the provider adapters' query before post                     *)
(* (packages/adapters/src/github-publish.ts, gitlab-forge.ts).             *)
(*                                                                         *)
(* A draft stands for everything a review sends besides its opener: asks,  *)
(* verdict, boards and the reviewed head.  The marker of a post is a       *)
(* digest of the draft and its opener, so it is modelled by the two.       *)
(***************************************************************************)
EXTENDS Naturals, FiniteSets

CONSTANTS
  Drafts,       \* outbound contents the author may have
  Approving,    \* the drafts whose verdict is an approval
  Posters,      \* concurrent publish.review calls
  MaxOpeners,   \* bound: opener texts the model drafts
  MaxEdits,     \* bound: changes of the draft
  MaxPosts,     \* bound: publish.review calls
  MaxMoves,     \* bound: commits that move the pull request's head
  MaxFaults     \* bound: answers lost, receipts not saved and crashes

ASSUME PublicationAssumption ==
  /\ Approving \subseteq Drafts
  /\ {MaxOpeners, MaxEdits, MaxPosts, MaxMoves, MaxFaults} \subseteq Nat

Marks == [draft : Drafts, opener : 1..MaxOpeners]

VARIABLES
  draft,      \* what the review would send now
  opener,     \* PublishCompositionStore: the opener kept for each draft, or 0
  drafting,   \* opener drafts in flight
  nextOpener, \* openers the model has drafted
  previews,   \* previews clients hold
  phase,      \* where each publish.review call is
  mark,       \* the marker it posts
  inFlight,   \* realPostInFlight
  receipts,   \* PublishReceiptStore
  batched,    \* the provider posts a review in one request (GitHub), or a note
              \* and then an approval (GitLab)
  head,       \* the pull request's head; the reviewed one is 0
  reviews,    \* reviews on the forge carrying each marker
  approved,   \* the author's approval is on the forge
  strays,     \* requests whose caller gave up before they reached the forge
  landed,     \* of those, how many reached it after all
  late,       \* an approval request whose caller gave up may still arrive
  edits, posts, faults  \* budgets spent

compose == <<opener, drafting, nextOpener, previews>>
call == <<phase, mark, inFlight>>
forge == <<head, reviews, approved>>
network == <<batched, strays, landed, late>>
budgets == <<edits, posts, faults>>
vars == <<draft, compose, call, receipts, forge, network, budgets>>

Init ==
  /\ draft \in Drafts
  /\ opener = [d \in Drafts |-> 0] /\ drafting = {} /\ nextOpener = 0 /\ previews = {}
  /\ phase = [q \in Posters |-> "idle"] /\ inFlight = {}
  /\ mark \in {[q \in Posters |-> m] : m \in Marks}
  /\ receipts = {} /\ batched \in BOOLEAN
  /\ head = 0 /\ reviews = [m \in Marks |-> 0] /\ approved = FALSE
  /\ strays = [m \in Marks |-> 0] /\ landed = [m \in Marks |-> 0] /\ late = FALSE
  /\ edits = 0 /\ posts = 0 /\ faults = 0

NeedsApproval(m) == ~batched /\ m.draft \in Approving

-----------------------------------------------------------------------------
(* Composing *)

Edit(d) ==
  /\ edits < MaxEdits /\ d # draft
  /\ draft' = d
  /\ edits' = edits + 1
  /\ UNCHANGED <<compose, call, receipts, forge, network, posts, faults>>

Preview(d) == [draft |-> d, opener |-> opener[d]]

(* Fault: a new opener is drafted for every compose. *)
ComposeAfresh ==
  /\ drafting' = drafting \cup {draft}
  /\ UNCHANGED <<draft, opener, nextOpener, previews, call, receipts, forge, network, budgets>>

(* Fault: a preview does not wait for its opener. *)
ComposeAtOnce ==
  /\ previews' = previews \cup {Preview(draft)}
  /\ drafting' = drafting \cup {draft}
  /\ UNCHANGED <<draft, opener, nextOpener, call, receipts, forge, network, budgets>>

(* An opener kept for this very draft is used again; otherwise the compose *)
(* waits for the one being drafted, or starts it.                          *)
Compose ==
  /\ IF opener[draft] # 0
       THEN previews' = previews \cup {Preview(draft)} /\ UNCHANGED drafting
       ELSE drafting' = drafting \cup {draft} /\ UNCHANGED previews
  /\ UNCHANGED <<draft, opener, nextOpener, call, receipts, forge, network, budgets>>

(* The model answers and the opener is kept.  The composes that waited for *)
(* it compare the draft once more: a changed one is unavailable.           *)
OpenerDrafted(d) ==
  /\ d \in drafting /\ nextOpener < MaxOpeners
  /\ drafting' = drafting \ {d}
  /\ nextOpener' = nextOpener + 1
  /\ opener' = [opener EXCEPT ![d] = nextOpener + 1]
  /\ previews' = IF d = draft THEN previews \cup {[draft |-> d, opener |-> nextOpener + 1]}
                              ELSE previews
  /\ UNCHANGED <<draft, call, receipts, forge, network, budgets>>

OpenerFailed(d) ==
  /\ d \in drafting
  /\ drafting' = drafting \ {d}
  /\ UNCHANGED <<draft, opener, nextOpener, previews, call, receipts, forge, network, budgets>>

-----------------------------------------------------------------------------
(* publish.review *)

Goto(q, p) == phase' = [phase EXCEPT ![q] = p] /\ UNCHANGED <<mark, inFlight>>

(* Fault: only a call that succeeded leaves the single flight. *)
LeaveOnSuccess(q) ==
  /\ phase' = [phase EXCEPT ![q] = "idle"]
  /\ inFlight' = IF receipts' = receipts THEN inFlight ELSE inFlight \ {mark[q]}
  /\ UNCHANGED mark

(* The call ends, well or not: the finally of the single flight. *)
Leave(q) ==
  /\ phase' = [phase EXCEPT ![q] = "idle"]
  /\ inFlight' = inFlight \ {mark[q]}
  /\ UNCHANGED mark

(* The preview must be of the draft as it now is (assertCompositionFresh,  *)
(* after the last await).  A receipt answers it; the same post in flight   *)
(* refuses it; otherwise the provider is asked for the marker first.       *)
Begin(q, m) ==
  /\ phase[q] = "idle" /\ posts < MaxPosts
  /\ m \in previews /\ m.draft = draft
  /\ posts' = posts + 1
  /\ IF m \in receipts \/ m \in inFlight
       THEN UNCHANGED call
       ELSE /\ phase' = [phase EXCEPT ![q] = "query"]
            /\ mark' = [mark EXCEPT ![q] = m]
            /\ inFlight' = inFlight \cup {m}
  /\ UNCHANGED <<draft, compose, receipts, forge, network, edits, faults>>

(* The provider completed the operation: keep the receipt. *)
Finish(q) ==
  /\ receipts' = receipts \cup {mark[q]}
  /\ Leave(q)

Refuse(q) == UNCHANGED receipts /\ Leave(q)

(* No review carries the marker: one may be posted onto the reviewed head, *)
(* which GitHub's query brings along and GitLab is asked for next.         *)
Unposted(q) ==
  IF batched /\ head # 0
    THEN Refuse(q)
    ELSE Goto(q, IF batched THEN "posting" ELSE "head") /\ UNCHANGED receipts

(* Fault: a review found by its marker is taken for the whole operation. *)
QueryTrustsNote(q) ==
  /\ phase[q] = "query"
  /\ IF reviews[mark[q]] > 0 THEN Finish(q)
       ELSE Unposted(q)
  /\ UNCHANGED <<draft, compose, forge, network, budgets>>

(* findExistingReview: a review with this marker is not posted again, but  *)
(* it proves only the note when the verdict is an approval of its own.     *)
Query(q) ==
  /\ phase[q] = "query"
  /\ IF reviews[mark[q]] > 0
       THEN IF NeedsApproval(mark[q])
              THEN Goto(q, "approved") /\ UNCHANGED receipts
              ELSE Finish(q)
       ELSE Unposted(q)
  /\ UNCHANGED <<draft, compose, forge, network, budgets>>

(* assertCurrentHead *)
CheckHead(q) ==
  /\ phase[q] \in {"head", "headAgain"}
  /\ IF head # 0 THEN Refuse(q)
       ELSE /\ Goto(q, IF phase[q] = "head" THEN "posting" ELSE "approving")
            /\ UNCHANGED receipts
  /\ UNCHANGED <<draft, compose, forge, network, budgets>>

CheckApproval(q) ==
  /\ phase[q] = "approved"
  /\ IF approved THEN Finish(q) ELSE Goto(q, "headAgain") /\ UNCHANGED receipts
  /\ UNCHANGED <<draft, compose, forge, network, budgets>>

(* The review, or GitLab's note, is on the forge and the answer is back. *)
Answer(q) ==
  /\ phase[q] = "posted"
  /\ IF NeedsApproval(mark[q]) THEN Goto(q, "approving") /\ UNCHANGED receipts
                               ELSE Finish(q)
  /\ UNCHANGED <<draft, compose, forge, network, budgets>>

ApprovalAnswer(q) ==
  /\ phase[q] = "approvalPosted"
  /\ Finish(q)
  /\ UNCHANGED <<draft, compose, forge, network, budgets>>

(* The answer is lost, or the receipt cannot be written: the command fails *)
(* whatever the forge has done.  A request on its way may still arrive.    *)
GiveUp(q) ==
  /\ phase[q] # "idle" /\ faults < MaxFaults
  /\ faults' = faults + 1
  /\ Refuse(q)
  /\ \/ UNCHANGED <<strays, late>>
     \/ /\ phase[q] = "posting"
        /\ strays' = [strays EXCEPT ![mark[q]] = @ + 1]
        /\ UNCHANGED late
     \/ /\ phase[q] = "approving"
        /\ late' = TRUE
        /\ UNCHANGED strays
  /\ UNCHANGED <<draft, compose, forge, batched, landed, edits, posts>>

(* The daemon stops: calls and openers in flight are gone, files are not.  *)
(* Of the requests on their way those of S may still arrive.               *)
Crash ==
  /\ faults < MaxFaults
  /\ faults' = faults + 1
  /\ phase' = [q \in Posters |-> "idle"]
  /\ inFlight' = {}
  /\ drafting' = {}
  /\ \E S \in SUBSET {mark[q] : q \in {p \in Posters : phase[p] = "posting"}} :
       strays' = [m \in Marks |-> IF m \in S THEN strays[m] + 1 ELSE strays[m]]
  /\ late' \in {late, late \/ \E q \in Posters : phase[q] = "approving"}
  /\ UNCHANGED <<draft, opener, nextOpener, previews, mark, receipts, forge, batched, landed,
                 edits, posts>>

-----------------------------------------------------------------------------
(* The forge *)

Land(q) ==
  /\ phase[q] = "posting"
  /\ reviews' = [reviews EXCEPT ![mark[q]] = @ + 1]
  /\ Goto(q, "posted")
  /\ UNCHANGED <<draft, compose, receipts, head, approved, network, budgets>>

(* An approval names the head it approves; the forge refuses another. *)
LandApproval(q) ==
  /\ phase[q] = "approving"
  /\ IF head = 0
       THEN approved' = TRUE /\ Goto(q, "approvalPosted") /\ UNCHANGED receipts
       ELSE Refuse(q) /\ UNCHANGED approved
  /\ UNCHANGED <<draft, compose, head, reviews, network, budgets>>

LandStray(m) ==
  /\ strays[m] > landed[m]
  /\ landed' = [landed EXCEPT ![m] = @ + 1]
  /\ reviews' = [reviews EXCEPT ![m] = @ + 1]
  /\ UNCHANGED <<draft, compose, call, receipts, head, approved, batched, strays, late, budgets>>

(* Approving twice is approving once, so one late request stands for all. *)
LandLateApproval ==
  /\ late
  /\ late' = FALSE
  /\ approved' = (approved \/ head = 0)
  /\ UNCHANGED <<draft, compose, call, receipts, head, reviews, batched, strays, landed, budgets>>

MoveHead ==
  /\ head < MaxMoves
  /\ head' = head + 1
  /\ UNCHANGED <<draft, compose, call, receipts, reviews, approved, network, budgets>>

-----------------------------------------------------------------------------
Composing == Compose \/ \E d \in Drafts : Edit(d) \/ OpenerDrafted(d) \/ OpenerFailed(d)

Step(q) ==
  \/ Query(q) \/ CheckHead(q) \/ CheckApproval(q) \/ Answer(q) \/ ApprovalAnswer(q)
  \/ Land(q) \/ LandApproval(q)

Posting == \E q \in Posters : Step(q) \/ GiveUp(q) \/ \E m \in Marks : Begin(q, m)

Outside == MoveHead \/ LandLateApproval \/ \E m \in Marks : LandStray(m)

Next == Composing \/ Posting \/ Crash \/ Outside

Spec == Init /\ [][Next]_vars

(* A call goes on while its provider answers. *)
FairSpec == Spec /\ \A q \in Posters : WF_vars(Step(q))

-----------------------------------------------------------------------------
(* Properties *)

Phases == {"idle", "query", "head", "posting", "posted", "approved", "headAgain",
           "approving", "approvalPosted"}

(* The state of publish.ts and its stores keeps its types. *)
TypeOK ==
  /\ draft \in Drafts
  /\ opener \in [Drafts -> 0..MaxOpeners] /\ drafting \subseteq Drafts
  /\ nextOpener \in 0..MaxOpeners /\ previews \subseteq Marks
  /\ phase \in [Posters -> Phases] /\ mark \in [Posters -> Marks] /\ inFlight \subseteq Marks
  /\ receipts \subseteq Marks
  /\ head \in Nat /\ reviews \in [Marks -> Nat] /\ approved \in BOOLEAN
  /\ batched \in BOOLEAN /\ strays \in [Marks -> Nat] /\ landed \in [Marks -> Nat]
  /\ late \in BOOLEAN
  /\ edits \in Nat /\ posts \in Nat /\ faults \in Nat

(* Everything the post of m sends is on the forge. *)
Whole(m) == reviews[m] > 0 /\ (NeedsApproval(m) => approved)

(* Double signs, retries, crashes and lost answers leave one review of a   *)
(* draft on the forge: no second opener makes a second marker for it, and  *)
(* a marker is posted again only by a request that outlived its call.      *)
OnForge == {m \in Marks : reviews[m] > 0}
OneReviewPerDraft ==
  /\ \A m, n \in OnForge : m.draft = n.draft => m = n
  /\ \A m \in Marks : reviews[m] <= 1 + landed[m]

(* A marker does not stay in flight once its call is over, so a later sign *)
(* of the same review is not refused forever.                              *)
FlightEnds == \A m \in Marks : m \in inFlight ~> m \notin inFlight

(* Publishing implements the promise to the author (PublishedOnce): what a *)
(* receipt says, and later calls answer without asking the provider, is of *)
(* a review that is on the forge with the approval it needs.               *)
Promise == INSTANCE PublishedOnce WITH
  published <- {m.draft : m \in {n \in Marks : Whole(n)}},
  confirmed <- {m.draft : m \in receipts}
KeepsPromise == Promise!Spec
=============================================================================
