-------------------------- MODULE GenerationOwnership --------------------------
(***************************************************************************)
(* Who owns a generation of boards: the drafting runs of the rounds        *)
(* runtime (packages/server/src/runtime/rounds.ts) over the revisioned     *)
(* generation store (packages/adapters/src/round-store.ts) and the         *)
(* metadata of drafted boards.                                             *)
(*                                                                         *)
(* The first generation over a patchset is addressed by that patchset, so  *)
(* sessions over one patchset share it; a round's own is addressed by its  *)
(* operation, here by its session, each of which has one round.  An        *)
(* attempt at a generation is known by its reserved board slots: an open   *)
(* mints new ones, a round's are derived from its operation and the same   *)
(* on every retry.  Sessions may live in two daemons over one data         *)
(* directory, so reading a version and writing over it are two steps.      *)
(***************************************************************************)
EXTENDS Naturals, Sequences, FiniteSets

CONSTANTS
  Sessions,
  First,     \* the generation of the patchset they all opened
  Lenses,
  Core,      \* the required lenses: a round without one of them is not filed
  Boarded,   \* those that settle no absence: they must draft a board
  MaxRuns,   \* bound: drafting runs
  MaxCrashes \* bound: crashes

ASSUME OwnershipAssumption ==
  /\ First \notin Sessions
  /\ Boarded \subseteq Core /\ Core \subseteq Lenses /\ "report" \notin Lenses
  /\ {MaxRuns, MaxCrashes} \subseteq Nat

Gens == Sessions \cup {First}
Runs == Sessions \X {"open", "round"}
Of(r) == r[1]
IsRound(r) == r[2] = "round"

(* A lens has not settled, drafted a board, found nothing to put on one,    *)
(* failed for good, or failed and may be tried again.                      *)
Lanes == [Lenses -> {"none", "board", "absent", "failed", "retry"}]
Unsettled == [l \in Lenses |-> "none"]

(* A generation: its attempt, whether that one is still drafting, its      *)
(* settled lanes and whether it is frozen.                                 *)
Generation == [slots : 0..MaxRuns, drafting : BOOLEAN, lanes : Lanes, frozen : BOOLEAN]

MintGeneration == [slots |-> 0, drafting |-> FALSE, lanes |-> Unsettled, frozen |-> FALSE]

VARIABLES
  doc,      \* GenerationStore: each generation's document
  rev,      \* and its revision; 0 is no row
  metas,    \* BoardMetaStore: the drafted boards of each session
  ledger,   \* each session's round: its record filed, and returned to the operation
  plan,     \* the slots each session's round operation reserves, or 0
  tail,     \* the runs each session has queued, the one that runs first
  pc,       \* where each run is
  gen,      \* the generation it drafts
  prior,    \* the document and revision it read before it was queued
  own,      \* its attempt, with the lanes it has settled
  over,     \* it found itself superseded
  seen,     \* the revision its write expects, or 0 before it read one
  pred,     \* the predecessor's revision it may freeze, or 0
  started,  \* runs started; also numbers the slots
  crashes

store == <<doc, rev>>
records == <<metas, ledger, plan>>
attempt == <<gen, prior, own, over, seen, pred>>
budgets == <<started, crashes>>
vars == <<store, records, tail, pc, attempt, budgets>>

Unread == [doc |-> MintGeneration, rev |-> 0]
Unfiled == [filed |-> FALSE, returned |-> FALSE]

Init ==
  /\ doc = [g \in Gens |-> MintGeneration] /\ rev = [g \in Gens |-> 0]
  /\ metas = [s \in Sessions |-> {}] /\ ledger = [s \in Sessions |-> Unfiled]
  /\ plan = [s \in Sessions |-> 0]
  /\ tail = [s \in Sessions |-> <<>>]
  /\ pc = [r \in Runs |-> "idle"] /\ gen = [r \in Runs |-> First]
  /\ prior = [r \in Runs |-> Unread] /\ own = [r \in Runs |-> MintGeneration]
  /\ over = [r \in Runs |-> FALSE]
  /\ seen = [r \in Runs |-> 0] /\ pred = [r \in Runs |-> 0]
  /\ started = 0 /\ crashes = 0

-----------------------------------------------------------------------------
(* The generation store and the boards' metadata *)

Save(g, d) ==
  /\ doc' = [doc EXCEPT ![g] = d]
  /\ rev' = [rev EXCEPT ![g] = @ + 1]

(* sameDraftingAttempt: the reserved slots are the same, and a settled     *)
(* generation has dropped those of its lenses.                             *)
SameDraftingAttempt(a, b) == a.slots = b.slots /\ a.drafting = b.drafting

Meta(g, l, k) == [gen |-> g, lens |-> l, slots |-> k]
Drafted(s, g) == {m \in metas[s] : m.gen = g}

(* A generation that is drafting names every slot, a settled one those of  *)
(* its boards; a report's it always names.                                 *)
Names(d, l) == d.slots # 0 /\ (l = "report" \/ d.drafting \/ d.lanes[l] = "board")
HasBoard(s, g, d, l) == Names(d, l) /\ Meta(g, l, d.slots) \in metas[s]

(* reconstructFromMeta: an absence or a failure goes before a board. *)
Reconstructed(s, g, d) ==
  [d EXCEPT !.lanes = [l \in Lenses |->
     IF d.lanes[l] = "none" /\ HasBoard(s, g, d, l) THEN "board" ELSE d.lanes[l]]]

(* missingRequiredCoreLens: a failure is no substitute for a board, an      *)
(* absence is one for the lenses that admit it.                            *)
Missing(lanes) == {l \in Core : lanes[l] # "board" /\ (l \in Boarded \/ lanes[l] # "absent")}

(* Fault: a lane the generation calls settled stands for its board. *)
CompleteByLanes(s, g, d, round) ==
  /\ \A l \in Lenses : d.lanes[l] \in {"board", "absent", "failed"}
  /\ \E l \in Lenses : d.lanes[l] = "board"
  /\ Missing(d.lanes) = {}
  /\ round => HasBoard(s, g, d, "report")

(* hasCompleteLensEvidence: each lens has its board or ended without one,   *)
(* never both; there is a board, no core lens is missing and a round has   *)
(* its report.                                                             *)
Complete(s, g, d, round) ==
  /\ \A l \in Lenses :
       HasBoard(s, g, d, l) = (d.lanes[l] \notin {"absent", "failed"})
  /\ \E l \in Lenses : HasBoard(s, g, d, l)
  /\ Missing(Reconstructed(s, g, d).lanes) = {}
  /\ round => HasBoard(s, g, d, "report")

-----------------------------------------------------------------------------
(* Entering *)

Goto(r, p) == pc' = [pc EXCEPT ![r] = p]

(* currentGenerationId *)
Current(s) == IF ledger[s].filed THEN s ELSE First

(* runBoardRegeneration: the prior generation is read before the run is    *)
(* queued behind the session's other ones.                                 *)
Start(r) ==
  LET s == Of(r)
      g == IF IsRound(r) THEN First ELSE Current(s)
  IN /\ pc[r] = "idle" /\ started < MaxRuns
     /\ IsRound(r) => ~ledger[s].returned
     /\ started' = started + 1
     /\ plan' = [plan EXCEPT ![s] = IF IsRound(r) /\ @ = 0 THEN started + 1 ELSE @]
     /\ prior' = [prior EXCEPT ![r] = [doc |-> doc[g], rev |-> rev[g]]]
     /\ gen' = [gen EXCEPT ![r] = IF IsRound(r) THEN s ELSE g]
     /\ own' = [own EXCEPT ![r].slots = IF IsRound(r) THEN plan'[s] ELSE started + 1]
     /\ tail' = [tail EXCEPT ![s] = Append(@, r)]
     /\ Goto(r, "waiting")
     /\ UNCHANGED <<store, metas, ledger, over, seen, pred, crashes>>

(* The generation a run selects: the one the store has for a round, the    *)
(* prior one for an open, minted anew when there is none or when the       *)
(* project context moved.                                                  *)
Selected(r, moved) ==
  LET v == IF IsRound(r) THEN [doc |-> doc[gen[r]], rev |-> rev[gen[r]]] ELSE prior[r]
  IN IF v.rev > 0 /\ ~moved THEN v.doc ELSE MintGeneration

Attempt(r, d) == [d EXCEPT !.slots = own[r].slots, !.drafting = TRUE, !.lanes = Unsettled]

(* Fault: a run does not wait for the session's earlier ones. *)
EnterAtOnce(r) ==
  /\ pc[r] = "waiting"
  /\ \E moved \in BOOLEAN :
       LET d == Selected(r, moved)
       IN IF Complete(Of(r), gen[r], d, IsRound(r))
            THEN /\ own' = [own EXCEPT ![r] = Reconstructed(Of(r), gen[r], d)]
                 /\ Goto(r, IF IsRound(r) THEN "verifyStored" ELSE "drafted")
            ELSE /\ own' = [own EXCEPT ![r] = Attempt(r, d)]
                 /\ Goto(r, "clear")
  /\ UNCHANGED <<store, records, tail, gen, prior, over, seen, pred, budgets>>

(* runOnce, once the session's earlier runs are over. *)
Enter(r) ==
  /\ pc[r] = "waiting" /\ Head(tail[Of(r)]) = r
  /\ \E moved \in BOOLEAN :
       LET d == Selected(r, moved)
       IN IF Complete(Of(r), gen[r], d, IsRound(r))
            THEN /\ own' = [own EXCEPT ![r] = Reconstructed(Of(r), gen[r], d)]
                 /\ Goto(r, IF IsRound(r) THEN "verifyStored" ELSE "drafted")
            ELSE /\ own' = [own EXCEPT ![r] = Attempt(r, d)]
                 /\ Goto(r, "clear")
  /\ UNCHANGED <<store, records, tail, gen, prior, over, seen, pred, budgets>>

-----------------------------------------------------------------------------
(* Leaving *)

(* The run ends and the session's next one starts. *)
Leave(r) ==
  /\ Goto(r, "idle")
  /\ tail' = [tail EXCEPT ![Of(r)] = Tail(@)]
  /\ gen' = [gen EXCEPT ![r] = First]
  /\ prior' = [prior EXCEPT ![r] = Unread]
  /\ own' = [own EXCEPT ![r] = MintGeneration]
  /\ over' = [over EXCEPT ![r] = FALSE]
  /\ seen' = [seen EXCEPT ![r] = 0]
  /\ pred' = [pred EXCEPT ![r] = 0]

(* A stored report that does not verify is drafted again. *)
VerifyStored(r) ==
  /\ pc[r] = "verifyStored"
  /\ \/ Goto(r, "drafted") /\ UNCHANGED own
     \/ Goto(r, "clear") /\ own' = [own EXCEPT ![r] = Attempt(r, @)]
  /\ UNCHANGED <<store, records, tail, gen, prior, over, seen, pred, budgets>>

(* Preparing a board, drafting or verifying the report, or the pipeline    *)
(* throws: nothing more is written.                                        *)
Fails(r) ==
  /\ pc[r] \in {"clear", "claim", "report", "draft"} \cup (IF IsRound(r) THEN {"judge"} ELSE {})
  /\ Leave(r)
  /\ UNCHANGED <<store, records, budgets>>

-----------------------------------------------------------------------------
(* Drafting *)

(* The metadata of the slots goes first, lens by lens, and the attempt is  *)
(* claimed when none is left.  A recovered report is kept.                 *)
Clear(r) ==
  LET s == Of(r)
      old == {m \in Drafted(s, gen[r]) : m.slots = own[r].slots /\ m.lens # "report"}
  IN /\ pc[r] = "clear"
     /\ IF old = {} THEN Goto(r, "claim") /\ UNCHANGED metas
        ELSE /\ \E m \in old : metas' = [metas EXCEPT ![s] = @ \ {m}]
             /\ UNCHANGED pc
     /\ UNCHANGED <<store, ledger, plan, tail, attempt, budgets>>

(* The attempt's identity is saved, whoever held the generation. *)
Claim(r) ==
  /\ pc[r] = "claim"
  /\ Save(gen[r], own[r])
  /\ Goto(r, IF IsRound(r) THEN "report" ELSE "draft")
  /\ UNCHANGED <<records, tail, attempt, budgets>>

Report(r) ==
  /\ pc[r] = "report"
  /\ metas' = [metas EXCEPT ![Of(r)] = @ \cup {Meta(gen[r], "report", own[r].slots)}]
  /\ Goto(r, "draft")
  /\ UNCHANGED <<store, ledger, plan, tail, attempt, budgets>>

Outcomes(l) == {"board", "failed", "retry"} \cup (IF l \in Boarded THEN {} ELSE {"absent"})

(* A lane settles: a board's metadata is written, then the reveal. *)
Settle(r) ==
  LET s == Of(r)
  IN /\ pc[r] = "draft"
     /\ \E l \in Lenses : \E o \in Outcomes(l) :
          /\ own[r].lanes[l] = "none"
          /\ own' = [own EXCEPT ![r].lanes[l] = o]
          /\ metas' = [metas EXCEPT ![s] = IF o = "board" THEN @ \cup {Meta(gen[r], l, own[r].slots)}
                                                          ELSE @]
     /\ Goto(r, "reveal")
     /\ UNCHANGED <<store, ledger, plan, tail, gen, prior, over, seen, pred, budgets>>

-----------------------------------------------------------------------------
(* persistAttempt *)

Saving == {"reveal", "reject", "file"}

(* withLensBoards, for the terminal writes. *)
Written(r) == IF pc[r] \in {"reject", "file"} THEN [own[r] EXCEPT !.drafting = FALSE] ELSE own[r]

(* What follows a reveal, written or refused: the draft goes on until      *)
(* every lane has settled.                                                 *)
Revealed(r, dead) ==
  /\ over' = [over EXCEPT ![r] = dead]
  /\ Goto(r, IF \E l \in Lenses : own[r].lanes[l] = "none" THEN "draft" ELSE "drafted")
  /\ seen' = [seen EXCEPT ![r] = 0]
  /\ UNCHANGED <<tail, gen, prior, own, pred>>

Refused(r) == IF pc[r] = "reveal" THEN Revealed(r, TRUE) ELSE Leave(r)

Accepted(r) ==
  CASE pc[r] = "reveal" -> Revealed(r, over[r])
    [] pc[r] = "file" /\ IsRound(r) ->
         /\ Goto(r, "freeze")
         /\ seen' = [seen EXCEPT ![r] = 0]
         /\ UNCHANGED <<tail, gen, prior, own, over, pred>>
    [] OTHER -> Leave(r)

(* The version read is the run's own attempt, or its write is refused. *)
ReadVersion(r) ==
  /\ pc[r] \in Saving /\ seen[r] = 0
  /\ IF rev[gen[r]] > 0 /\ SameDraftingAttempt(doc[gen[r]], own[r])
       THEN /\ seen' = [seen EXCEPT ![r] = rev[gen[r]]]
            /\ UNCHANGED <<tail, pc, gen, prior, own, over, pred>>
       ELSE Refused(r)
  /\ UNCHANGED <<store, records, budgets>>

(* Fault: the save does not compare the revision. *)
SaveWhateverRevision(r) ==
  /\ pc[r] \in Saving /\ seen[r] # 0
  /\ Save(gen[r], Written(r)) /\ Accepted(r)
  /\ UNCHANGED <<records, budgets>>

SaveIfRevision(r) ==
  /\ pc[r] \in Saving /\ seen[r] # 0
  /\ IF rev[gen[r]] = seen[r]
       THEN Save(gen[r], Written(r)) /\ Accepted(r)
       ELSE UNCHANGED store /\ Refused(r)
  /\ UNCHANGED <<records, budgets>>

-----------------------------------------------------------------------------
(* The terminal boundary of runOnce *)

(* A superseded draft is refused; one without boards is written and fails. *)
Draft(r) ==
  /\ pc[r] = "drafted"
  /\ IF over[r] THEN Leave(r)
     ELSE /\ Goto(r, IF \A l \in Lenses : own[r].lanes[l] # "board" THEN "reject" ELSE "judge")
          /\ UNCHANGED <<tail, attempt>>
  /\ UNCHANGED <<store, records, budgets>>

(* Fault: the predecessor is frozen as it is, whatever the round read. *)
JudgeUnread(r) ==
  /\ pc[r] = "judge"
  /\ Goto(r, IF Missing(own[r].lanes) = {} THEN "file" ELSE "reject")
  /\ pred' = [pred EXCEPT ![r] = IF IsRound(r) THEN rev[First] ELSE 0]
  /\ UNCHANGED <<store, records, tail, gen, prior, own, over, seen, budgets>>

(* A missing core lens is written and fails.  The predecessor's revision   *)
(* is taken before the write, when it is still the document that was read. *)
Judge(r) ==
  /\ pc[r] = "judge"
  /\ Goto(r, IF Missing(own[r].lanes) = {} THEN "file" ELSE "reject")
  /\ pred' = [pred EXCEPT ![r] =
       IF IsRound(r) /\ prior[r].rev > 0 /\ doc[First] = prior[r].doc THEN rev[First] ELSE 0]
  /\ UNCHANGED <<store, records, tail, gen, prior, own, over, seen, budgets>>

(* The store compares the revision and freezes in one statement. *)
Freeze(r) ==
  /\ pc[r] = "freeze"
  /\ IF pred[r] # 0 /\ pred[r] = rev[First]
       THEN Save(First, [doc[First] EXCEPT !.frozen = TRUE]) /\ UNCHANGED pred
       ELSE pred' = [pred EXCEPT ![r] = 0] /\ UNCHANGED store
  /\ Goto(r, "record")
  /\ UNCHANGED <<records, tail, gen, prior, own, over, seen, budgets>>

Record(r) ==
  /\ pc[r] = "record"
  /\ ledger' = [ledger EXCEPT ![Of(r)] = [filed |-> TRUE, returned |-> FALSE]]
  /\ Goto(r, "return")
  /\ UNCHANGED <<store, metas, plan, tail, attempt, budgets>>

(* The operation moves on: its round drafts no more. *)
Return(r) ==
  /\ pc[r] = "return"
  /\ ledger' = [ledger EXCEPT ![Of(r)].returned = TRUE]
  /\ Leave(r)
  /\ UNCHANGED <<store, metas, plan, budgets>>

-----------------------------------------------------------------------------
(* The daemon of the sessions S stops. *)
Crash(S) ==
  /\ crashes < MaxCrashes
  /\ crashes' = crashes + 1
  /\ tail' = [s \in Sessions |-> IF s \in S THEN <<>> ELSE tail[s]]
  /\ pc' = [r \in Runs |-> IF Of(r) \in S THEN "idle" ELSE pc[r]]
  /\ gen' = [r \in Runs |-> IF Of(r) \in S THEN First ELSE gen[r]]
  /\ prior' = [r \in Runs |-> IF Of(r) \in S THEN Unread ELSE prior[r]]
  /\ own' = [r \in Runs |-> IF Of(r) \in S THEN MintGeneration ELSE own[r]]
  /\ over' = [r \in Runs |-> Of(r) \notin S /\ over[r]]
  /\ seen' = [r \in Runs |-> IF Of(r) \in S THEN 0 ELSE seen[r]]
  /\ pred' = [r \in Runs |-> IF Of(r) \in S THEN 0 ELSE pred[r]]
  /\ UNCHANGED <<store, records, started>>

Drafting(r) == Clear(r) \/ Claim(r) \/ Report(r) \/ Settle(r)
Persisting(r) == ReadVersion(r) \/ SaveIfRevision(r)
Ending(r) == \/ VerifyStored(r) \/ Draft(r) \/ Judge(r)
             \/ Freeze(r) \/ Record(r) \/ Return(r)

Next ==
  \/ \E r \in Runs : Start(r) \/ Enter(r) \/ Fails(r) \/ Drafting(r) \/ Persisting(r) \/ Ending(r)
  \/ \E S \in SUBSET Sessions \ {{}} : Crash(S)

Spec == Init /\ [][Next]_vars

-----------------------------------------------------------------------------
(* Properties *)

Places == {"idle", "waiting", "verifyStored", "clear", "claim", "report", "draft", "drafted",
           "judge", "freeze", "record", "return"} \cup Saving

(* The runtime's and the stores' state keeps its types, one run of a       *)
(* session is past the queue, and a write expects a revision that was.     *)
TypeOK ==
  /\ doc \in [Gens -> Generation] /\ rev \in [Gens -> Nat]
  /\ \A s \in Sessions : metas[s] \subseteq
       [gen : Gens, lens : Lenses \cup {"report"}, slots : 1..MaxRuns]
  /\ ledger \in [Sessions -> [filed : BOOLEAN, returned : BOOLEAN]]
  /\ plan \in [Sessions -> 0..MaxRuns]
  /\ \A s \in Sessions : \A r \in Runs : Of(r) = s =>
       (pc[r] \notin {"idle", "waiting"} => tail[s] # <<>> /\ Head(tail[s]) = r)
  /\ pc \in [Runs -> Places] /\ gen \in [Runs -> Gens]
  /\ own \in [Runs -> Generation] /\ over \in [Runs -> BOOLEAN]
  /\ \A r \in Runs : seen[r] \in 0..rev[gen[r]] /\ pred[r] \in 0..rev[First]
  /\ started \in 0..MaxRuns /\ crashes \in 0..MaxCrashes

(* Whatever runs overlap, a generation's document is replaced only by the  *)
(* bare claim of an attempt; every other write goes on with the attempt    *)
(* the document holds, and a reveal takes back no lane it has settled.  So *)
(* nothing a superseded attempt drafted appears in the one that replaced   *)
(* it.                                                                     *)
AttemptsContinue ==
  [][\A g \in Gens : doc'[g] # doc[g] =>
       \/ doc'[g].drafting /\ doc'[g].lanes = Unsettled
       \/ /\ doc'[g].slots = doc[g].slots
          /\ doc'[g].drafting =>
               \A l \in Lenses : doc[g].lanes[l] # "none" => doc'[g].lanes[l] = doc[g].lanes[l]]_vars

(* A round that returned left a generation a reader can open: until a      *)
(* later attempt claims it, it is settled, each core lens has its board or *)
(* an absence it admits, and every board it names has its metadata.        *)
ReturnedIsReadable ==
  \A s \in Sessions : ledger[s].returned /\ doc[s].slots = plan[s] =>
    /\ ~doc[s].drafting
    /\ \A l \in Core :
         doc[s].lanes[l] = "board" \/ (l \notin Boarded /\ doc[s].lanes[l] = "absent")
    /\ \A l \in Lenses : doc[s].lanes[l] = "board" => HasBoard(s, s, doc[s], l)

(* The predecessor a round freezes is the document it read before it       *)
(* drafted, however long that took.                                        *)
FrozenAsRead ==
  [][\A r \in Runs : pc[r] = "freeze" /\ pc'[r] = "record" /\ pred'[r] # 0 =>
       doc'[First] = [prior[r].doc EXCEPT !.frozen = TRUE]]_vars

(* A frozen generation is immutable (rounds.ts:365): nothing but the claim *)
(* of a new attempt thaws it.                                              *)
FrozenStays == [][\A g \in Gens : doc[g].frozen /\ ~doc'[g].drafting => doc'[g].frozen]_vars
==============================================================================
