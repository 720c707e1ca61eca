------------------------ MODULE RoundDispatchProofs ------------------------
(***************************************************************************)
(* Proofs about the round.dispatch command of RoundDispatch, for every set *)
(* of asks and every number of edits, dispatches, retries, faults and      *)
(* crashes: the ledger keeps one record per dispatch, a report is verified *)
(* only on the generation its own operation filed, the daemon consumes     *)
(* exactly the occurrences a finished record names, and a round that is    *)
(* handed back has left nothing to send again.                             *)
(*                                                                         *)
(* The coordinator's own invariant, and the ways a step may write the row, *)
(* are those of RoundExecutionProofs and RoundReceiptsProofs.              *)
(***************************************************************************)
EXTENDS RoundDispatch, RoundReceiptsProofs, FiniteSetTheorems, SequenceTheorems

(* A dispatch identity is made of any patchset and any occurrences.        *)
AllDispatches == Dispatch = [ps : Nat, asks : SUBSET Occurrence]

-----------------------------------------------------------------------------
(* The inductive invariant.                                                *)

(* The draft: finitely many asks, none staged past the end of the log.     *)
AskInv ==
  /\ staged \in [Ask -> Nat] /\ seq \in Nat /\ patchset \in Nat /\ edits \in Nat
  /\ \A a \in Ask : staged[a] <= seq
  /\ IsFiniteSet({a \in Ask : staged[a] # 0})

(* Whoever holds a dispatch holds one composed from the first n events.    *)
Known(d, n) == d \in Dispatch /\ \A o \in d.asks : o.rev <= n
Holding == {row.dispatch, fiber.op.dispatch, fiber.draft, fiber.fresh, ready.fresh, NoDispatch}
HeldInv ==
  /\ \A d \in Holding \ {NoDispatch} : Known(d, seq)
  /\ \A c \in calls : Known(c.dispatch, seq)
  /\ \A i \in DOMAIN ledger : Known(ledger[i].dispatch, seq)
  /\ Present(row) => row.dispatch # NoDispatch
  /\ fiber.op.op = row.op => fiber.op.dispatch = row.dispatch
  /\ fiber.op.op = 0 => fiber.op.dispatch = NoDispatch
  /\ fiber.op.op < nextOp

(* A dispatch that still composes is in the memo, and waits for no drive().*)
KickInv ==
  /\ calls \subseteq Call
  /\ waiting \subseteq memo /\ memo \subseteq Dispatch
  /\ \A c \in calls : c.stage = "composing" => c.dispatch \in memo \ waiting
  /\ accepted \subseteq Occurrence

LedgerInv == ledger \in Seq(Record) /\ OneRecordPerDispatch

(* A row that went through verification rests on its own record in the     *)
(* ledger `l', and a completed one says whether it changed anything.       *)
RealOf(l, d, op) ==
  \E i \in DOMAIN l : l[i].dispatch = d /\ l[i].regeneration = "real" /\ l[i].op = op
Backed(r, l) ==
  /\ Past(r.state, {"report-verifying"}) \/ r.state.result = "changed"
       => RealOf(l, r.dispatch, r.op)
  /\ r.state.phase = "completed" => r.state.result # "none"
ReportInv == Backed(row, ledger) /\ Backed(fiber.op, ledger)

(* Of a dispatch nothing is left to send once its occurrences are off the  *)
(* draft `st' and a finished record in `l' names them: so it is from the   *)
(* drain of its round to its return, and after.                            *)
Drained(d, st, l) ==
  \A o \in d.asks : /\ st[o.ask] # o.rev
                    /\ \E i \in DOMAIN l : l[i].regeneration # "pending" /\ o \in l[i].dispatch.asks
ReturnInv ==
  /\ Returned(row) => Drained(row.dispatch, staged, ledger)
  /\ fiber.pc = "apply" /\ fiber.decision = "return" => Drained(fiber.op.dispatch, staged, ledger)

DInv == IInv /\ FreshFits /\ AskInv /\ HeldInv /\ KickInv /\ LedgerInv /\ ReportInv /\ ReturnInv

-----------------------------------------------------------------------------
(* The draft.                                                              *)

LEMMA OccurrenceFields ==
  ASSUME NEW o \in Occurrence
  PROVE  o.ask \in Ask /\ o.rev \in Nat \ {0} /\ o = [ask |-> o.ask, rev |-> o.rev]
BY DEF Occurrence

LEMMA CurrentOccurrences ==
  ASSUME AskInv, NEW o
  PROVE  o \in Current(staged) <=> o \in Occurrence /\ staged[o.ask] = o.rev
<1>1. CASE o \in Current(staged)
  <2>1. PICK a \in Ask : staged[a] # 0 /\ o = [ask |-> a, rev |-> staged[a]]
    BY <1>1 DEF Current
  <2> QED BY <1>1, <2>1 DEF Occurrence, AskInv
<1>2. CASE o \in Occurrence /\ staged[o.ask] = o.rev
  <2>1. o.ask \in Ask /\ staged[o.ask] # 0 /\ o = [ask |-> o.ask, rev |-> staged[o.ask]]
    BY <1>2, OccurrenceFields
  <2> QED BY <1>2, <2>1 DEF Current
<1> QED BY <1>1, <1>2

(* There are finitely many occurrences to consume: one for a staged ask.   *)
LEMMA ConsumedFinite ==
  ASSUME AskInv, NEW occurrences \in SUBSET Occurrence
  PROVE  Cardinality(Consumed(occurrences)) \in Nat
<1> DEFINE S == Consumed(occurrences)
           T == {a \in Ask : staged[a] # 0}
           f == [o \in S |-> o.ask]
<1>1. \A o \in S : o \in Occurrence /\ o.ask \in T /\ staged[o.ask] = o.rev
  BY OccurrenceFields DEF Consumed
<1>2. f \in [S -> T]
  BY <1>1
<1>3. ASSUME NEW o \in S, NEW p \in S, f[o] = f[p] PROVE o = p
  BY <1>1, <1>3, OccurrenceFields
<1>4. IsFiniteSet(T)
  BY DEF AskInv
<1> HIDE DEF S, T
<1>5. f \in Injection(S, T)
  BY <1>2, <1>3 DEF Injection, IsInjective
<1>6. IsFiniteSet(S)
  BY <1>4, <1>5, FS_Injection
<1>7. Cardinality(S) \in Nat
  BY <1>6, FS_CardinalityType
<1> QED BY <1>7 DEF S

(* consumeCurrentAskOccurrences takes exactly what is still current off.   *)
LEMMA ConsumeFacts ==
  ASSUME AskInv, NEW occurrences \in SUBSET Occurrence, Consume(occurrences), patchset' = patchset
  PROVE  /\ AskInv' /\ seq <= seq'
         /\ \A a \in Ask : staged'[a] \in {0, staged[a]}
         /\ \A a \in Ask : staged[a] # 0 /\ staged'[a] = 0 =>
              [ask |-> a, rev |-> staged[a]] \in occurrences
         /\ \A o \in occurrences : staged'[o.ask] # o.rev
<1>1. Cardinality(Consumed(occurrences)) \in Nat
  BY ConsumedFinite
<1>2. seq' \in Nat /\ seq <= seq' /\ edits' = edits
  BY <1>1 DEF AskInv, Consume
<1>3. staged' = [a \in Ask |-> IF \E o \in Consumed(occurrences) : o.ask = a THEN 0 ELSE staged[a]]
  BY DEF Consume
<1>4. \A a \in Ask : staged'[a] \in {0, staged[a]}
  BY <1>3
<1>5. staged' \in [Ask -> Nat]
  BY <1>3 DEF AskInv
<1>6. \A a \in Ask : staged'[a] <= seq'
  BY <1>2, <1>4 DEF AskInv
<1>7. {a \in Ask : staged'[a] # 0} \subseteq {a \in Ask : staged[a] # 0}
  BY <1>4
<1>8. IsFiniteSet({a \in Ask : staged'[a] # 0})
  BY <1>7, FS_Subset DEF AskInv
<1>9. ASSUME NEW a \in Ask, staged[a] # 0, staged'[a] = 0
      PROVE  [ask |-> a, rev |-> staged[a]] \in occurrences
  <2>1. PICK o \in Consumed(occurrences) : o.ask = a
    BY <1>3, <1>9
  <2>2. o \in occurrences /\ o \in Occurrence /\ staged[a] = o.rev
    BY <2>1 DEF Consumed
  <2> QED BY <2>1, <2>2, OccurrenceFields
<1>10. ASSUME NEW o \in occurrences PROVE staged'[o.ask] # o.rev
  <2>1. o.ask \in Ask /\ o.rev # 0
    BY OccurrenceFields
  <2>2. CASE staged[o.ask] = o.rev
    BY <1>3, <2>1, <2>2 DEF Consumed
  <2>3. CASE staged[o.ask] # o.rev
    BY <1>4, <2>1, <2>3
  <2> QED BY <2>2, <2>3
<1> QED BY <1>2, <1>4, <1>5, <1>6, <1>8, <1>9, <1>10 DEF AskInv

(* A reviewer's edit of the draft.                                         *)
LEMMA EditFacts ==
  ASSUME AskInv, NEW a \in Ask, StageAsk(a) \/ UnstageAsk(a)
  PROVE  /\ AskInv' /\ seq < seq'
         /\ \A b \in Ask : staged'[b] \in {0, staged[b], seq'}
<1>1. seq' = seq + 1 /\ edits' = edits + 1 /\ patchset' = patchset
  BY DEF StageAsk, UnstageAsk, EditDraft
<1>2. PICK rev \in {0, seq'} : staged' = [staged EXCEPT ![a] = rev]
  BY <1>1 DEF StageAsk, UnstageAsk
<1>3. seq' \in Nat /\ seq < seq' /\ rev \in Nat /\ edits' \in Nat
  BY <1>1, <1>2 DEF AskInv
<1>4. staged' \in [Ask -> Nat] /\ \A b \in Ask : staged'[b] \in {rev, staged[b]}
  BY <1>2, <1>3 DEF AskInv
<1>5. \A b \in Ask : staged'[b] <= seq'
  BY <1>2, <1>3, <1>4 DEF AskInv
<1>6. IsFiniteSet({b \in Ask : staged[b] # 0} \cup {a})
  BY FS_AddElement DEF AskInv
<1>7. {b \in Ask : staged'[b] # 0} \subseteq {b \in Ask : staged[b] # 0} \cup {a}
  BY <1>2 DEF AskInv
<1>8. IsFiniteSet({b \in Ask : staged'[b] # 0})
  BY <1>6, <1>7, FS_Subset
<1> QED BY <1>1, <1>2, <1>3, <1>4, <1>5, <1>8 DEF AskInv

(* The draft's own dispatch is one of its current occurrences.             *)
LEMMA DraftKnown ==
  ASSUME AllDispatches, NEW n \in Nat, NEW st \in [Ask -> Nat], \A a \in Ask : st[a] <= n,
         NEW ps \in Nat
  PROVE  LET d == DraftOf(ps, Current(st)) IN d = NoDispatch \/ Known(d, n)
<1> DEFINE d == DraftOf(ps, Current(st))
<1>1. ASSUME NEW o \in Current(st) PROVE o \in Occurrence /\ o.rev <= n
  <2>1. PICK a \in Ask : st[a] # 0 /\ o = [ask |-> a, rev |-> st[a]]
    BY DEF Current
  <2> QED BY <2>1 DEF Occurrence
<1>2. SUFFICES ASSUME d # NoDispatch PROVE Known(d, n)
  OBVIOUS
<1>3. d = [ps |-> ps, asks |-> Current(st)]
  BY <1>2 DEF DraftOf
<1> HIDE DEF d
<1>4. d \in Dispatch /\ d.asks = Current(st)
  BY <1>1, <1>3 DEF AllDispatches
<1> QED BY <1>1, <1>4 DEF Known

-----------------------------------------------------------------------------
(* The ledger.                                                             *)

LEMMA LedgerIndex ==
  ASSUME LedgerInv
  PROVE  /\ Len(ledger) \in Nat /\ DOMAIN ledger = 1 .. Len(ledger)
         /\ \A i \in DOMAIN ledger : ledger[i] \in Record
BY LenProperties, ElementOfSeq DEF LedgerInv

(* A nonempty set of indices has a last one: of the sets of indices above  *)
(* each of them, one has no other below it.                                *)
LEMMA Greatest ==
  ASSUME NEW n \in Nat, NEW S \in SUBSET (1 .. n), S # {}
  PROVE  \E i \in S : \A j \in S : j <= i
<1> DEFINE All == 1 .. n
           Above(i) == {k \in All : k > i}
           T == {Above(i) : i \in S}
           R == StrictSubsetOrdering(All)
<1>1. T \subseteq SUBSET All /\ T # {}
  OBVIOUS
<1>2. IsWellFoundedOn(R, SUBSET All)
  <2>1. IsWellFoundedOn(R, FiniteSubsetsOf(All))
    BY FS_StrictSubsetOrderingWellFounded
  <2>2. IsFiniteSet(All)
    BY FS_Interval
  <2> QED BY <2>1, <2>2, FS_FiniteSubsetsOfFinite
<1> HIDE DEF T, R
<1>3. PICK m \in T : \A k \in T : ~(<<k, m>> \in R)
  BY <1>1, <1>2, WFMin
<1> USE DEF T, R
<1>4. PICK i \in S : m = Above(i)
  BY <1>3
<1>5. ASSUME NEW j \in S, ~(j <= i) PROVE FALSE
  <2>1. j \in Above(i) /\ j \notin Above(j) /\ Above(j) \subseteq Above(i)
    BY <1>5
  <2>2. Above(j) \in T /\ Above(j) \in SUBSET All /\ Above(i) \in SUBSET All
    OBVIOUS
  <2> HIDE DEF Above, T, All
  <2>3. <<Above(j), Above(i)>> \in StrictSubsetOrdering(All)
    BY <2>1, <2>2 DEF StrictSubsetOrdering
  <2> QED BY <1>3, <1>4, <2>2, <2>3
<1> QED BY <1>5

LEMMA ResumesPending ==
  ASSUME LedgerInv, Pending # {}
  PROVE  \E i \in DOMAIN ledger : Resumable = ledger[i].dispatch
<1>1. PICK i \in Pending : \A j \in Pending : j <= i
  BY LedgerIndex, Greatest DEF Pending
<1> DEFINE k == CHOOSE x \in Pending : \A j \in Pending : j <= x
<1>2. k \in Pending
  BY <1>1
<1> QED BY <1>2 DEF Resumable, Pending

(* record(): a dispatch has one record, which a later one replaces unless  *)
(* it is real.                                                             *)
LEMMA RecordedFacts ==
  ASSUME LedgerInv, NEW rec \in Record, ledger' = Recorded(rec)
  PROVE  /\ LedgerInv'
         /\ \A i \in DOMAIN ledger :
              /\ i \in DOMAIN ledger'
              /\ \/ ledger'[i] = ledger[i]
                 \/ /\ ledger'[i] = rec /\ ledger[i].dispatch = rec.dispatch
                    /\ ledger[i].regeneration # "real"
         /\ \A i \in DOMAIN ledger' \ DOMAIN ledger : ledger'[i] = rec
         /\ \E i \in DOMAIN ledger' : /\ ledger'[i].dispatch = rec.dispatch
                                      /\ ledger'[i].regeneration = "real" \/ ledger'[i] = rec
<1> DEFINE same == {i \in DOMAIN ledger : ledger[i].dispatch = rec.dispatch}
           n == Len(ledger)
<1>1. n \in Nat /\ DOMAIN ledger = 1 .. n /\ \A i \in 1 .. n : ledger[i] \in Record
  BY LedgerIndex
<1>2. \A i, j \in same : i = j
  BY DEF LedgerInv, OneRecordPerDispatch
<1>3. CASE \E i \in same : ledger[i].regeneration = "real"
  <2>1. ledger' = ledger
    BY <1>3 DEF Recorded
  <2> QED BY <1>3, <2>1 DEF LedgerInv, OneRecordPerDispatch
<1>4. CASE same # {} /\ \A i \in same : ledger[i].regeneration # "real"
  <2>1. PICK k \in same : TRUE
    BY <1>4
  <2>2. k \in 1 .. n /\ \A i \in 1 .. n : i \in same /\ (\A j \in same : j <= i) <=> i = k
    BY <1>1, <1>2, <2>1
  <2>3. ledger' = [i \in 1 .. n |-> IF i = k THEN rec ELSE ledger[i]]
    <3>1. ledger' = [i \in DOMAIN ledger |-> IF i \in same /\ \A j \in same : j <= i
                                             THEN rec ELSE ledger[i]]
      BY <1>4 DEF Recorded
    <3> QED BY <1>1, <2>2, <3>1
  <2>4. ledger[k].dispatch = rec.dispatch /\ ledger[k].regeneration # "real"
    BY <1>4, <2>1
  <2> HIDE DEF same, n
  <2>5. /\ DOMAIN ledger' = 1 .. n /\ ledger'[k] = rec
        /\ \A i \in 1 .. n : i # k => ledger'[i] = ledger[i]
    BY <2>2, <2>3
  <2>6. ledger' \in Seq(Record)
    BY <1>1, <2>2, <2>3, <2>5
  <2>7. \A i \in 1 .. n : ledger'[i].dispatch = ledger[i].dispatch
    BY <2>4, <2>5
  <2>8. OneRecordPerDispatch'
    BY <1>1, <2>5, <2>7 DEF LedgerInv, OneRecordPerDispatch
  <2> QED BY <1>1, <2>2, <2>4, <2>5, <2>6, <2>8 DEF LedgerInv
<1>5. CASE same = {}
  <2>1. ledger' = Append(ledger, rec)
    BY <1>5 DEF Recorded
  <2>2. /\ ledger' \in Seq(Record) /\ Len(ledger') = n + 1
        /\ \A i \in 1 .. n : ledger'[i] = ledger[i]
        /\ ledger'[n + 1] = rec
    BY <1>1, <2>1 DEF LedgerInv
  <2>3. DOMAIN ledger' = 1 .. (n + 1)
    BY <2>2, LenProperties
  <2>4. \A i \in 1 .. n : ledger[i].dispatch # rec.dispatch
    BY <1>1, <1>5
  <2> HIDE DEF same, n
  <2>5. \A i \in 1 .. (n + 1) : i \in 1 .. n \/ i = n + 1
    BY <1>1
  <2>6. OneRecordPerDispatch'
    BY <1>1, <2>2, <2>3, <2>4, <2>5 DEF LedgerInv, OneRecordPerDispatch
  <2>7. n + 1 \in 1 .. (n + 1) /\ 1 .. n \subseteq 1 .. (n + 1)
    BY <1>1
  <2> QED BY <1>1, <2>2, <2>3, <2>5, <2>6, <2>7 DEF LedgerInv
<1> QED BY <1>3, <1>4, <1>5

LEMMA FiledIsReal ==
  ASSUME LedgerInv, NEW op
  PROVE  Filed(op) <=> RealOf(ledger, op.dispatch, op.op)
<1>1. \A i, j \in DOMAIN ledger : i <= i /\ (ledger[i].dispatch = ledger[j].dispatch => i = j)
  BY LedgerIndex DEF LedgerInv, OneRecordPerDispatch
<1> QED BY <1>1 DEF Filed, RealOf

LEMMA DrainedMeans ==
  ASSUME AskInv, NEW d \in Dispatch, AllDispatches, Drained(d, staged, ledger)
  PROVE  d.asks \cap Current(staged) = {} /\ d.asks \subseteq FinishedOccurrences
<1>1. \A o \in d.asks : o \notin Current(staged)
  BY CurrentOccurrences DEF Drained
<1>2. \A o \in d.asks : o \in FinishedOccurrences
  BY DEF Drained, FinishedOccurrences
<1> QED BY <1>1, <1>2

(* What a record says of another operation, or of a finished dispatch, a   *)
(* later one leaves.                                                       *)
LEMMA RealKept ==
  ASSUME LedgerInv, NEW rec \in Record, ledger' = Recorded(rec),
         NEW d, NEW op, RealOf(ledger, d, op)
  PROVE  RealOf(ledger', d, op)
<1>1. PICK i \in DOMAIN ledger :
        ledger[i].dispatch = d /\ ledger[i].regeneration = "real" /\ ledger[i].op = op
  BY DEF RealOf
<1>2. i \in DOMAIN ledger' /\ ledger'[i] = ledger[i]
  BY <1>1, RecordedFacts
<1> QED BY <1>1, <1>2 DEF RealOf

LEMMA BackedKept ==
  ASSUME LedgerInv, NEW rec \in Record, ledger' = Recorded(rec), NEW r, Backed(r, ledger)
  PROVE  Backed(r, ledger')
BY RealKept DEF Backed

LEMMA DrainedKept ==
  ASSUME LedgerInv, NEW rec \in Record, ledger' = Recorded(rec), rec.regeneration # "pending",
         NEW d, NEW st, Drained(d, st, ledger)
  PROVE  Drained(d, st, ledger')
<1> SUFFICES ASSUME NEW o \in d.asks
             PROVE  /\ st[o.ask] # o.rev
                    /\ \E i \in DOMAIN ledger' :
                         ledger'[i].regeneration # "pending" /\ o \in ledger'[i].dispatch.asks
  BY DEF Drained
<1>1. PICK i \in DOMAIN ledger : ledger[i].regeneration # "pending" /\ o \in ledger[i].dispatch.asks
  BY DEF Drained
<1>2. i \in DOMAIN ledger' /\ (ledger'[i] = ledger[i] \/ (ledger'[i] = rec /\ ledger[i].dispatch = rec.dispatch))
  BY RecordedFacts
<1> QED BY <1>1, <1>2 DEF Drained

-----------------------------------------------------------------------------
(* What a step of the coordinator takes up.                                *)

(* A handed-back row was so before, and a row in verification was drafted  *)
(* before.                                                                 *)
Calm ==
  /\ Returned(row') => Returned(row) /\ row'.dispatch = row.dispatch
  /\ row'.state.phase = "report-verifying" => Past(row.state, {"report-verifying"})

(* Dispatches come from those already held, and from the one submitted.    *)
Draws(d) ==
  /\ {row'.dispatch, fiber'.draft, fiber'.fresh, ready'.fresh} \subseteq Holding \cup {d}
  /\ Present(row') /\ row'.op # row.op => row'.dispatch \in Dispatch

LEMMA PersistDraws ==
  ASSUME CoreInv, fiber.pc # "idle", NEW n, NEW pc, Persist(n, pc), NEW d
  PROVE  Draws(d) /\ (row' = row \/ row' = Swapped(row, n))
<1>1. row \in Row /\ fiber \in Fiber /\ ready' = ready
  BY DEF CoreInv, Persist
<1>2. fiber'.draft = fiber.draft /\ fiber'.fresh = fiber.fresh
  BY <1>1 DEF Persist, Fiber
<1>3. row' = row \/ row' = Swapped(row, n)
  BY DEF Persist
<1>4. Swapped(row, n).op = row.op /\ Swapped(row, n).dispatch = row.dispatch
  BY <1>1 DEF Swapped, Row
<1> QED BY <1>1, <1>2, <1>3, <1>4 DEF Draws, Holding

LEMMA PersistCalm ==
  ASSUME CoreInv, fiber.pc # "idle", NEW n, NEW pc, Persist(n, pc), NEW d,
         ~n.returned, n.phase # "report-verifying"
  PROVE  Draws(d) /\ Calm
<1>1. row \in Row
  BY DEF CoreInv
<1>2. Swapped(row, n).state = n
  BY <1>1 DEF Swapped, Row
<1> QED BY <1>2, PersistDraws DEF Calm, Returned, Past

LEMMA RejectCalm ==
  ASSUME CoreInv, fiber.pc # "idle", fiber.op.state.phase # "completed",
         NEW point, Settle(Fail(fiber.op.state, point)), NEW d
  PROVE  Draws(d) /\ Calm
<1>1. fiber.op.state \in State /\ ~fiber.op.state.returned
  BY SnapshotFacts DEF SoundState
<1>2. ~Fail(fiber.op.state, point).returned /\ Fail(fiber.op.state, point).phase = "failed"
  BY <1>1 DEF Fail, State
<1> QED BY <1>2, PersistCalm DEF Settle

(* The effects up to the ledger, and the report after it is drafted.       *)
LEMMA WorkerCalm ==
  ASSUME CoreInv, NEW d,
         \/ PlanWorkspace \/ PersistAttempt \/ LaunchWorker
         \/ WorkerReturns \/ ObserveWorker \/ WorkerUnreadable
  PROVE  Draws(d) /\ Calm
<1> DEFINE s == fiber.op.state
<1>1. /\ fiber.pc # "idle" /\ s \in State /\ fiber \in Fiber
      /\ s.phase \in {"claimed", "prepared", "worker-running"} /\ ~s.returned
  <2>1. fiber.pc \in {"run", "plan", "launch", "turn", "observe"}
    BY DEF PlanWorkspace, PersistAttempt, LaunchWorker, WorkerReturns, ObserveWorker,
       WorkerUnreadable
  <2>2. fiber.pc = "run" => s.phase = "prepared"
    BY DEF PlanWorkspace, PersistAttempt, LaunchWorker, WorkerReturns, ObserveWorker,
       WorkerUnreadable
  <2>3. s \in State /\ fiber \in Fiber /\ PcFits(fiber.pc, s.phase) /\ SoundState(s)
    BY <2>1, SnapshotFacts
  <2> QED BY <2>1, <2>2, <2>3 DEF PcFits, SoundState
<1>2. CASE Reject("preparing") \/ Reject("worker")
  BY <1>1, <1>2, RejectCalm DEF Reject
<1>3. CASE PlanWorkspace /\ ~Reject("preparing")
  <2> DEFINE n == [s EXCEPT !.phase = "prepared", !.base = head]
  <2>1. ~n.returned /\ n.phase = "prepared"
    BY <1>1 DEF State
  <2>2. Persist(n, EffectOf(n.phase))
    BY <1>3 DEF PlanWorkspace, Settle
  <2> HIDE DEF n
  <2> QED BY <1>1, <2>1, <2>2, PersistCalm
<1>4. CASE PersistAttempt
  <2> DEFINE n == [s EXCEPT !.phase = "worker-running", !.exec = nextExec]
  <2>1. ~n.returned /\ n.phase = "worker-running"
    BY <1>1 DEF State
  <2>2. Persist(n, "launch")
    BY <1>4 DEF PersistAttempt
  <2> HIDE DEF n
  <2> QED BY <1>1, <2>1, <2>2, PersistCalm
<1>5. CASE LaunchWorker /\ ~Reject("worker")
  <2>1. /\ row' = row /\ ready' = ready
        /\ fiber' = [fiber EXCEPT !.pc = "turn"]
    BY <1>5 DEF LaunchWorker, durable
  <2>2. fiber'.draft = fiber.draft /\ fiber'.fresh = fiber.fresh
    BY <1>1, <2>1 DEF Fiber
  <2> QED BY <2>1, <2>2 DEF Draws, Holding, Calm, Returned, Past
<1>6. CASE WorkerReturns \/ ObserveWorker
  <2>1. PICK b : \/ Settle([s EXCEPT !.phase = "worker-settled", !.worker = b])
                 \/ Settle(Fail(s, "worker"))
    BY <1>6 DEF WorkerReturns, ObserveWorker, SettleWorker
  <2> DEFINE n == [s EXCEPT !.phase = "worker-settled", !.worker = b]
  <2>2. ~n.returned /\ n.phase = "worker-settled"
    BY <1>1 DEF State
  <2>3. CASE Settle(n)
    <3> HIDE DEF n
    <3> QED BY <1>1, <2>2, <2>3, PersistCalm DEF Settle
  <2>4. CASE Settle(Fail(s, "worker"))
    BY <1>1, <2>4, RejectCalm
  <2> QED BY <2>1, <2>3, <2>4
<1> QED BY <1>2, <1>3, <1>4, <1>5, <1>6 DEF WorkerUnreadable

LEMMA AdvanceCalm ==
  ASSUME CoreInv, NEW d,
         \/ PersistCommitAttempt \/ PersistRecordingAttempt \/ PersistRecorded
         \/ FinishUnchanged \/ PrepareReport \/ SettleCommits \/ VerifyReport
         \/ RecordingFails \/ DraftFails \/ DraftUnfiled
  PROVE  Draws(d) /\ Calm
<1> DEFINE s == fiber.op.state
<1>1. /\ fiber.pc # "idle" /\ s \in State /\ ~s.returned /\ s.phase # "completed"
  <2>1. /\ fiber.pc \in {"run", "settle", "record", "recorded", "verify"} \cup Drafting
        /\ fiber.pc = "run" => s.phase # "completed"
    BY DEF PersistCommitAttempt, PersistRecordingAttempt, PersistRecorded, FinishUnchanged,
       PrepareReport, SettleCommits, VerifyReport, RecordingFails, DraftFails, DraftUnfiled, Drafting
  <2>2. s \in State /\ PcFits(fiber.pc, s.phase) /\ SoundState(s) /\ fiber.pc # "idle"
    BY <2>1, SnapshotFacts DEF Drafting
  <2> QED BY <2>1, <2>2 DEF PcFits, SoundState
<1>2. \/ \E phase \in Phase \ {"report-verifying"} : Settle([s EXCEPT !.phase = phase])
      \/ \E b \in BOOLEAN : Settle([s EXCEPT !.phase = "commits-settled", !.commits = b])
      \/ \E result : Settle([s EXCEPT !.phase = "completed", !.result = result])
      \/ \E point : Settle(Fail(s, point))
  <2>1. CASE \/ PersistCommitAttempt \/ PersistRecordingAttempt \/ PersistRecorded \/ PrepareReport
    <3>1. \E phase \in {"committing", "round-recording", "round-recorded", "report-drafting"} :
            Settle([s EXCEPT !.phase = phase])
      BY <2>1 DEF PersistCommitAttempt, PersistRecordingAttempt, PersistRecorded, PrepareReport
    <3> QED BY <3>1 DEF Phase
  <2>2. CASE SettleCommits
    <3> DEFINE changed == BranchGained(s.base)
    <3>1. changed \in BOOLEAN
      BY DEF BranchGained
    <3>2. \/ Settle([s EXCEPT !.phase = "commits-settled", !.commits = changed])
          \/ Settle(Fail(s, "committing"))
      BY <2>2 DEF SettleCommits, Reject
    <3> HIDE DEF changed
    <3> QED BY <3>1, <3>2
  <2>3. CASE FinishUnchanged \/ VerifyReport
    BY <2>3 DEF FinishUnchanged, VerifyReport, Reject
  <2>4. CASE RecordingFails \/ DraftFails \/ DraftUnfiled
    BY <2>4 DEF RecordingFails, DraftFails, DraftUnfiled, Reject
  <2> QED BY <2>1, <2>2, <2>3, <2>4
<1>3. ASSUME NEW phase \in Phase \ {"report-verifying"}, Settle([s EXCEPT !.phase = phase])
      PROVE  Draws(d) /\ Calm
  <2> DEFINE n == [s EXCEPT !.phase = phase]
  <2>1. ~n.returned /\ n.phase = phase
    BY <1>1 DEF State
  <2>2. Settle(n)
    BY <1>3
  <2> HIDE DEF n
  <2> QED BY <1>1, <2>1, <2>2, PersistCalm DEF Settle
<1>4. ASSUME NEW b \in BOOLEAN, Settle([s EXCEPT !.phase = "commits-settled", !.commits = b])
      PROVE  Draws(d) /\ Calm
  <2> DEFINE n == [s EXCEPT !.phase = "commits-settled", !.commits = b]
  <2>1. ~n.returned /\ n.phase = "commits-settled"
    BY <1>1 DEF State
  <2>2. Settle(n)
    BY <1>4
  <2> HIDE DEF n
  <2> QED BY <1>1, <2>1, <2>2, PersistCalm DEF Settle
<1>5. ASSUME NEW result, Settle([s EXCEPT !.phase = "completed", !.result = result])
      PROVE  Draws(d) /\ Calm
  <2> DEFINE n == [s EXCEPT !.phase = "completed", !.result = result]
  <2>1. ~n.returned /\ n.phase = "completed"
    BY <1>1 DEF State
  <2>2. Settle(n)
    BY <1>5
  <2> HIDE DEF n
  <2> QED BY <1>1, <2>1, <2>2, PersistCalm DEF Settle
<1>6. ASSUME NEW point, Settle(Fail(s, point)) PROVE Draws(d) /\ Calm
  BY <1>1, <1>6, RejectCalm
<1> QED BY <1>2, <1>3, <1>4, <1>5, <1>6

LEMMA RowHolds ==
  ASSUME CoreInv, row' \in {row, NoRow, Requeued(row)},
         {fiber'.draft, fiber'.fresh, ready'.fresh} \subseteq Holding, NEW d
  PROVE  Draws(d) /\ Calm
<1>1. row \in Row /\ ~Present(NoRow) /\ NoRow.dispatch = NoDispatch /\ NoRow.state = Claimed
  BY DEF CoreInv, NoRow, Present
<1>2. /\ Requeued(row).op = row.op /\ Requeued(row).state = row.state
      /\ Requeued(row).dispatch = row.dispatch
  BY <1>1 DEF Requeued, Row
<1>3. Claimed.phase = "claimed"
  BY DEF Claimed
<1>4. CASE row' \in {row, Requeued(row)}
  BY <1>2, <1>4 DEF Draws, Calm, Holding, Returned, Past
<1>5. CASE row' = NoRow
  BY <1>1, <1>3, <1>5 DEF Draws, Calm, Holding, Returned
<1> QED BY <1>4, <1>5

(* A write of the same operation that neither returns nor verifies it.     *)
LEMMA SwapHolds ==
  ASSUME CoreInv, NEW n, row' = Swapped(row, n), ~n.returned,
         n.phase = "report-verifying" => Past(row.state, {"report-verifying"}),
         {fiber'.draft, fiber'.fresh, ready'.fresh} \subseteq Holding, NEW d
  PROVE  Draws(d) /\ Calm
<1>1. row'.op = row.op /\ row'.state = n /\ row'.dispatch = row.dispatch
  BY DEF Swapped, Row, CoreInv
<1> QED BY <1>1 DEF Draws, Calm, Holding, Returned

LEMMA NewHolds ==
  ASSUME NEW x \in Dispatch, row' = NewOperation(nextOp, x), NEW d, x \in Holding \cup {d},
         {fiber'.draft, fiber'.fresh, ready'.fresh} \subseteq Holding \cup {d}
  PROVE  Draws(d) /\ Calm
<1>1. row'.dispatch = x /\ row'.state.phase = "claimed"
  BY DEF NewOperation, Claimed
<1> QED BY <1>1 DEF Draws, Calm, Returned

LEMMA StartHolds ==
  ASSUME NEW r, Start(r)
  PROVE  {fiber'.draft, fiber'.fresh} \subseteq Holding
<1>1. Driving(r).draft = NoDispatch /\ Driving(r).fresh = NoDispatch
  BY DEF Driving, Idle
<1> QED BY <1>1 DEF Start, Holding

LEMMA EndHolds ==
  ASSUME EndDrive \/ RejectDrive
  PROVE  {fiber'.draft, fiber'.fresh, ready'.fresh} \subseteq Holding
<1>1. Idle.draft = NoDispatch /\ Idle.fresh = NoDispatch /\ NoContinuation.fresh = NoDispatch
  BY DEF Idle, NoContinuation
<1>2. CASE EndDrive
  BY <1>1, <1>2 DEF EndDrive, Holding
<1>3. CASE RejectDrive
  <2>1. ready'.fresh = NoDispatch
    BY <1>3 DEF RejectDrive, NoContinuation
  <2> QED BY <1>1, <1>3, <2>1 DEF RejectDrive, Holding
<1> QED BY <1>2, <1>3

(* The drain, and what drive() does within a phase.                        *)
LEMMA DrainCalm ==
  ASSUME CoreInv, NEW d,
         \/ RecordRound \/ Recapture \/ FileGeneration \/ RecordHandoff
         \/ Superseded \/ DrainFails \/ ComposeReplacement
         \/ Redrive \/ ReplaceQueued \/ ClearQueued \/ RecordReturn \/ Retain \/ DrainTerminal(d)
  PROVE  Draws(d) /\ (~RecordReturn => Calm)
<1>1. row \in Row /\ fiber \in Fiber /\ row.state \in State
  BY DEF CoreInv, Row
<1>2. CASE RecordRound \/ Recapture \/ FileGeneration \/ ComposeReplacement \/ Redrive
  <2>1. row' = row /\ ready' = ready /\ fiber'.draft \in {fiber.draft, NoDispatch} /\ fiber'.fresh = fiber.fresh
    BY <1>1, <1>2 DEF RecordRound, Recapture, FileGeneration, DraftStep, ComposeReplacement,
       Redrive, durable, Fiber
  <2> QED BY <2>1, RowHolds DEF Holding
<1>3. CASE DrainTerminal(d)
  <2>1. row' = row /\ ready' = ready /\ fiber'.draft \in {fiber.draft, d} /\ fiber'.fresh = fiber.fresh
    BY <1>1, <1>3 DEF DrainTerminal, durable, Fiber
  <2> QED BY <2>1 DEF Draws, Calm, Holding, Returned, Past
<1>4. CASE RecordHandoff
  <2> DEFINE n == [row.state EXCEPT !.epoch = row.rev + 1]
  <2>1. /\ row' \in {row, Swapped(row, n)} /\ row.state.phase = "report-drafting" /\ ready' = ready
        /\ fiber'.draft = fiber.draft /\ fiber'.fresh = fiber.fresh
    BY <1>1, <1>4 DEF RecordHandoff, Fiber
  <2>2. n.phase = "report-drafting" /\ ~n.returned
    BY <1>1, <2>1 DEF State, CoreInv, Sound, SoundState
  <2>3. {fiber'.draft, fiber'.fresh, ready'.fresh} \subseteq Holding
    BY <2>1 DEF Holding
  <2> HIDE DEF n
  <2> QED BY <2>1, <2>2, <2>3, RowHolds, SwapHolds
<1>5. CASE Superseded \/ DrainFails \/ ClearQueued \/ Retain
  <2>1. (EndDrive \/ RejectDrive) /\ row' \in {row, NoRow}
    BY <1>5 DEF Superseded, DrainFails, ClearQueued, Retain, durable
  <2> QED BY <2>1, EndHolds, RowHolds
<1>6. CASE ReplaceQueued
  <2>1. /\ row' = NewOperation(nextOp, fiber.draft) /\ ready' = ready
        /\ fiber'.draft = NoDispatch /\ fiber'.fresh = fiber.fresh
    BY <1>1, <1>6 DEF ReplaceQueued, Fiber
  <2>2. fiber.draft \in Dispatch
    BY <1>6 DEF ReplaceQueued, CoreInv, DecisionFits
  <2> QED BY <2>1, <2>2, NewHolds DEF Holding
<1>7. CASE RecordReturn
  <2> DEFINE n == [row.state EXCEPT !.returned = TRUE]
  <2>1. row' = Swapped(row, n) /\ EndDrive
    BY <1>7 DEF RecordReturn
  <2> HIDE DEF n
  <2>2. row'.op = row.op /\ row'.dispatch = row.dispatch
    BY <1>1, <2>1 DEF Swapped, Row
  <2> QED BY <1>7, <2>1, <2>2, EndHolds DEF Draws, Holding
<1> QED BY <1>2, <1>3, <1>4, <1>5, <1>6, <1>7

LEMMA SubmitCalm ==
  ASSUME CoreInv, NEW d \in Dispatch, SubmitOperation(d), ready'.fresh \in Holding
  PROVE  Draws(d) /\ Calm
<1>1. CASE Claimable
  <2>1. row' = NewOperation(nextOp, d) /\ Start(row')
    BY <1>1 DEF SubmitOperation
  <2> QED BY <2>1, NewHolds, StartHolds
<1>2. CASE ~Claimable
  <2>1. row' \in {row, Requeued(row)}
    BY <1>2 DEF SubmitOperation
  <2>2. CASE Start(row') \/ fiber' = fiber
    <3>1. {fiber'.draft, fiber'.fresh} \subseteq Holding
      BY <2>2, StartHolds DEF Holding
    <3> QED BY <2>1, <3>1, RowHolds
  <2>3. CASE row' = row /\ fiber' = [Driving(row) EXCEPT !.freshOp = row.op, !.fresh = d]
    <3>1. fiber'.draft = NoDispatch /\ fiber'.fresh = d
      BY <2>3, DrivingFiber DEF Driving, Idle, CoreInv, Fiber
    <3> QED BY <2>3, <3>1 DEF Draws, Calm, Holding, Returned, Past
  <2> QED BY <1>2, <2>2, <2>3 DEF SubmitOperation
<1> QED BY <1>1, <1>2

LEMMA RetryCalm ==
  ASSUME CoreInv, NEW awaited, RetryFailed(awaited), NEW d
  PROVE  Draws(d) /\ Calm
<1> DEFINE n == RetryState(row.state)
<1>1. /\ row.state \in State /\ SoundState(row.state) /\ fiber \in Fiber /\ ready \in Continuation
      /\ row.state.phase = "failed" /\ row' = Swapped(row, n)
  BY DEF RetryFailed, CoreInv, Row, Sound
<1>2. n.phase = RetryPhase(row.state.at) /\ n.returned = row.state.returned
  BY <1>1 DEF RetryState, State
<1>3. ~n.returned /\ (n.phase = "report-verifying" => row.state.at = "report-verifying")
  BY <1>1, <1>2 DEF SoundState, RetryPhase
<1>4. ready'.fresh = ready.fresh
  BY <1>1 DEF RetryFailed, Continuation
<1>5. fiber'.draft \in {fiber.draft, NoDispatch} /\ fiber'.fresh \in {fiber.fresh, NoDispatch}
  <2>1. CASE Running
    BY <1>1, <2>1 DEF RetryFailed, Fiber
  <2>2. CASE ~Running
    BY <2>2 DEF RetryFailed, Driving, Idle
  <2> QED BY <2>1, <2>2
<1> HIDE DEF n
<1> QED BY <1>1, <1>3, <1>4, <1>5, SwapHolds DEF Past, Holding

LEMMA CommandCalm ==
  ASSUME CoreInv, FreshFits, NEW d,
         \/ ClearDrained \/ SubmitFresh \/ ContinueRetry \/ RenewHandoff
         \/ Retry \/ Recover \/ Crash \/ EnvironmentStep
  PROVE  Draws(d) /\ Calm
<1>1. row \in Row /\ row.state \in State /\ SoundState(row.state) /\ ready \in Continuation
  BY DEF CoreInv, Row, Sound
<1> DEFINE renewed == [row.state EXCEPT !.epoch = row.rev + 1]
<1>2. row.state.phase = "report-drafting" => renewed.phase = "report-drafting" /\ ~renewed.returned
  BY <1>1 DEF State, SoundState
<1> HIDE DEF renewed
<1>3. CASE ClearDrained
  BY <1>3, RowHolds DEF ClearDrained, Holding
<1>4. CASE SubmitFresh
  <2>1. ready.fresh \in Dispatch /\ SubmitOperation(ready.fresh) /\ ready'.fresh = NoDispatch
    BY <1>1, <1>4 DEF SubmitFresh, FreshFits, Continuation
  <2> DEFINE x == ready.fresh
  <2>2. Draws(x) /\ Calm
    BY <2>1, SubmitCalm DEF Holding
  <2> QED BY <2>2 DEF Draws, Holding
<1>5. CASE ContinueRetry
  <2>1. row' = row /\ ready' = NoContinuation /\ (Start(row) \/ fiber' = fiber)
    BY <1>5 DEF ContinueRetry, durable
  <2>2. {fiber'.draft, fiber'.fresh} \subseteq Holding
    BY <2>1, StartHolds DEF Holding
  <2>3. ready'.fresh = NoDispatch
    BY <2>1 DEF NoContinuation
  <2> QED BY <2>1, <2>2, <2>3, RowHolds DEF Holding
<1>6. CASE RenewHandoff
  <2>1. row' = Swapped(row, renewed) /\ Start(row') /\ ready'.fresh = ready.fresh
        /\ row.state.phase = "report-drafting"
    BY <1>1, <1>6 DEF RenewHandoff, Continuation, CoreInv, RenewFits, renewed
  <2>2. {fiber'.draft, fiber'.fresh, ready'.fresh} \subseteq Holding
    BY <2>1, StartHolds DEF Holding
  <2> QED BY <1>2, <2>1, <2>2, SwapHolds
<1>7. CASE Retry
  BY <1>7, RetryCalm DEF Retry
<1>8. CASE Recover
  <2>1. CASE RetryFailed(FALSE)
    BY <2>1, RetryCalm
  <2>2. CASE /\ row' = IF row.state.phase = "report-drafting" /\ row.state.epoch # 0
                       THEN Swapped(row, renewed) ELSE row
             /\ Start(row') \/ fiber' = fiber
             /\ ready' = ready
    <3>1. {fiber'.draft, fiber'.fresh, ready'.fresh} \subseteq Holding
      BY <2>2, StartHolds DEF Holding
    <3> QED BY <1>2, <2>2, <3>1, SwapHolds, RowHolds
  <2> QED BY <1>8, <2>1, <2>2 DEF Recover, renewed
<1>9. CASE Crash
  <2>1. fiber' = Idle /\ ready' = NoContinuation /\ row' = row
    BY <1>9 DEF Crash, durable
  <2>2. fiber'.draft = NoDispatch /\ fiber'.fresh = NoDispatch /\ ready'.fresh = NoDispatch
    BY <2>1 DEF Idle, NoContinuation
  <2> QED BY <2>1, <2>2, RowHolds DEF Holding
<1>10. CASE EnvironmentStep
  <2>1. row' = row /\ fiber' = fiber /\ ready' = ready
    BY <1>10 DEF EnvironmentStep, HumanCommit, TurnEnds, durable
  <2> QED BY <2>1, RowHolds DEF Holding
<1> QED BY <1>3, <1>4, <1>5, <1>6, <1>7, <1>8, <1>9, <1>10

LEMMA ThreadCalm ==
  ASSUME IInv, FreshFits, NEW d, ThreadStep \/ EffectStep
  PROVE  Draws(d) /\ (~RecordReturn => Calm)
<1>1. CoreInv
  BY DEF IInv
<1>2. CASE \/ PersistAttempt \/ PlanWorkspace \/ LaunchWorker \/ WorkerReturns \/ ObserveWorker
           \/ WorkerUnreadable
  BY <1>1, <1>2, WorkerCalm
<1>3. CASE \/ PersistCommitAttempt \/ PersistRecordingAttempt \/ PersistRecorded
           \/ FinishUnchanged \/ PrepareReport \/ SettleCommits \/ VerifyReport
           \/ RecordingFails \/ DraftFails
  BY <1>1, <1>3, AdvanceCalm
<1>4. CASE \/ RecordHandoff \/ Superseded \/ DrainFails \/ ComposeReplacement
           \/ Redrive \/ ReplaceQueued \/ ClearQueued \/ RecordReturn \/ Retain
  BY <1>1, <1>4, DrainCalm
<1>5. CASE ClearDrained \/ SubmitFresh \/ ContinueRetry \/ RenewHandoff
  BY <1>1, <1>5, CommandCalm
<1> QED BY <1>2, <1>3, <1>4, <1>5 DEF ThreadStep, EffectStep

-----------------------------------------------------------------------------
(* The coordinator's own invariant, in every step of the command.          *)

(* What a step leaves of the coordinator, and where its dispatches are     *)
(* from.                                                                   *)
Coordinated(d) ==
  /\ IInv' /\ FreshFits' /\ RowWritten /\ SnapshotTaken /\ Draws(d)
  /\ nextOp' \in {nextOp, nextOp + 1}

LEMMA NextCounts ==
  ASSUME Next
  PROVE  nextOp' \in {nextOp, nextOp + 1}
<1>1. CASE ThreadStep
  BY <1>1 DEF ThreadStep, PersistAttempt, PersistCommitAttempt, PersistRecordingAttempt,
     PersistRecorded, FinishUnchanged, PrepareReport, Settle, Persist, Redrive, ReplaceQueued,
     ClearQueued, RecordReturn, Retain, ClearDrained, SubmitFresh, SubmitOperation, ContinueRetry,
     RenewHandoff, durable
<1>2. CASE EffectStep
  BY <1>2 DEF EffectStep, PlanWorkspace, LaunchWorker, WorkerReturns, ObserveWorker, SettleWorker,
     WorkerUnreadable, SettleCommits, RecordingFails, RecordHandoff, DraftFails, Superseded,
     VerifyReport, ComposeReplacement, DrainFails, Reject, Settle, Persist, durable
<1>3. CASE \/ RecordRound \/ Recapture \/ FileGeneration \/ FinishDraft
           \/ \E d \in Dispatch \cup {NoDispatch} : DrainTerminal(d)
  BY <1>3 DEF RecordRound, Recapture, FileGeneration, DraftStep, FinishDraft, Settle, Persist,
     DrainTerminal, durable
<1>4. CASE \/ \E d \in Dispatch : Submit(d) \/ QueueBehind(d)
           \/ Retry \/ Recover \/ Crash \/ EnvironmentStep
  BY <1>4 DEF Submit, QueueBehind, SubmitOperation, Retry, Recover, Crash, EnvironmentStep,
     HumanCommit, TurnEnds, durable
<1> QED BY <1>1, <1>2, <1>3, <1>4 DEF Next

LEMMA NextCoordinated ==
  ASSUME IInv, FreshFits, Next, NEW d, Draws(d)
  PROVE  Coordinated(d)
<1>1. IInv' /\ CoreInv
  BY StepInv DEF IInv
<1> QED BY <1>1, FreshStep, StepWritten, NextCounts DEF Coordinated

(* Budgets are only counted.                                               *)
LEMMA CountedInv ==
  ASSUME IInv, CoreInv', NoLaunch, UNCHANGED <<outside, recovered, retries, crashes>>,
         requests' \in {requests, requests + 1}, faults' \in {faults, faults + 1}
  PROVE  IInv'
<1>1. CountsType' /\ turns' = turns /\ nextExec' = nextExec
  BY DEF IInv, OutsideInv, CountsType, outside
<1> QED BY <1>1, TurnsKept DEF IInv

LEMMA StaysCoordinated ==
  ASSUME IInv, FreshFits, UNCHANGED <<durable, outside, fiber, ready, recovered, retries, crashes>>,
         requests' \in {requests, requests + 1}, faults' \in {faults, faults + 1}, NEW d
  PROVE  Coordinated(d) /\ Calm
<1>1. CoreInv' /\ NoLaunch
  BY UntouchedInv DEF IInv
<1>2. IInv'
  BY <1>1, CountedInv
<1>3. row' = row /\ fiber' = fiber /\ ready' = ready
  BY DEF durable
<1>4. Draws(d) /\ Calm
  BY <1>3, RowHolds DEF IInv, Holding
<1> QED BY <1>2, <1>3, <1>4 DEF Coordinated, FreshFits, RowWritten, SnapshotTaken, durable

LEMMA UnfiledCoordinated ==
  ASSUME IInv, FreshFits, DraftUnfiled, NEW d
  PROVE  Coordinated(d) /\ Calm
<1>1. CoreInv /\ fiber.pc = "filed" /\ Settle(Fail(fiber.op.state, "report-drafting"))
      /\ UNCHANGED <<outside, faults>>
  BY DEF IInv, DraftUnfiled
<1>2. fiber.op.state.phase = FailsIn("report-drafting")
  BY <1>1, SnapshotFacts DEF PcFits, Drafting, FailsIn
<1>3. CoreInv' /\ NoLaunch
  BY <1>1, <1>2, RejectInv DEF FailurePoint
<1>4. UNCHANGED <<recovered, requests, retries, crashes>>
  BY <1>1, SettleFrame
<1>5. IInv'
  BY <1>1, <1>3, <1>4, CountedInv
<1>6. RowWritten /\ SnapshotTaken
  BY <1>1, <1>2, RejectWritten DEF FailurePoint
<1>7. FreshFits'
  BY <1>1, SettleFresh
<1>8. Draws(d) /\ Calm
  BY <1>1, AdvanceCalm
<1>9. nextOp' = nextOp
  BY <1>1 DEF Settle, Persist
<1> QED BY <1>5, <1>6, <1>7, <1>8, <1>9 DEF Coordinated

LEMMA QueueCoordinated ==
  ASSUME IInv, FreshFits, NEW c, QueueOnOwner(c), NEW d
  PROVE  Coordinated(d) /\ Calm
<1>1. /\ CoreInv /\ ~Busy /\ Owned /\ row' \in {row, Requeued(row)} /\ Start(row') /\ nextOp' = nextOp
      /\ UNCHANGED <<outside, ready, recovered, budgets>>
  BY DEF IInv, QueueOnOwner
<1>2. ready' \in Continuation /\ ~ready'.renew /\ ready'.freshOp = 0
  BY <1>1, NotBusy
<1>3. /\ row \in Row /\ row.op < nextOp /\ nextOp \in Nat \ {0}
      /\ Present(row) /\ ~Returned(row) /\ Sound(row)
  BY <1>1 DEF Owned, CoreInv
<1>4. /\ Requeued(row) \in Row /\ Requeued(row).op = row.op /\ Requeued(row).rev >= row.rev
      /\ Requeued(row).rev = row.rev => Requeued(row) = row
      /\ Requeued(row).state = row.state
  BY <1>3, RequeuedRow
<1>5. /\ row' \in Row /\ row'.op = row.op /\ row'.rev >= row.rev
      /\ row'.rev = row.rev => row' = row
      /\ row'.state = row.state
  BY <1>1, <1>3, <1>4 DEF Row
<1>6. Sound(row)' /\ Present(row)'
  BY <1>3, <1>5 DEF Sound, Returned, Present
<1>7. CoreInv' /\ NoLaunch
  BY <1>1, <1>2, <1>3, <1>5, <1>6, StartInv
<1>8. IInv'
  BY <1>1, <1>7, CountedInv DEF budgets
<1>9. FreshFits'
  BY <1>1, <1>2, StartFresh
<1>10. RowWritten /\ SnapshotTaken
  <2>1. fiber'.op \in {fiber.op, row'}
    BY <1>1, <1>5, StartTakes
  <2> QED BY <1>1, <2>1 DEF RowWritten, SnapshotTaken
<1>11. Draws(d) /\ Calm
  BY <1>1, StartHolds, RowHolds DEF Holding
<1> QED BY <1>1, <1>8, <1>9, <1>10, <1>11 DEF Coordinated

LEMMA KickCoordinated ==
  ASSUME IInv, FreshFits, NEW c, c.dispatch \in Dispatch, Kick(c)
  PROVE  Coordinated(c.dispatch) /\ Calm
<1> DEFINE d == c.dispatch
<1>1. /\ CoreInv /\ ~Busy /\ SubmitOperation(d) /\ d \in Dispatch
      /\ UNCHANGED <<outside, ready, recovered, budgets>>
  BY DEF IInv, Kick
<1> HIDE DEF d
<1>2. ready' \in Continuation /\ ~ready'.renew /\ ~ready.renew /\ ready'.freshOp = 0
  BY <1>1, NotBusy
<1>3. CoreInv' /\ NoLaunch
  BY <1>1, <1>2, SubmitOperationInv
<1>4. IInv'
  BY <1>1, <1>3, CountedInv DEF budgets
<1>5. FreshFits' /\ RowWritten /\ SnapshotTaken
  BY <1>1, <1>2, CommandFresh, SubmitWritten
<1>6. Draws(d) /\ Calm
  BY <1>1, SubmitCalm DEF Holding
<1>7. nextOp' \in {nextOp, nextOp + 1}
  BY <1>1 DEF SubmitOperation
<1> QED BY <1>4, <1>5, <1>6, <1>7 DEF Coordinated, d

-----------------------------------------------------------------------------
(* Every step of the command, by what it does to the coordinator.          *)

(* A drive() in flight works for the dispatch of the row.                  *)
LEMMA OwnDispatch ==
  ASSUME AllDispatches, CoreInv, HeldInv, fiber.pc # "idle"
  PROVE  /\ fiber.op.dispatch = row.dispatch /\ fiber.op.op = row.op
         /\ fiber.op.dispatch \in Dispatch /\ Known(fiber.op.dispatch, seq)
         /\ fiber.op.dispatch.asks \in SUBSET Occurrence
<1>1. Present(row) /\ row.op = fiber.op.op
  BY DEF CoreInv, FiberOwnsRow, Running
<1>2. fiber.op.dispatch = row.dispatch /\ fiber.op.dispatch # NoDispatch
  BY <1>1 DEF HeldInv
<1>3. Known(fiber.op.dispatch, seq)
  BY <1>2 DEF HeldInv, Holding
<1> QED BY <1>1, <1>2, <1>3 DEF Known, AllDispatches

LEMMA FinishedKnown ==
  ASSUME AllDispatches, HeldInv
  PROVE  FinishedOccurrences \in SUBSET Occurrence
BY DEF FinishedOccurrences, HeldInv, Known, AllDispatches

(* A command by which nothing but the coordinator moves.                   *)
DriveOnly ==
  \/ CoordinatorStep \/ RecordPlaceholder \/ FileRealGeneration \/ FinishFiledDraft \/ DraftUnfiled
  \/ \E c \in calls : QueueOnOwner(c) \/ JoinKick(c) \/ ComposeOrder(c) \/ Kick(c) \/ KickFails(c)
  \/ RetryRound \/ RestartDaemon \/ Unaffected

LEMMA DriveOnlyFrame ==
  ASSUME DriveOnly
  PROVE  UNCHANGED <<staged, seq, edits, patchset>>
BY DEF DriveOnly, CoordinatorStep, DraftUntouched, RecordPlaceholder, FileRealGeneration,
   FinishFiledDraft, DraftUnfiled, QueueOnOwner, JoinKick, ComposeOrder, Kick, KickFails, RetryRound,
   RestartDaemon, Unaffected, dispatchVars, askLog

(* A drain consumes what its own dispatch names, or nothing.               *)
LEMMA DrainAsks ==
  ASSUME AllDispatches, IInv, AskInv, HeldInv, Drain
  PROVE  /\ AskInv' /\ seq <= seq'
         /\ \A a \in Ask : staged'[a] \in {0, staged[a]}
         /\ \A a \in Ask : staged[a] # 0 /\ staged'[a] = 0 =>
              /\ fiber.op.state.phase = "completed" /\ ~fiber.op.state.returned
              /\ [ask |-> a, rev |-> staged[a]] \in fiber.op.dispatch.asks
         /\ fiber.op.state.phase = "completed" /\ ~fiber.op.state.returned =>
              \A o \in fiber.op.dispatch.asks : staged'[o.ask] # o.rev
<1>1. /\ fiber.pc = "drain" /\ patchset' = patchset
      /\ fiber.op.dispatch.asks \in SUBSET Occurrence
  BY OwnDispatch DEF Drain, IInv
<1>2. CASE fiber.op.state.phase = "completed" /\ ~fiber.op.state.returned
  <2>1. Consume(fiber.op.dispatch.asks)
    BY <1>2 DEF Drain
  <2> QED BY <1>1, <1>2, <2>1, ConsumeFacts
<1>3. CASE ~(fiber.op.state.phase = "completed" /\ ~fiber.op.state.returned)
  <2>1. UNCHANGED <<staged, seq, edits>>
    BY <1>3 DEF Drain, askLog
  <2> QED BY <1>1, <1>3, <2>1 DEF AskInv
<1> QED BY <1>2, <1>3

LEMMA DispatchAsks ==
  ASSUME AllDispatches, AskInv, HeldInv, DispatchRound
  PROVE  /\ AskInv' /\ seq <= seq'
         /\ \A a \in Ask : staged'[a] \in {0, staged[a]}
         /\ \A a \in Ask : staged[a] # 0 /\ staged'[a] = 0 =>
              [ask |-> a, rev |-> staged[a]] \in FinishedOccurrences
<1>1. Consume(FinishedOccurrences) /\ patchset' = patchset
  BY DEF DispatchRound
<1> QED BY <1>1, FinishedKnown, ConsumeFacts

LEMMA AskStep ==
  ASSUME AllDispatches, DInv, DispatchNext
  PROVE  AskInv' /\ seq <= seq' /\ seq' \in Nat
<1>1. CASE DriveOnly
  <2>1. UNCHANGED <<staged, seq, edits, patchset>>
    BY <1>1, DriveOnlyFrame
  <2> QED BY <2>1 DEF DInv, AskInv
<1>2. CASE RecaptureReview
  <2>1. UNCHANGED <<staged, seq, edits>> /\ patchset' = fiber.op.op
    BY <1>2 DEF RecaptureReview, askLog
  <2>2. fiber.op.op \in Nat
    BY DEF DInv, IInv, CoreInv, Fiber, Row
  <2> QED BY <2>1, <2>2 DEF DInv, AskInv
<1>3. CASE Drain
  BY <1>3, DrainAsks DEF DInv, AskInv
<1>4. CASE DispatchRound
  BY <1>4, DispatchAsks DEF DInv, AskInv
<1>5. ASSUME NEW a \in Ask, StageAsk(a) \/ UnstageAsk(a) PROVE AskInv' /\ seq <= seq' /\ seq' \in Nat
  BY <1>5, EditFacts DEF DInv, AskInv
<1> QED BY <1>1, <1>2, <1>3, <1>4, <1>5 DEF DispatchNext, DriveOnly

(* Only the drain's last write hands a round back, and only a drafted      *)
(* report that is filed goes to verification.                              *)
Verifies ==
  row'.state.phase = "report-verifying" =>
    Past(row.state, {"report-verifying"}) \/ RealOf(ledger, row.dispatch, row.op)

LEMMA FinishCoordinated ==
  ASSUME AllDispatches, DInv, FinishFiledDraft, NEW d
  PROVE  Coordinated(d) /\ Verifies /\ (Returned(row') => Returned(row) /\ row'.dispatch = row.dispatch)
<1> DEFINE n == [fiber.op.state EXCEPT !.phase = "report-verifying"]
<1>1. /\ CoreInv /\ fiber.pc = "filed" /\ Settle(n) /\ FinishDraft /\ Filed(fiber.op)
  BY DEF FinishFiledDraft, FinishDraft, DInv, IInv
<1>2. n.phase = "report-verifying"
  BY <1>1, SnapshotFacts DEF State
<1> HIDE DEF n
<1>3. Draws(d) /\ (row' = row \/ row' = Swapped(row, n))
  BY <1>1, PersistDraws DEF Settle
<1>4. Coordinated(d)
  BY <1>1, <1>3, NextCoordinated DEF DInv, Next
<1>5. RealOf(ledger, row.dispatch, row.op)
  BY <1>1, FiledIsReal, OwnDispatch DEF DInv
<1>6. row' = Swapped(row, n) => row'.state.phase = "report-verifying"
  BY <1>1, <1>2 DEF Swapped, Row, CoreInv
<1> QED BY <1>3, <1>4, <1>5, <1>6 DEF Verifies, Returned

LEMMA ReturnVerifies ==
  ASSUME CoreInv, RecordReturn
  PROVE  Verifies
<1> DEFINE n == [row.state EXCEPT !.returned = TRUE]
<1>1. row' = Swapped(row, n) /\ row.state.phase = "completed" /\ row.state \in State /\ row \in Row
  BY DEF RecordReturn, CoreInv, Row, FiberOwnsRow, Running, DecisionFits
<1>2. n.phase = "completed"
  BY <1>1 DEF State
<1> HIDE DEF n
<1>3. row'.state.phase = "completed"
  BY <1>1, <1>2 DEF Swapped, Row
<1> QED BY <1>3 DEF Verifies

(* A round is handed back by the drain's last write, or was before.        *)
HandsBack ==
  Returned(row') => RecordReturn \/ (Returned(row) /\ row'.dispatch = row.dispatch)

LEMMA KnownLater ==
  ASSUME NEW d, NEW m \in Nat, NEW n \in Nat, m <= n, Known(d, m), AllDispatches
  PROVE  Known(d, n)
BY OccurrenceFields DEF Known, AllDispatches

LEMMA StepCoordinated ==
  ASSUME AllDispatches, DInv, DispatchNext
  PROVE  /\ \E d : (d = NoDispatch \/ Known(d, seq')) /\ Coordinated(d)
         /\ Verifies /\ HandsBack
<1>1. IInv /\ CoreInv /\ FreshFits /\ HeldInv /\ KickInv /\ AskInv
  BY DEF DInv, IInv
<1>2. Calm => Verifies /\ HandsBack
  BY DEF Calm, Verifies, HandsBack
<1>3. CASE CoordinatorStep
  <2>1. ThreadStep \/ EffectStep
    BY <1>3 DEF CoordinatorStep
  <2>2. Draws(NoDispatch) /\ (~RecordReturn => Calm)
    BY <1>1, <2>1, ThreadCalm
  <2>3. Coordinated(NoDispatch)
    BY <1>1, <2>1, <2>2, NextCoordinated DEF Next
  <2> QED BY <1>1, <1>2, <2>2, <2>3, ReturnVerifies DEF HandsBack
<1>4. CASE RecordPlaceholder \/ RecaptureReview \/ FileRealGeneration
  <2>1. RecordRound \/ Recapture \/ FileGeneration
    BY <1>4 DEF RecordPlaceholder, RecaptureReview, FileRealGeneration
  <2>2. Draws(NoDispatch) /\ (~RecordReturn => Calm)
    BY <1>1, <2>1, DrainCalm
  <2>3. Coordinated(NoDispatch)
    BY <1>1, <2>1, <2>2, NextCoordinated DEF Next
  <2> QED BY <1>1, <1>2, <2>2, <2>3, ReturnVerifies DEF HandsBack
<1>5. CASE FinishFiledDraft
  BY <1>5, FinishCoordinated DEF HandsBack
<1>6. CASE DraftUnfiled
  BY <1>1, <1>2, <1>6, UnfiledCoordinated
<1>7. CASE Drain
  <2> DEFINE d == DraftOf(patchset, Current(staged'))
  <2>1. DrainTerminal(d)
    BY <1>7 DEF Drain
  <2>2. seq' \in Nat /\ staged' \in [Ask -> Nat] /\ (\A a \in Ask : staged'[a] <= seq') /\ patchset \in Nat
    BY <1>1, <1>7, DrainAsks DEF AskInv
  <2>3. d = NoDispatch \/ Known(d, seq')
    BY <2>2, DraftKnown
  <2> HIDE DEF d
  <2>4. Draws(d) /\ (~RecordReturn => Calm)
    BY <1>1, <2>1, DrainCalm
  <2>5. Coordinated(d)
    <3>1. d \in Dispatch \cup {NoDispatch}
      BY <2>3 DEF Known
    <3> QED BY <1>1, <2>1, <2>4, <3>1, NextCoordinated DEF Next
  <2> QED BY <1>1, <1>2, <2>3, <2>4, <2>5, ReturnVerifies DEF HandsBack
<1>8. CASE \/ \E a \in Ask : StageAsk(a) \/ UnstageAsk(a)
           \/ DispatchRound
           \/ \E c \in calls : JoinKick(c) \/ ComposeOrder(c) \/ KickFails(c)
  <2>1. /\ UNCHANGED <<durable, outside, fiber, ready, recovered, retries, crashes>>
        /\ requests' \in {requests, requests + 1} /\ faults' \in {faults, faults + 1}
    BY <1>8 DEF StageAsk, UnstageAsk, EditDraft, DispatchRound, Dispatched, JoinKick, ComposeOrder,
       KickFails, execVars, durable, outside, budgets
  <2> QED BY <1>1, <1>2, <2>1, StaysCoordinated
<1>9. ASSUME NEW c \in calls, QueueOnOwner(c)
      PROVE  Coordinated(NoDispatch) /\ Verifies /\ HandsBack
  BY <1>1, <1>2, <1>9, QueueCoordinated
<1>10. ASSUME NEW c \in calls, Kick(c)
       PROVE  Known(c.dispatch, seq') /\ Coordinated(c.dispatch) /\ Verifies /\ HandsBack
  <2>1. Known(c.dispatch, seq) /\ c.dispatch \in Dispatch /\ seq' = seq
    BY <1>1, <1>10 DEF HeldInv, Known, Kick, askLog
  <2> QED BY <1>1, <1>2, <1>10, <2>1, KickCoordinated
<1>11. CASE RetryRound \/ RestartDaemon \/ Unaffected
  <2>1. Retry \/ Recover \/ Crash \/ EnvironmentStep
    BY <1>11 DEF RetryRound, RestartDaemon, Unaffected
  <2>2. Draws(NoDispatch) /\ Calm
    BY <1>1, <2>1, CommandCalm
  <2> QED BY <1>1, <1>2, <2>1, <2>2, NextCoordinated DEF Next
<1> QED BY <1>3, <1>4, <1>5, <1>6, <1>7, <1>8, <1>9, <1>10, <1>11 DEF DispatchNext

-----------------------------------------------------------------------------
(* The ledger and who holds a dispatch.                                    *)

(* A record is of the dispatch the drive() in flight works for.            *)
LEMMA FallenRecord ==
  ASSUME AllDispatches, DInv, fiber.pc # "idle", NEW how \in {"pending", "not-needed", "real"}
  PROVE  Fallen(fiber.op, how) \in Record
<1>1. fiber.op.dispatch \in Dispatch /\ fiber.op.op \in Nat
  BY OwnDispatch DEF DInv, IInv, CoreInv, Fiber, Row
<1> QED BY <1>1 DEF Fallen, Record

LedgerGains(how) == fiber.pc # "idle" /\ ledger' = Recorded(Fallen(fiber.op, how))

LEMMA LedgerStep ==
  ASSUME AllDispatches, DInv, DispatchNext
  PROVE  \/ ledger' = ledger
         \/ LedgerGains("pending") /\ RecordPlaceholder
         \/ LedgerGains("not-needed") /\ Drain
         \/ LedgerGains("real") /\ FileRealGeneration
<1>1. CASE RecordPlaceholder
  BY <1>1 DEF RecordPlaceholder, RecordRound, LedgerGains
<1>2. CASE FileRealGeneration
  BY <1>2 DEF FileRealGeneration, FileGeneration, DraftStep, LedgerGains
<1>3. CASE Drain
  BY <1>3 DEF Drain, LedgerGains
<1>4. CASE DriveOnly /\ ~RecordPlaceholder /\ ~FileRealGeneration
  BY <1>4 DEF DriveOnly, CoordinatorStep, DraftUntouched, FinishFiledDraft, DraftUnfiled,
     QueueOnOwner, JoinKick, ComposeOrder, Kick, KickFails, RetryRound, RestartDaemon, Unaffected,
     dispatchVars
<1>5. CASE RecaptureReview \/ DispatchRound \/ \E a \in Ask : StageAsk(a) \/ UnstageAsk(a)
  BY <1>5 DEF RecaptureReview, DispatchRound, StageAsk, UnstageAsk, EditDraft
<1> QED BY <1>1, <1>2, <1>3, <1>4, <1>5 DEF DispatchNext, DriveOnly

(* What the new records are of, and what is left of the old ones.          *)
LEMMA LedgerWrite ==
  ASSUME AllDispatches, DInv, NEW how \in {"pending", "not-needed", "real"}, LedgerGains(how)
  PROVE  /\ LedgerInv' /\ \A i \in DOMAIN ledger' : Known(ledger'[i].dispatch, seq)
         /\ \A r : Backed(r, ledger) => Backed(r, ledger')
         /\ how # "pending" => \A d, st : Drained(d, st, ledger) => Drained(d, st, ledger')
<1> DEFINE rec == Fallen(fiber.op, how)
<1>1. rec \in Record /\ ledger' = Recorded(rec) /\ LedgerInv
  BY FallenRecord DEF LedgerGains, DInv
<1>2. rec.dispatch = fiber.op.dispatch /\ rec.regeneration = how
  BY DEF Fallen
<1>3. Known(rec.dispatch, seq)
  BY <1>2, OwnDispatch DEF DInv, IInv, LedgerGains
<1> HIDE DEF rec
<1>4. LedgerInv' /\ \A i \in DOMAIN ledger' : ledger'[i] = rec \/ (i \in DOMAIN ledger /\ ledger'[i] = ledger[i])
  BY <1>1, RecordedFacts
<1>5. \A i \in DOMAIN ledger' : Known(ledger'[i].dispatch, seq)
  BY <1>3, <1>4 DEF DInv, HeldInv
<1>6. \A r : Backed(r, ledger) => Backed(r, ledger')
  BY <1>1, BackedKept
<1>7. how # "pending" => \A d, st : Drained(d, st, ledger) => Drained(d, st, ledger')
  BY <1>1, <1>2, DrainedKept
<1> QED BY <1>4, <1>5, <1>6, <1>7

LEMMA LedgerKept ==
  ASSUME AllDispatches, DInv, DispatchNext
  PROVE  /\ LedgerInv' /\ \A i \in DOMAIN ledger' : Known(ledger'[i].dispatch, seq)
         /\ \A r : Backed(r, ledger) => Backed(r, ledger')
         /\ ~RecordPlaceholder => \A d, st : Drained(d, st, ledger) => Drained(d, st, ledger')
<1>1. CASE ledger' = ledger
  BY <1>1 DEF DInv, HeldInv, LedgerInv, OneRecordPerDispatch
<1>2. CASE LedgerGains("pending") /\ RecordPlaceholder
  BY <1>2, LedgerWrite
<1>3. CASE LedgerGains("not-needed") \/ LedgerGains("real")
  BY <1>3, LedgerWrite
<1> QED BY <1>1, <1>2, <1>3, LedgerStep

(* Calls name dispatches composed from the draft, or from a record.        *)
LEMMA CallsKnown ==
  ASSUME AllDispatches, DInv, DispatchNext
  PROVE  \A c \in calls' : \/ Known(c.dispatch, seq')
                           \/ \E b \in calls : b.dispatch = c.dispatch
<1>1. CASE DispatchRound
  <2> DEFINE d == IF Pending # {} THEN Resumable ELSE DraftOf(patchset, Current(staged'))
  <2>1. /\ seq \in Nat /\ seq' \in Nat /\ seq <= seq' /\ staged' \in [Ask -> Nat]
        /\ (\A a \in Ask : staged'[a] <= seq') /\ patchset \in Nat
    BY <1>1, DispatchAsks DEF AskInv, DInv
  <2>2. d = NoDispatch \/ Known(d, seq')
    <3>1. CASE Pending # {}
      <4>1. \E i \in DOMAIN ledger : d = ledger[i].dispatch
        BY <3>1, ResumesPending DEF DInv
      <4>2. Known(d, seq)
        BY <4>1 DEF DInv, HeldInv
      <4> QED BY <2>1, <4>2, KnownLater
    <3>2. CASE Pending = {}
      BY <2>1, <3>2, DraftKnown
    <3> QED BY <3>1, <3>2
  <2>3. Dispatched(d)
    BY <1>1 DEF DispatchRound
  <2> HIDE DEF d
  <2>4. \A c \in calls' : c \in calls \/ (c.dispatch = d /\ d # NoDispatch)
    BY <2>3 DEF Dispatched
  <2> QED BY <2>2, <2>4
<1>2. CASE \E c \in calls : ComposeOrder(c)
  <2>1. PICK c \in calls : ComposeOrder(c)
    BY <1>2
  <2>2. c \in Call
    BY DEF DInv, KickInv
  <2>3. [c EXCEPT !.stage = "composing"].dispatch = c.dispatch
    BY <2>2 DEF Call
  <2> QED BY <2>1, <2>3 DEF ComposeOrder
<1>3. CASE ~DispatchRound /\ ~(\E c \in calls : ComposeOrder(c))
  <2>1. calls' \subseteq calls
    BY <1>3 DEF DispatchNext, CoordinatorStep, DraftUntouched, RecordPlaceholder, RecaptureReview,
       FileRealGeneration, FinishFiledDraft, DraftUnfiled, Drain, StageAsk, UnstageAsk, EditDraft,
       QueueOnOwner, JoinKick, Kick, KickFails, RetryRound, RestartDaemon, Unaffected, dispatchVars
  <2> QED BY <2>1
<1> QED BY <1>1, <1>2, <1>3

(* What a write of the row leaves of its dispatch.                         *)
LEMMA WrittenDispatch ==
  ASSUME CoreInv, RowWritten
  PROVE  \/ row' = NoRow
         \/ row'.op = row.op /\ row'.dispatch = row.dispatch
         \/ row'.op = nextOp
<1>1. row \in Row
  BY DEF CoreInv
<1>2. CASE row' = Requeued(row)
  BY <1>1, <1>2 DEF Requeued, Row
<1>3. ASSUME NEW n, row' = Swapped(row, n)
      PROVE  row'.op = row.op /\ row'.dispatch = row.dispatch
  BY <1>1, <1>3 DEF Swapped, Row
<1>4. ASSUME NEW d, row' = NewOperation(nextOp, d) PROVE row'.op = nextOp
  BY <1>4 DEF NewOperation
<1> QED BY <1>2, <1>3, <1>4 DEF RowWritten

LEMMA HeldStep ==
  ASSUME AllDispatches, DInv, DispatchNext
  PROVE  HeldInv'
<1>1. PICK d : (d = NoDispatch \/ Known(d, seq')) /\ Coordinated(d)
  BY StepCoordinated
<1>2. /\ CoreInv /\ HeldInv /\ CoreInv' /\ RowWritten /\ SnapshotTaken /\ Draws(d)
      /\ nextOp' \in {nextOp, nextOp + 1} /\ nextOp \in Nat \ {0}
  BY <1>1 DEF DInv, Coordinated, IInv, CoreInv
<1>3. seq \in Nat /\ seq' \in Nat /\ seq <= seq'
  BY AskStep DEF DInv, AskInv
<1>4. \A x \in (Holding \cup {d}) \ {NoDispatch} : Known(x, seq')
  BY <1>1, <1>2, <1>3, KnownLater DEF HeldInv
<1>5. NoRow.op = 0 /\ NoRow.dispatch = NoDispatch
  BY DEF NoRow
<1>6. row \in Row /\ row' \in Row /\ row.op < nextOp /\ row'.op < nextOp'
      /\ (row.op = 0 => row.dispatch = NoDispatch) /\ (row'.op = 0 => row' = NoRow)
  BY <1>2, <1>5 DEF CoreInv, Present
<1>7. \A x \in Holding' \ {NoDispatch} : Known(x, seq')
  <2>1. {row'.dispatch, fiber'.draft, fiber'.fresh, ready'.fresh} \subseteq Holding \cup {d}
    BY <1>2 DEF Draws
  <2>2. fiber'.op.dispatch \in Holding \cup {d}
    BY <1>2, <1>5, <2>1 DEF SnapshotTaken, Holding
  <2>3. Holding' \subseteq Holding \cup {d}
    BY <2>1, <2>2 DEF Holding
  <2> QED BY <1>4, <2>3
<1>8. \A c \in calls' : Known(c.dispatch, seq')
  BY <1>2, <1>3, CallsKnown, KnownLater DEF HeldInv
<1>9. \A i \in DOMAIN ledger' : Known(ledger'[i].dispatch, seq')
  BY <1>3, LedgerKept, KnownLater
<1>10. Present(row') => row'.dispatch # NoDispatch
  <2>1. CASE row'.op = row.op /\ row'.dispatch = row.dispatch
    BY <1>2, <2>1 DEF HeldInv, Present
  <2>2. CASE row'.op = nextOp
    BY <1>2, <1>6, <2>2, NoDispatchAssumption DEF Draws
  <2> QED BY <1>2, <1>5, <2>1, <2>2, WrittenDispatch DEF Present
<1>11. fiber.op.op < nextOp /\ fiber.op.op \in Nat /\ row.op \in Nat /\ row'.op \in Nat
  BY <1>2 DEF HeldInv, CoreInv, Fiber, Row
<1>12. fiber'.op.op < nextOp'
  BY <1>2, <1>5, <1>6, <1>11 DEF SnapshotTaken
<1>13. fiber'.op.op = 0 => fiber'.op.dispatch = NoDispatch
  BY <1>2, <1>5, <1>6, <1>11 DEF SnapshotTaken, HeldInv
<1>14. fiber'.op.op = row'.op => fiber'.op.dispatch = row'.dispatch
  <2>1. CASE row'.op = 0
    BY <1>5, <1>6, <1>13, <2>1
  <2>2. CASE row'.op # 0
    <3>1. (row'.op = row.op /\ row'.dispatch = row.dispatch) \/ row'.op = nextOp
      BY <1>2, <1>5, <2>2, WrittenDispatch
    <3>2. fiber'.op \in {fiber.op, row, row'} \/ fiber'.op.op = 0
      BY <1>2, <1>5 DEF SnapshotTaken
    <3>3. fiber.op.op = row.op => fiber.op.dispatch = row.dispatch
      BY <1>2 DEF HeldInv
    <3> QED BY <1>6, <1>11, <2>2, <3>1, <3>2, <3>3
  <2> QED BY <2>1, <2>2
<1> QED BY <1>7, <1>8, <1>9, <1>10, <1>12, <1>13, <1>14 DEF HeldInv, Present

-----------------------------------------------------------------------------
(* The kicked dispatches.                                                  *)

LEMMA KickStep ==
  ASSUME AllDispatches, DInv, DispatchNext
  PROVE  KickInv'
<1>1. KickInv /\ HeldInv
  BY DEF DInv
<1>2. \A c \in calls : c \in Call /\ c.dispatch.asks \in SUBSET Occurrence
  BY <1>1 DEF KickInv, Call, AllDispatches
<1>3. CASE CoordinatorStep
  <2>1. UNCHANGED <<calls, accepted>>
    BY <1>3 DEF CoordinatorStep, DraftUntouched
  <2>2. /\ waiting' \subseteq waiting
        /\ memo' = memo \/ (memo' = memo \ waiting /\ waiting' = {})
    BY <1>3 DEF CoordinatorStep, KicksSettle
  <2> QED BY <1>1, <2>1, <2>2 DEF KickInv
<1>4. CASE RestartDaemon
  BY <1>1, <1>4 DEF RestartDaemon, KickInv
<1>5. CASE \/ RecordPlaceholder \/ RecaptureReview \/ FileRealGeneration \/ FinishFiledDraft
           \/ DraftUnfiled \/ Drain \/ RetryRound \/ Unaffected
           \/ \E a \in Ask : StageAsk(a) \/ UnstageAsk(a)
  <2>1. UNCHANGED <<calls, memo, waiting, accepted>>
    BY <1>5 DEF RecordPlaceholder, RecaptureReview, FileRealGeneration, FinishFiledDraft,
       DraftUnfiled, Drain, RetryRound, Unaffected, StageAsk, UnstageAsk, EditDraft, dispatchVars
  <2> QED BY <1>1, <2>1 DEF KickInv
<1>6. CASE DispatchRound
  <2> DEFINE d == IF Pending # {} THEN Resumable ELSE DraftOf(patchset, Current(staged'))
  <2>1. Dispatched(d) /\ UNCHANGED <<memo, waiting, accepted>>
    BY <1>6 DEF DispatchRound
  <2> HIDE DEF d
  <2>2. \A c \in calls' : c \in calls \/ c = [dispatch |-> d, stage |-> "entering"]
    BY <2>1 DEF Dispatched
  <2>3. \A c \in calls' : c.dispatch \in Dispatch
    BY <1>1, CallsKnown DEF Known, HeldInv
  <2>4. \A c \in calls' : c \in Call /\ (c.stage = "composing" => c \in calls)
    BY <1>1, <2>2, <2>3 DEF KickInv, Call
  <2> QED BY <1>1, <2>1, <2>4 DEF KickInv
<1>7. ASSUME NEW c \in calls, QueueOnOwner(c) \/ JoinKick(c) PROVE KickInv'
  <2>1. /\ calls' = calls \ {c} /\ UNCHANGED <<memo, waiting>>
        /\ accepted' \in {accepted, accepted \cup c.dispatch.asks}
    BY <1>7 DEF QueueOnOwner, JoinKick, Answer
  <2> QED BY <1>1, <1>2, <2>1 DEF KickInv
<1>8. ASSUME NEW c \in calls, ComposeOrder(c) PROVE KickInv'
  <2> DEFINE composing == [c EXCEPT !.stage = "composing"]
  <2>1. /\ calls' = (calls \ {c}) \cup {composing} /\ UNCHANGED <<waiting, accepted>>
        /\ memo' = memo \cup {c.dispatch} /\ c.dispatch \notin memo
    BY <1>8 DEF ComposeOrder
  <2>2. composing \in Call /\ composing.dispatch = c.dispatch /\ c.dispatch \in Dispatch
    BY <1>2 DEF Call
  <2> HIDE DEF composing
  <2> QED BY <1>1, <2>1, <2>2 DEF KickInv
<1>9. ASSUME NEW c \in calls, Kick(c) \/ KickFails(c) PROVE KickInv'
  <2>1. c.stage = "composing" /\ calls' = calls \ {c}
    BY <1>9 DEF Kick, KickFails
  <2>2. \A b \in calls' : b.stage = "composing" => b.dispatch # c.dispatch
    BY <1>2, <2>1 DEF Call
  <2>3. CASE Kick(c)
    <3>1. waiting' = waiting \cup {c.dispatch} /\ memo' = memo /\ accepted' = accepted \cup c.dispatch.asks
      BY <2>3 DEF Kick, Answer
    <3> QED BY <1>1, <1>2, <2>1, <2>2, <3>1 DEF KickInv
  <2>4. CASE KickFails(c)
    <3>1. memo' = memo \ {c.dispatch} /\ UNCHANGED <<waiting, accepted>>
      BY <2>4 DEF KickFails
    <3> QED BY <1>1, <1>2, <2>1, <2>2, <3>1 DEF KickInv
  <2> QED BY <1>9, <2>3, <2>4
<1> QED BY <1>3, <1>4, <1>5, <1>6, <1>7, <1>8, <1>9 DEF DispatchNext

-----------------------------------------------------------------------------
(* What the row and the snapshot rest on.                                  *)

LEMMA BackedState ==
  ASSUME NEW s \in State, NEW n \in State, SoundState(s),
         Advances(s, n) \/ Rejects(s, n)
  PROVE  /\ Past(n, {"report-verifying"}) \/ n.result = "changed" =>
              Past(s, {"report-verifying"}) \/ s.result = "changed" \/ n.phase = "report-verifying"
         /\ n.phase = "completed" => n.result # "none"
<1>1. CASE \E point \in FailurePoint : s.phase = FailsIn(point) /\ n = Fail(s, point)
  <2>1. PICK point \in FailurePoint : s.phase = FailsIn(point) /\ n = Fail(s, point)
    BY <1>1
  <2>2. n.phase = "failed" /\ n.at = point /\ n.result = s.result
    BY <2>1 DEF Fail, State
  <2> QED BY <2>1, <2>2 DEF Past, FailsIn
<1>2. CASE Advances(s, n)
  <2>1. \/ n.result = s.result /\ n.phase \notin {"completed", "failed"}
        \/ s.phase = "round-recorded" /\ n.phase = "completed" /\ n.result = "unchanged"
        \/ s.phase = "report-verifying" /\ n.phase = "completed" /\ n.result = "changed"
    BY <1>2 DEF Advances, State
  <2> QED BY <2>1 DEF Past
<1> QED BY <1>1, <1>2 DEF Rejects

LEMMA BackedRevised ==
  ASSUME NEW r \in Row, NEW n \in State, SoundState(r.state), Revises(r, n)
  PROVE  /\ Past(n, {"report-verifying"}) => Past(r.state, {"report-verifying"})
         /\ n.result = r.state.result
         /\ n.phase = "completed" => r.state.phase = "completed"
<1> DEFINE s == r.state
<1>1. s \in State
  BY DEF Row
<1>2. CASE s.phase = "report-drafting" /\ n = [s EXCEPT !.epoch = r.rev + 1]
  BY <1>1, <1>2 DEF State, Past
<1>3. CASE s.phase = "failed" /\ n = RetryState(s)
  <2>1. n.phase = RetryPhase(s.at) /\ n.result = s.result /\ s.at \in FailurePoint
    BY <1>1, <1>3 DEF RetryState, State, SoundState
  <2> HIDE DEF s
  <2> QED BY <1>3, <2>1 DEF RetryPhase, Past, FailurePoint, s
<1>4. CASE s.phase = "completed" /\ n = [s EXCEPT !.returned = TRUE]
  BY <1>1, <1>4 DEF State, Past
<1> QED BY <1>2, <1>3, <1>4 DEF Revises

LEMMA BackedWritten ==
  ASSUME CoreInv, RowWritten, Verifies, Backed(row, ledger)
  PROVE  Backed(row', ledger) /\ Backed(NoRow, ledger)
<1>1. row \in Row /\ row.state \in State /\ SoundState(row.state)
  BY DEF CoreInv, Row, Sound
<1>2. /\ Backed(NoRow, ledger)
      /\ \A d : Backed(NewOperation(nextOp, d), ledger)
  BY DEF Backed, NoRow, NewOperation, Claimed, Past
<1>3. CASE row' = Requeued(row)
  <2>1. row'.op = row.op /\ row'.state = row.state /\ row'.dispatch = row.dispatch
    BY <1>1, <1>3 DEF Requeued, Row
  <2> QED BY <1>2, <2>1 DEF Backed, Past
<1>4. ASSUME NEW n \in State, row' = Swapped(row, n),
             Advances(row.state, n) \/ Rejects(row.state, n) \/ Revises(row, n)
      PROVE  Backed(row', ledger)
  <2>1. row'.op = row.op /\ row'.state = n /\ row'.dispatch = row.dispatch
    BY <1>1, <1>4, SwappedRow
  <2>2. /\ Past(n, {"report-verifying"}) \/ n.result = "changed" =>
             \/ Past(row.state, {"report-verifying"}) \/ row.state.result = "changed"
             \/ n.phase = "report-verifying"
        /\ n.phase = "completed" => n.result # "none" \/ (Revises(row, n) /\ row.state.phase = "completed")
    <3>1. CASE Advances(row.state, n) \/ Rejects(row.state, n)
      BY <1>1, <3>1, BackedState
    <3>2. CASE Revises(row, n)
      BY <1>1, <3>2, BackedRevised
    <3> QED BY <1>4, <3>1, <3>2
  <2>3. n.phase = "completed" => n.result # "none"
    BY <1>1, <2>2, BackedRevised DEF Backed
  <2> QED BY <2>1, <2>2, <2>3 DEF Backed, Verifies
<1> QED BY <1>2, <1>3, <1>4 DEF RowWritten

LEMMA ReportStep ==
  ASSUME AllDispatches, DInv, DispatchNext
  PROVE  ReportInv'
<1>1. RowWritten /\ SnapshotTaken /\ Verifies /\ CoreInv
  BY StepCoordinated DEF Coordinated, DInv, IInv
<1>2. Backed(row', ledger) /\ Backed(NoRow, ledger) /\ Backed(row, ledger) /\ Backed(fiber.op, ledger)
  BY <1>1, BackedWritten DEF DInv, ReportInv
<1>3. Backed(row', ledger') /\ Backed(fiber'.op, ledger)
  BY <1>1, <1>2, LedgerKept DEF SnapshotTaken
<1>4. Backed(fiber'.op, ledger')
  BY <1>3, LedgerKept
<1> QED BY <1>3, <1>4 DEF ReportInv

-----------------------------------------------------------------------------
(* What a round that is handed back leaves.                                *)

(* A dispatch stays off the draft, whatever is staged after it.            *)
LEMMA DrainedStays ==
  ASSUME AllDispatches, AskInv, NEW d, Known(d, seq), NEW st, NEW l, Drained(d, staged, l),
         \/ \A a \in Ask : st[a] \in {0, staged[a]}
         \/ \E n \in Nat : seq < n /\ \A a \in Ask : st[a] \in {0, staged[a], n}
  PROVE  Drained(d, st, l)
<1>1. ASSUME NEW o \in d.asks PROVE st[o.ask] # o.rev
  <2>1. o.ask \in Ask /\ o.rev \in Nat \ {0} /\ o.rev <= seq /\ seq \in Nat /\ staged[o.ask] # o.rev
    BY OccurrenceFields DEF Known, AllDispatches, Drained, AskInv
  <2> QED BY <2>1
<1> QED BY <1>1 DEF Drained

LEMMA DraftStays ==
  ASSUME AllDispatches, DInv, DispatchNext, NEW d, Known(d, seq), NEW l
  PROVE  Drained(d, staged, l) => Drained(d, staged', l)
<1>1. AskInv /\ HeldInv /\ IInv
  BY DEF DInv
<1>2. CASE DriveOnly \/ RecaptureReview
  <2>1. staged' = staged
    BY <1>2, DriveOnlyFrame DEF RecaptureReview, askLog
  <2> QED BY <2>1
<1>3. CASE Drain
  BY <1>1, <1>3, DrainAsks, DrainedStays
<1>4. CASE DispatchRound
  BY <1>1, <1>4, DispatchAsks, DrainedStays
<1>5. ASSUME NEW a \in Ask, StageAsk(a) \/ UnstageAsk(a)
      PROVE  Drained(d, staged, l) => Drained(d, staged', l)
  <2>1. seq < seq' /\ seq' \in Nat /\ \A b \in Ask : staged'[b] \in {0, staged[b], seq'}
    BY <1>1, <1>5, EditFacts DEF AskInv
  <2> QED BY <1>1, <2>1, DrainedStays
<1> QED BY <1>2, <1>3, <1>4, <1>5 DEF DispatchNext, DriveOnly

(* The drain's decision is taken at its drain, and nothing but its next    *)
(* step moves drive() on from it.                                          *)
DecisionKept ==
  fiber'.pc = "apply" /\ fiber'.decision = "return" =>
    fiber.pc = "apply" /\ fiber.decision = "return" /\ fiber'.op = fiber.op

LEMMA PersistDecides ==
  ASSUME CoreInv, NEW n, NEW pc, pc # "apply", Persist(n, pc)
  PROVE  fiber'.pc # "apply"
<1>1. fiber \in Fiber /\ \A p : EffectOf(p) # "apply"
  BY DEF CoreInv, EffectOf
<1>2. fiber'.pc \in {pc, EffectOf(row.state.phase)}
  BY <1>1 DEF Persist, Fiber
<1> QED BY <1>1, <1>2

LEMMA SettleDecides ==
  ASSUME CoreInv, NEW n, Settle(n)
  PROVE  fiber'.pc # "apply"
<1>1. EffectOf(n.phase) # "apply"
  BY DEF EffectOf
<1> QED BY <1>1, PersistDecides DEF Settle

LEMMA StartDecides ==
  ASSUME NEW r, Start(r)
  PROVE  fiber' = fiber \/ fiber'.pc # "apply"
<1>1. EffectOf(r.state.phase) # "apply"
  BY DEF EffectOf
<1>2. Driving(r).pc = EffectOf(r.state.phase)
  BY DEF Driving, Idle
<1> QED BY <1>1, <1>2 DEF Start

LEMMA SubmitDecides ==
  ASSUME CoreInv, NEW d, SubmitOperation(d)
  PROVE  fiber' = fiber \/ fiber'.pc # "apply"
<1>1. CASE fiber' = [Driving(row) EXCEPT !.freshOp = row.op, !.fresh = d]
  <2>1. EffectOf(row.state.phase) # "apply"
    BY DEF EffectOf
  <2>2. fiber'.pc = EffectOf(row.state.phase)
    BY <1>1 DEF Driving, Idle
  <2> QED BY <2>1, <2>2
<1> QED BY <1>1, StartDecides DEF SubmitOperation

LEMMA RetryDecides ==
  ASSUME CoreInv, NEW awaited, RetryFailed(awaited)
  PROVE  DecisionKept
<1>1. fiber \in Fiber
  BY DEF CoreInv
<1>2. CASE Running
  <2>1. /\ fiber'.pc = fiber.pc /\ fiber'.decision = fiber.decision /\ fiber'.op = fiber.op
    BY <1>1, <1>2 DEF RetryFailed, Fiber
  <2> QED BY <2>1 DEF DecisionKept
<1>3. CASE ~Running
  <2>1. EffectOf(row'.state.phase) # "apply"
    BY DEF EffectOf
  <2>2. fiber' = fiber \/ fiber'.pc = EffectOf(row'.state.phase)
    BY <1>3 DEF RetryFailed, Driving, Idle
  <2> QED BY <1>3, <2>1, <2>2 DEF DecisionKept
<1> QED BY <1>2, <1>3

LEMMA NextDecides ==
  ASSUME CoreInv, \/ ThreadStep \/ EffectStep \/ RecordRound \/ Recapture \/ FileGeneration
                  \/ FinishDraft \/ Retry \/ Recover \/ Crash \/ EnvironmentStep
  PROVE  DecisionKept
<1>1. fiber \in Fiber
  BY DEF CoreInv
<1>2. CASE \E n : Settle(n) \/ Persist(n, "launch")
  BY <1>2, SettleDecides, PersistDecides DEF DecisionKept
<1>3. CASE EndDrive \/ RejectDrive \/ Crash
  BY <1>3 DEF EndDrive, RejectDrive, Crash, Idle, DecisionKept
<1>4. CASE fiber' = fiber \/ \E r : Start(r)
  BY <1>4, StartDecides DEF DecisionKept
<1>5. CASE RecordRound \/ Recapture \/ FileGeneration \/ ComposeReplacement \/ RecordHandoff
  BY <1>1, <1>5 DEF RecordRound, Recapture, FileGeneration, DraftStep, ComposeReplacement,
     RecordHandoff, Fiber, DecisionKept
<1>6. CASE Redrive \/ ReplaceQueued
  <2>1. \A p : EffectOf(p) # "apply"
    BY DEF EffectOf
  <2>2. fiber'.pc \in {EffectOf(row.state.phase), EffectOf("claimed")}
    BY <1>1, <1>6 DEF Redrive, ReplaceQueued, Fiber
  <2> QED BY <2>1, <2>2 DEF DecisionKept
<1>7. CASE SubmitFresh
  BY <1>7, SubmitDecides DEF SubmitFresh, DecisionKept
<1>8. CASE Retry \/ \E awaited : RetryFailed(awaited)
  BY <1>8, RetryDecides DEF Retry
<1>9. CASE LaunchWorker
  BY <1>1, <1>2, <1>9 DEF LaunchWorker, Reject, Fiber, DecisionKept
<1>10. CASE ThreadStep
  BY <1>2, <1>3, <1>4, <1>6, <1>7, <1>10 DEF ThreadStep, PersistAttempt, PersistCommitAttempt,
     PersistRecordingAttempt, PersistRecorded, FinishUnchanged, PrepareReport, ClearQueued,
     RecordReturn, Retain, ClearDrained, ContinueRetry, RenewHandoff
<1>11. CASE EffectStep
  BY <1>2, <1>3, <1>5, <1>9, <1>11 DEF EffectStep, PlanWorkspace, WorkerReturns, ObserveWorker,
     SettleWorker, WorkerUnreadable, SettleCommits, RecordingFails, DraftFails, Superseded,
     VerifyReport, DrainFails, Reject
<1>12. CASE FinishDraft \/ Recover \/ EnvironmentStep
  BY <1>2, <1>4, <1>8, <1>12 DEF FinishDraft, Recover, EnvironmentStep, HumanCommit, TurnEnds
<1> QED BY <1>3, <1>5, <1>8, <1>10, <1>11, <1>12

LEMMA StepDecides ==
  ASSUME AllDispatches, DInv, DispatchNext, ~Drain
  PROVE  DecisionKept
<1>1. CoreInv
  BY DEF DInv, IInv
<1>2. CASE CoordinatorStep \/ RecordPlaceholder \/ RecaptureReview \/ FileRealGeneration
           \/ FinishFiledDraft \/ RetryRound \/ RestartDaemon \/ Unaffected
  BY <1>1, <1>2, NextDecides DEF CoordinatorStep, RecordPlaceholder, RecaptureReview,
     FileRealGeneration, FinishFiledDraft, RetryRound, RestartDaemon, Unaffected
<1>3. CASE DraftUnfiled
  BY <1>1, <1>3, SettleDecides DEF DraftUnfiled, DecisionKept
<1>4. CASE \/ \E a \in Ask : StageAsk(a) \/ UnstageAsk(a)
           \/ DispatchRound
           \/ \E c \in calls : JoinKick(c) \/ ComposeOrder(c) \/ KickFails(c)
  <2>1. fiber' = fiber
    BY <1>4 DEF StageAsk, UnstageAsk, EditDraft, DispatchRound, JoinKick, ComposeOrder, KickFails,
       execVars
  <2> QED BY <2>1 DEF DecisionKept
<1>5. ASSUME NEW c \in calls, QueueOnOwner(c) \/ Kick(c) PROVE DecisionKept
  BY <1>1, <1>5, StartDecides, SubmitDecides DEF QueueOnOwner, Kick, DecisionKept
<1> QED BY <1>2, <1>3, <1>4, <1>5 DEF DispatchNext

(* The drain that hands back has consumed, and its record is finished.     *)
LEMMA DrainRecords ==
  ASSUME AllDispatches, DInv, Drain, fiber.op.state.phase = "completed", ~fiber.op.state.returned
  PROVE  \E i \in DOMAIN ledger' :
           ledger'[i].dispatch = fiber.op.dispatch /\ ledger'[i].regeneration # "pending"
<1> DEFINE d == fiber.op.dispatch
<1>1. fiber.pc = "drain" /\ fiber.op.state \in State
  BY SnapshotFacts DEF DInv, IInv, Drain
<1>2. CASE fiber.op.state.result = "unchanged"
  <2> DEFINE rec == Fallen(fiber.op, "not-needed")
  <2>1. ledger' = Recorded(rec) /\ rec \in Record /\ LedgerInv
    BY <1>1, <1>2, FallenRecord DEF Drain, DInv
  <2>2. rec.dispatch = d /\ rec.regeneration = "not-needed"
    BY DEF Fallen
  <2> HIDE DEF rec
  <2> QED BY <2>1, <2>2, RecordedFacts
<1>3. CASE fiber.op.state.result # "unchanged"
  <2>1. ledger' = ledger /\ fiber.op.state.result = "changed"
    BY <1>1, <1>3 DEF Drain, DInv, ReportInv, Backed, State
  <2> QED BY <2>1 DEF DInv, ReportInv, Backed, RealOf
<1> QED BY <1>2, <1>3

LEMMA DrainDrains ==
  ASSUME AllDispatches, DInv, Drain, fiber'.pc = "apply", fiber'.decision = "return"
  PROVE  Drained(fiber'.op.dispatch, staged', ledger')
<1> DEFINE wanted == DraftOf(patchset, Current(staged'))
<1>1. /\ fiber \in Fiber /\ fiber.op.state.phase \in {"completed", "failed"} /\ DrainTerminal(wanted)
  BY SnapshotFacts DEF DInv, IInv, Drain, PcFits
<1> HIDE DEF wanted
<1>2. fiber'.op = fiber.op
  BY <1>1 DEF DrainTerminal, Fiber
<1>3. fiber.op.state.phase = "completed" /\ ~fiber.op.state.returned
  <2>1. CASE Returned(fiber.op)
    BY <1>1, <2>1 DEF DrainTerminal, Fiber
  <2>2. CASE ~Returned(fiber.op) /\ fiber.op.rerun
    BY <1>1, <2>2 DEF DrainTerminal, Fiber
  <2>3. CASE ~Returned(fiber.op) /\ ~fiber.op.rerun
    <3>1. fiber.op.state.phase # "failed"
      BY <1>1, <2>3 DEF DrainTerminal, Fiber
    <3> QED BY <1>1, <2>3, <3>1 DEF Returned
  <2> QED BY <2>1, <2>2, <2>3
<1>4. \A o \in fiber.op.dispatch.asks : staged'[o.ask] # o.rev
  BY <1>3, DrainAsks DEF DInv
<1> QED BY <1>2, <1>3, <1>4, DrainRecords DEF Drained

LEMMA ReturnStep ==
  ASSUME AllDispatches, DInv, DispatchNext
  PROVE  ReturnInv'
<1>1. /\ CoreInv /\ HeldInv /\ ReturnInv /\ HandsBack
  BY StepCoordinated DEF DInv, IInv
<1>2. ASSUME NEW d, Known(d, seq), ~RecordPlaceholder, Drained(d, staged, ledger)
      PROVE  Drained(d, staged', ledger')
  BY <1>2, DraftStays, LedgerKept
<1>3. CASE RecordPlaceholder
  <2>1. /\ fiber.pc = "record" /\ fiber'.pc = "recorded" /\ row' = row
    BY <1>1, <1>3 DEF RecordPlaceholder, RecordRound, durable, CoreInv, Fiber
  <2>2. ~Returned(row)
    <3>1. fiber.op.state.phase = "round-recording"
      BY <1>1, <2>1 DEF CoreInv, PcFits
    <3> QED BY <1>1, <2>1, <3>1 DEF CoreInv, TerminalHeld, Running, IsTerminal, Returned
  <2> QED BY <2>1, <2>2 DEF ReturnInv, Returned
<1>4. CASE ~RecordPlaceholder
  <2>1. Returned(row') => Drained(row'.dispatch, staged', ledger')
    <3>1. CASE RecordReturn
      <4>1. fiber.pc = "apply" /\ fiber.decision = "return" /\ row'.dispatch = row.dispatch
        BY <1>1, <3>1 DEF RecordReturn, Swapped, CoreInv, Row
      <4>2. Known(fiber.op.dispatch, seq) /\ fiber.op.dispatch = row.dispatch
        BY <1>1, <4>1, OwnDispatch
      <4> QED BY <1>1, <1>2, <1>4, <4>1, <4>2 DEF ReturnInv
    <3>2. CASE Returned(row) /\ row'.dispatch = row.dispatch
      <4>1. row.dispatch # NoDispatch
        BY <1>1, <3>2 DEF HeldInv, CoreInv, Returned, Present, NoRow, Claimed
      <4>2. Known(row.dispatch, seq)
        BY <1>1, <4>1 DEF HeldInv, Holding
      <4> QED BY <1>1, <1>2, <1>4, <3>2, <4>2 DEF ReturnInv
    <3> QED BY <1>1, <3>1, <3>2 DEF HandsBack
  <2>2. fiber'.pc = "apply" /\ fiber'.decision = "return"
          => Drained(fiber'.op.dispatch, staged', ledger')
    <3>1. CASE Drain
      BY <3>1, DrainDrains
    <3>2. CASE ~Drain /\ fiber'.pc = "apply" /\ fiber'.decision = "return"
      <4>1. fiber.pc = "apply" /\ fiber.decision = "return" /\ fiber'.op = fiber.op
        BY <3>2, StepDecides DEF DecisionKept
      <4>2. Known(fiber.op.dispatch, seq)
        BY <1>1, <4>1, OwnDispatch
      <4> QED BY <1>1, <1>2, <1>4, <4>1, <4>2 DEF ReturnInv
    <3> QED BY <3>1, <3>2
  <2> QED BY <2>1, <2>2 DEF ReturnInv, Returned
<1> QED BY <1>3, <1>4

-----------------------------------------------------------------------------
(* The invariant, and what follows from it.                                *)

LEMMA DispatchInitInv ==
  ASSUME AllDispatches, DispatchInit
  PROVE  DInv
<1>1. Init /\ IInv
  BY InitInv DEF DispatchInit
<1>2. /\ staged = [a \in Ask |-> 0] /\ seq = 0 /\ patchset = 0 /\ edits = 0 /\ ledger = <<>>
      /\ calls = {} /\ memo = {} /\ waiting = {} /\ accepted = {}
      /\ row = NoRow /\ fiber = Idle /\ ready = NoContinuation /\ nextOp = 1
  BY <1>1 DEF DispatchInit, Init
<1>3. FreshFits
  BY <1>2, IdleFresh DEF FreshFits
<1>4. AskInv
  <2>1. {a \in Ask : staged[a] # 0} = {}
    BY <1>2
  <2> QED BY <1>2, <2>1, FS_EmptySet DEF AskInv
<1>5. HeldInv
  BY <1>2 DEF HeldInv, Holding, NoRow, Idle, NoContinuation, Present
<1>6. KickInv
  BY <1>2 DEF KickInv
<1>7. LedgerInv
  BY <1>2 DEF LedgerInv, OneRecordPerDispatch
<1>8. ReportInv /\ ReturnInv
  BY <1>2 DEF ReportInv, ReturnInv, Backed, NoRow, Idle, Claimed, Returned, Past
<1> QED BY <1>1, <1>3, <1>4, <1>5, <1>6, <1>7, <1>8 DEF DInv

LEMMA DispatchStep ==
  ASSUME AllDispatches, DInv, DispatchNext
  PROVE  DInv'
<1>1. IInv' /\ FreshFits'
  BY StepCoordinated DEF Coordinated
<1> QED BY <1>1, AskStep, HeldStep, KickStep, LedgerKept, ReportStep, ReturnStep DEF DInv

LEMMA DispatchStutter ==
  ASSUME DInv, UNCHANGED allVars
  PROVE  DInv'
<1>1. /\ UNCHANGED <<durable, outside, fiber, ready, recovered, retries, crashes, requests, faults>>
      /\ UNCHANGED <<staged, seq, edits, patchset, ledger, calls, memo, waiting, accepted>>
  BY DEF allVars, execVars, budgets, dispatchVars, askLog
<1>2. row' = row
  BY <1>1 DEF durable
<1>3. IInv'
  BY <1>1, StaysCoordinated DEF DInv, Coordinated
<1>4. FreshFits' /\ AskInv' /\ KickInv' /\ LedgerInv'
  BY <1>1 DEF DInv, FreshFits, AskInv, KickInv, LedgerInv, OneRecordPerDispatch
<1>5. HeldInv'
  BY <1>1, <1>2 DEF DInv, HeldInv, Holding, Present, durable
<1>6. ReportInv' /\ ReturnInv'
  BY <1>1, <1>2 DEF DInv, ReportInv, ReturnInv
<1> QED BY <1>3, <1>4, <1>5, <1>6 DEF DInv

(* Whoever holds a dispatch holds one of the draft's, and what a returned  *)
(* or reported round rests on is in the ledger, in every reachable state.  *)
THEOREM DispatchInductive == AllDispatches => (DispatchSpec => []DInv)
<1> SUFFICES ASSUME AllDispatches PROVE DispatchSpec => []DInv
  OBVIOUS
<1>1. DispatchInit => DInv
  BY DispatchInitInv
<1>2. DInv /\ [DispatchNext]_allVars => DInv'
  BY DispatchStep, DispatchStutter
<1> QED BY <1>1, <1>2, PTL DEF DispatchSpec

(* Every ask, record, call and kick the command writes has the shape its   *)
(* schema gives it, for a draft of any asks.                               *)
THEOREM DispatchTyped == AllDispatches => (DispatchSpec => []DispatchTypeOK)
<1> SUFFICES ASSUME AllDispatches PROVE DispatchSpec => []DispatchTypeOK
  OBVIOUS
<1>1. ASSUME DInv PROVE DispatchTypeOK
  <2>1. TypeOK
    BY <1>1 DEF DInv, IInv, CoreInv, OutsideInv, TypeOK
  <2>2. \A i \in DOMAIN ledger : ledger[i] \in Record
    BY <1>1, LedgerIndex DEF DInv
  <2> QED BY <1>1, <2>1, <2>2 DEF DInv, AskInv, KickInv, DispatchTypeOK
<1> QED BY <1>1, DispatchInductive, PTL

(* The ledger has one record per dispatch, through every retry,            *)
(* re-dispatch and crash.                                                  *)
THEOREM OneRecordEach == AllDispatches => (DispatchSpec => []OneRecordPerDispatch)
<1> SUFFICES ASSUME AllDispatches PROVE DispatchSpec => []OneRecordPerDispatch
  OBVIOUS
<1>1. DInv => OneRecordPerDispatch
  BY DEF DInv, LedgerInv
<1> QED BY <1>1, DispatchInductive, PTL

(* A round is verified, or completes as changed, only on the generation    *)
(* its own operation filed for its own dispatch.                           *)
THEOREM ReportsFiled == AllDispatches => (DispatchSpec => []ReportIsFiled)
<1> SUFFICES ASSUME AllDispatches PROVE DispatchSpec => []ReportIsFiled
  OBVIOUS
<1>1. DInv => ReportIsFiled
  BY FiledIsReal DEF DInv, ReportInv, Backed, Past, ReportIsFiled
<1> QED BY <1>1, DispatchInductive, PTL

(* A handed-back round has left nothing to send again.                     *)
THEOREM ReturnedDrained == AllDispatches => (DispatchSpec => []ReturnedIsDrained)
<1> SUFFICES ASSUME AllDispatches PROVE DispatchSpec => []ReturnedIsDrained
  OBVIOUS
<1>1. ASSUME DInv PROVE ReturnedIsDrained
  <2> SUFFICES ASSUME Returned(row)
               PROVE  /\ row.dispatch.asks \cap Current(staged) = {}
                      /\ row.dispatch.asks \subseteq FinishedOccurrences
    BY DEF ReturnedIsDrained
  <2>1. row.dispatch # NoDispatch
    BY <1>1 DEF DInv, IInv, CoreInv, HeldInv, Returned, Present, NoRow, Claimed
  <2>2. row.dispatch \in Dispatch /\ Drained(row.dispatch, staged, ledger)
    BY <1>1, <2>1 DEF DInv, HeldInv, Holding, Known, ReturnInv
  <2> QED BY <1>1, <2>2, DrainedMeans DEF DInv
<1> QED BY <1>1, DispatchInductive, PTL

(* The daemon takes an ask off the draft only at the occurrence a finished *)
(* record names: one edited or re-staged since stays.                      *)
THEOREM ConsumedExactly == AllDispatches => (DispatchSpec => ExactConsumption)
<1> SUFFICES ASSUME AllDispatches PROVE DispatchSpec => ExactConsumption
  OBVIOUS
<1> DEFINE A == \A a \in Ask :
                  staged[a] # 0 /\ staged'[a] = 0 /\ edits' = edits =>
                    \E i \in DOMAIN ledger' :
                      /\ ledger'[i].regeneration # "pending"
                      /\ [ask |-> a, rev |-> staged[a]] \in ledger'[i].dispatch.asks
<1>1. ASSUME DInv, DispatchNext PROVE A
  <2> SUFFICES ASSUME NEW a \in Ask, staged[a] # 0, staged'[a] = 0, edits' = edits
               PROVE  \E i \in DOMAIN ledger' :
                        /\ ledger'[i].regeneration # "pending"
                        /\ [ask |-> a, rev |-> staged[a]] \in ledger'[i].dispatch.asks
    OBVIOUS
  <2>1. AskInv /\ HeldInv /\ IInv /\ edits \in Nat
    BY <1>1 DEF DInv, AskInv
  <2>2. staged' # staged /\ ~DriveOnly /\ ~RecaptureReview
    BY DriveOnlyFrame DEF RecaptureReview, askLog
  <2>3. ~(\E b \in Ask : StageAsk(b) \/ UnstageAsk(b))
    BY <2>1 DEF StageAsk, UnstageAsk, EditDraft
  <2>4. CASE Drain
    BY <1>1, <2>1, <2>4, DrainAsks, DrainRecords
  <2>5. CASE DispatchRound
    <3>1. [ask |-> a, rev |-> staged[a]] \in FinishedOccurrences /\ ledger' = ledger
      BY <2>1, <2>5, DispatchAsks DEF DispatchRound
    <3> QED BY <3>1 DEF FinishedOccurrences
  <2> QED BY <1>1, <2>2, <2>3, <2>4, <2>5 DEF DispatchNext, DriveOnly
<1>2. UNCHANGED allVars => A
  BY DEF allVars, dispatchVars, askLog
<1>3. DInv /\ [DispatchNext]_allVars => [A]_allVars
  BY <1>1, <1>2
<1> QED BY <1>3, DispatchInductive, PTL DEF DispatchSpec, ExactConsumption
=============================================================================
