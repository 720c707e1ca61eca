------------------------------- MODULE AskLog -------------------------------
(***************************************************************************)
(* The reviewer's durable asks: one append-only event log per session      *)
(* (packages/adapters/src/ask-log-store.ts), the pure fold and the undo    *)
(* receipts of packages/core/src/exits/ask-projection.ts, and the          *)
(* occurrence revisions packages/server/src/dispatch/round.ts derives from *)
(* the log. RoundDispatch keeps only those revisions; this module is where *)
(* they come from.                                                         *)
(*                                                                         *)
(* An event is its kind, the key of the entry it is about, and the value   *)
(* it carries. Ask bodies, reasons and messages are model values.          *)
(***************************************************************************)
EXTENDS Naturals, Sequences, SequencesExt

CONSTANTS Ask, Body, Thread, Finding, Place, Verdict,
          Kinds,        \* the kinds of event this reviewer sends
          NoValue,      \* the value of an event that carries none
          MaxEvents,    \* length of the log
          MaxDispatches \* rounds dispatched from the draft

ASSUME AskLogAssumption ==
  /\ Place \subseteq [path : STRING, line : Nat]
  /\ NoValue \notin Body \cup Verdict
  /\ MaxEvents \in Nat /\ MaxDispatches \in Nat

VARIABLES log,        \* durable: the events, in order
          cache,      \* memo of the file as last parsed or written, by its stamp
          sent,       \* the asks of the dispatched round, as they were then
          dispatches  \* budget spent
askVars == <<log, cache, sent, dispatches>>

-----------------------------------------------------------------------------
(* The projection and its fold.                                            *)

EmptyProjection == [staged |-> <<>>, retired |-> <<>>, quotes |-> <<>>,
                    dismissed |-> {}, lines |-> <<>>, verdict |-> NoValue]

Put(f, key, value) ==
  [k \in DOMAIN f \cup {key} |-> IF k = key THEN value ELSE f[k]]
Without(f, key) == Restrict(f, DOMAIN f \ {key})

(* A path leaves the record with its last comment.                         *)
WithoutLine(lines, place) ==
  IF place.path \notin DOMAIN lines THEN lines
  ELSE LET rest == Without(lines[place.path], place.line) IN
       IF DOMAIN rest = {} THEN Without(lines, place.path)
       ELSE Put(lines, place.path, rest)

LinesOf(p, path) == IF path \in DOMAIN p.lines THEN p.lines[path] ELSE <<>>

(* applyAskEvent: an event about something absent changes nothing.         *)
Applied(p, e) ==
  CASE e.kind = "stage" -> [p EXCEPT !.staged = Put(@, e.key, e.value)]
    [] e.kind = "unstage" -> [p EXCEPT !.staged = Without(@, e.key)]
    [] e.kind = "edit" /\ e.key \in DOMAIN p.staged ->
         [p EXCEPT !.staged = Put(@, e.key, e.value)]
    [] e.kind = "retire" /\ e.key \in DOMAIN p.staged ->
         [p EXCEPT !.staged = Without(@, e.key),
                   !.retired = Put(@, e.key, [ask |-> p.staged[e.key], reason |-> e.value])]
    [] e.kind = "restore" /\ e.key \in DOMAIN p.retired ->
         [p EXCEPT !.staged = Put(@, e.key, p.retired[e.key].ask),
                   !.retired = Without(@, e.key)]
    [] e.kind = "finding-dismiss" -> [p EXCEPT !.dismissed = @ \cup {e.key}]
    [] e.kind = "finding-restore" -> [p EXCEPT !.dismissed = @ \ {e.key}]
    [] e.kind = "quote-open" -> [p EXCEPT !.quotes = Put(@, e.key, e.value)]
    [] e.kind = "quote-reply" /\ e.key \in DOMAIN p.quotes ->
         [p EXCEPT !.quotes = Put(@, e.key, e.value)]
    [] e.kind = "quote-close" -> [p EXCEPT !.quotes = Without(@, e.key)]
    [] e.kind = "verdict-override-set" -> [p EXCEPT !.verdict = e.value]
    [] e.kind = "verdict-override-clear" -> [p EXCEPT !.verdict = NoValue]
    [] e.kind = "line-comment-set" ->
         [p EXCEPT !.lines = Put(@, e.key.path,
                                 Put(LinesOf(p, e.key.path), e.key.line, e.value))]
    [] e.kind = "line-comment-clear" -> [p EXCEPT !.lines = WithoutLine(@, e.key)]
    [] OTHER -> p

(* The fold of events onto p.                                              *)
AppliedAll(p, events) ==
  LET after[n \in 0..Len(events)] == IF n = 0 THEN p ELSE Applied(after[n - 1], events[n])
  IN  after[Len(events)]
FoldAsks(events) == AppliedAll(EmptyProjection, events)

-----------------------------------------------------------------------------
(* The receipt of an event: the event that undoes it.                      *)

Plain(kind, key) == [kind |-> kind, key |-> key, value |-> NoValue]
Valued(kind, key, value) == [kind |-> kind, key |-> key, value |-> value]

PutBack(f, key, put, remove) ==
  IF key \in DOMAIN f THEN Valued(put, key, f[key]) ELSE Plain(remove, key)

(* Fault: staging over an ask is undone by removing it.                    *)
ReceiptRemovesOverwritten(e, p) == Plain("unstage", e.key)

Receipt(e, p) ==
  CASE e.kind \in {"stage", "unstage"} -> PutBack(p.staged, e.key, "stage", "unstage")
    [] e.kind = "edit" ->
         [e EXCEPT !.value = IF e.key \in DOMAIN p.staged THEN p.staged[e.key] ELSE @]
    [] e.kind = "retire" -> Plain("restore", e.key)
    [] e.kind = "restore" ->
         IF e.key \in DOMAIN p.retired
         THEN Valued("retire", e.key, p.retired[e.key].reason) ELSE e
    [] e.kind \in {"finding-dismiss", "finding-restore"} ->
         Plain(IF e.key \in p.dismissed THEN "finding-dismiss" ELSE "finding-restore", e.key)
    [] e.kind \in {"quote-open", "quote-close"} ->
         PutBack(p.quotes, e.key, "quote-open", "quote-close")
    [] e.kind = "quote-reply" ->
         [e EXCEPT !.value = IF e.key \in DOMAIN p.quotes THEN p.quotes[e.key] ELSE @]
    [] e.kind \in {"verdict-override-set", "verdict-override-clear"} ->
         IF p.verdict = NoValue THEN Plain("verdict-override-clear", NoValue)
         ELSE Valued("verdict-override-set", NoValue, p.verdict)
    [] e.kind \in {"line-comment-set", "line-comment-clear"} ->
         IF e.key.line \in DOMAIN LinesOf(p, e.key.path)
         THEN Valued("line-comment-set", e.key, p.lines[e.key.path][e.key.line])
         ELSE Plain("line-comment-clear", e.key)

-----------------------------------------------------------------------------
(* Occurrence revisions: activeAskState.                                   *)

(* Fault: an edit keeps the occurrence it edits.                           *)
RevisedUnlessEdited(state, e) ==
  [p |-> Applied(state.p, e), seq |-> state.seq + 1,
   revs |-> CASE e.kind \in {"stage", "restore"} -> Put(state.revs, e.key, state.seq)
              [] e.kind = "unstage" -> Without(state.revs, e.key)
              [] OTHER -> state.revs]

Revised(state, e) ==
  [p |-> Applied(state.p, e), seq |-> state.seq + 1,
   revs |-> CASE \/ e.kind = "stage"
                 \/ e.kind = "edit" /\ e.key \in DOMAIN state.p.staged
                 \/ e.kind = "restore" /\ e.key \in DOMAIN state.p.retired
                   -> Put(state.revs, e.key, state.seq)
              [] \/ e.kind = "unstage"
                 \/ e.kind = "retire" /\ e.key \in DOMAIN state.p.staged
                   -> Without(state.revs, e.key)
              [] OTHER -> state.revs]

Unrevised == [p |-> EmptyProjection, seq |-> 0, revs |-> <<>>]
RevisedAll(events) ==
  LET after[n \in 0..Len(events)] == IF n = 0 THEN Unrevised ELSE Revised(after[n - 1], events[n])
  IN  after[Len(events)]

ActiveAskState(events) ==
  LET folded == RevisedAll(events)
  IN  [projection |-> folded.p,
       revisions |-> Restrict(folded.revs, DOMAIN folded.revs \cap DOMAIN folded.p.staged)]

-----------------------------------------------------------------------------
(* The store.                                                              *)

NoProjection == [EmptyProjection EXCEPT !.verdict = "unread"]
Uncached == [stamp |-> 0, events |-> <<>>, projection |-> NoProjection]

(* Fault: the memo survives a write that failed after its rename.          *)
CachedUnstamped == IF cache.stamp # 0 THEN cache
                   ELSE [stamp |-> Len(log), events |-> log, projection |-> NoProjection]

(* Every write lands a new file; its length stands for its stamp, 0 being  *)
(* the file that is absent.                                                *)
Cached == IF cache.stamp = Len(log) /\ Len(log) # 0 THEN cache
          ELSE [stamp |-> Len(log), events |-> log, projection |-> NoProjection]

Memoized(c) ==
  [c EXCEPT !.projection = IF @ = NoProjection THEN FoldAsks(c.events) ELSE @]

(* appendMany over what the memo holds; the memo is written through. The   *)
(* flush after the rename may still throw, and then the memo is left as it *)
(* was.                                                                    *)
AppendMany(c, events) ==
  /\ Len(log) + Len(events) <= MaxEvents
  /\ log' = c.events \o events
  /\ cache' \in {[stamp |-> Len(log'), events |-> log',
                  projection |-> IF c.projection = NoProjection THEN NoProjection
                                 ELSE AppliedAll(c.projection, events)],
                 cache}

Init == log = <<>> /\ cache = Uncached /\ sent = {} /\ dispatches = 0

(* The events a reviewer's commands write. A reply carries the thread's    *)
(* whole message list, read from the projection.                           *)
Replies(p) == {Valued("quote-reply", t, Append(IF t \in DOMAIN p.quotes THEN p.quotes[t] ELSE <<>>, b)) :
                 t \in Thread, b \in Body}
Commands(p) ==
  {e \in {Valued(k, a, b) : k \in {"stage", "edit", "retire"}, a \in Ask, b \in Body}
     \cup {Plain(k, a) : k \in {"unstage", "restore"}, a \in Ask}
     \cup {Plain(k, f) : k \in {"finding-dismiss", "finding-restore"}, f \in Finding}
     \cup {Valued("quote-open", t, <<b>>) : t \in Thread, b \in Body}
     \cup {Plain("quote-close", t) : t \in Thread}
     \cup Replies(p)
     \cup {Valued("verdict-override-set", NoValue, v) : v \in Verdict}
     \cup {Plain("verdict-override-clear", NoValue)}
     \cup {Valued("line-comment-set", at, b) : at \in Place, b \in Body}
     \cup {Plain("line-comment-clear", at) : at \in Place}
   : e.kind \in Kinds}

(* applyWrite: the prior projection is read, then one event appended.      *)
Write ==
  /\ \E e \in Commands(FoldAsks(log)) : AppendMany(Memoized(Cached), <<e>>)
  /\ UNCHANGED <<sent, dispatches>>

(* ask.read, or a read of the events alone.                                *)
ReadProjection ==
  /\ log # <<>>
  /\ cache' \in {Cached, Memoized(Cached)}
  /\ UNCHANGED <<log, sent, dispatches>>

(* A round fixes the occurrences it sends.                                 *)
DispatchDraft ==
  /\ dispatches < MaxDispatches
  /\ dispatches' = dispatches + 1
  /\ LET state == ActiveAskState(log) IN
     sent' = {[ask |-> a, rev |-> state.revisions[a], body |-> state.projection.staged[a]] :
                a \in DOMAIN state.projection.staged}
  /\ UNCHANGED <<log, cache>>

(* consumeCurrentAskOccurrences: one batch of unstage events.              *)
CurrentOccurrences ==
  LET revs == ActiveAskState(log).revisions
  IN  {o \in sent : o.ask \in DOMAIN revs /\ revs[o.ask] = o.rev}

ConsumeOccurrences ==
  /\ CurrentOccurrences # {}
  /\ \E events \in SetToSeqs({Plain("unstage", o.ask) : o \in CurrentOccurrences}) :
       AppendMany(Cached, events)
  /\ UNCHANGED <<sent, dispatches>>

Restart == cache # Uncached /\ cache' = Uncached /\ UNCHANGED <<log, sent, dispatches>>

Next == Write \/ ReadProjection \/ DispatchDraft \/ ConsumeOccurrences \/ Restart

Spec == Init /\ [][Next]_askVars

-----------------------------------------------------------------------------
(* Properties.                                                             *)

(* Whatever writes failed, landed late or were lost with the process, the  *)
(* store answers reads with the fold of the whole durable log, and never   *)
(* appends over events it has not read.                                    *)
ReadsAreFold ==
  Cached.events = log /\ Memoized(Cached).projection = FoldAsks(log)

(* An ask the daemon takes off the draft is, word for word, the ask that   *)
(* was sent: whatever the reviewer edited, retired, restored or staged     *)
(* again in the meantime stays.                                            *)
ConsumedAsSent ==
  [][ConsumeOccurrences =>
       \A a \in DOMAIN FoldAsks(log).staged \ DOMAIN FoldAsks(log').staged :
         \E o \in sent : o.ask = a /\ o.body = FoldAsks(log).staged[a]]_askVars

(* Undo: the receipt of an event takes the projection back exactly.        *)
Undoes(e, p) == Applied(Applied(p, e), Receipt(e, p)) = p

(* Undo is exact except for two events whose receipt cannot name what the  *)
(* retired ledger held: a retire of an ask the ledger already has, and a   *)
(* restore over an ask staged again since.                                 *)
ReceiptUndoesOutsideLedger ==
  LET p == FoldAsks(log) IN
  \A e \in Commands(p) :
    \/ e.kind = "retire" /\ e.key \in DOMAIN p.retired
    \/ e.kind = "restore" /\ e.key \in DOMAIN p.staged \cap DOMAIN p.retired
    \/ Undoes(e, p)
=============================================================================
