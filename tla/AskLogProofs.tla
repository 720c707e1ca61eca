---------------------------- MODULE AskLogProofs ----------------------------
(***************************************************************************)
(* Proofs about AskLog: the memo of the log never answers anything but the *)
(* fold of the durable events, undo is exact outside the retired ledger,   *)
(* and a consumption takes off the draft only what was sent.               *)
(*                                                                         *)
(* The fold has as many steps as the log has events, so its facts are      *)
(* proved by induction on that number. The induction rules of the library  *)
(* take an operator, which no prover here instantiates; the ones below     *)
(* take sets: Nat is well founded (NatLessThanWellFounded, WFMin), so a    *)
(* set that holds 0 and successors misses no number (Induction).           *)
(*                                                                         *)
(* LogInv is the inductive invariant. Its first part ties the memo to the  *)
(* file by the stamp. Its second says of each occurrence sent that, while  *)
(* its ask still has the revision it was sent with, the body sent is the   *)
(* body staged; this holds through any events at all, because a revision   *)
(* changes hands only with a new number (RevisionKept).                    *)
(***************************************************************************)
EXTENDS AskLog, SequenceTheorems, FiniteSetTheorems, WellFoundedInduction, TLAPS

(* A set of numbers has a least one.                                       *)
LEMMA LeastOf ==
  ASSUME NEW T \in SUBSET Nat, T # {}
  PROVE  \E m \in T : \A k \in T : ~(k < m)
<1> DEFINE R == OpToRel(<, Nat)
<1>1. IsWellFoundedOn(R, Nat)
  BY NatLessThanWellFounded
<1>2. \E x \in T : \A y \in T : ~(<<y, x>> \in R)
  <2> HIDE DEF R
  <2> QED BY <1>1, WFMin
<1>3. \A x, y \in Nat : y < x => <<y, x>> \in R
  BY DEF OpToRel
<1> QED BY <1>2, <1>3

(* A set that holds 0 and the successor of each of its numbers is Nat.     *)
LEMMA Induction ==
  ASSUME NEW T \in SUBSET Nat, 0 \in T, \A n \in T : n + 1 \in T
  PROVE  T = Nat
<1> SUFFICES ASSUME Nat \ T # {} PROVE FALSE
  OBVIOUS
<1>1. PICK m \in Nat \ T : \A k \in Nat \ T : ~(k < m)
  BY LeastOf
<1>2. m # 0 /\ m - 1 \in Nat /\ m - 1 < m /\ m - 1 + 1 = m
  BY <1>1
<1> QED BY <1>1, <1>2

(* h is what base becomes under the steps F, one after another.            *)
IsRun(h, S, n, F, base) ==
  h \in [0..n -> S] /\ h[0] = base /\ \A i \in 1..n : h[i] = F[i][h[i - 1]]

(* Steps that take S to S can be run n times.                              *)
LEMMA Iterates ==
  ASSUME NEW S, NEW n \in Nat, NEW F \in [1..n -> [S -> S]], NEW base \in S
  PROVE  \E h : IsRun(h, S, n, F, base)
<1> DEFINE Runs(h, m) == h[0] = base /\ \A i \in 1..m : h[i] = F[i][h[i - 1]]
           T == {m \in Nat : m <= n => \E h \in [0..m -> S] : Runs(h, m)}
<1>1. 0 \in T
  <2>1. [i \in 0..0 |-> base] \in [0..0 -> S] /\ Runs([i \in 0..0 |-> base], 0)
    OBVIOUS
  <2> QED BY <2>1
<1>2. ASSUME NEW m \in T PROVE m + 1 \in T
  <2>0. m \in Nat
    OBVIOUS
  <2> HIDE DEF Runs
  <2> SUFFICES ASSUME m + 1 <= n PROVE \E h \in [0..m + 1 -> S] : Runs(h, m + 1)
    BY <2>0
  <2>1. m \in Nat /\ m + 1 \in 1..n
    BY <2>0
  <2> USE DEF Runs
  <2>2. PICK h \in [0..m -> S] : Runs(h, m)
    BY <2>1
  <2> DEFINE g == [i \in 0..m + 1 |-> IF i = m + 1 THEN F[m + 1][h[m]] ELSE h[i]]
  <2>3. F[m + 1][h[m]] \in S
    <3>1. F[m + 1] \in [S -> S] /\ h[m] \in S
      BY <2>1
    <3> QED BY <3>1
  <2>4. g \in [0..m + 1 -> S]
    BY <2>1, <2>3
  <2>5. \A i \in 0..m : g[i] = h[i] /\ i # m + 1
    BY <2>1
  <2>6. g[m + 1] = F[m + 1][h[m]]
    BY <2>1
  <2> HIDE DEF g
  <2>7. ASSUME NEW i \in 1..m + 1 PROVE g[i] = F[i][g[i - 1]]
    <3>1. CASE i = m + 1
      BY <2>1, <2>5, <2>6, <3>1
    <3>2. CASE i \in 1..m
      <4>1. i \in 0..m /\ i - 1 \in 0..m
        BY <2>1, <3>2
      <4> QED BY <2>2, <2>5, <3>2, <4>1
    <3> QED BY <2>1, <3>1, <3>2
  <2>8. g[0] = base
    BY <2>1, <2>2, <2>5
  <2> QED BY <2>4, <2>7, <2>8
<1> HIDE DEF Runs
<1>3. T = Nat
  BY <1>1, <1>2, Induction
<1>4. \E h \in [0..n -> S] : Runs(h, n)
  BY <1>3
<1> QED BY <1>4 DEF Runs, IsRun

(* g and h start alike and step alike, n times.                            *)
Alike(g, h, n) ==
  g[0] = h[0] /\ \A i \in 1..n : g[i - 1] = h[i - 1] => g[i] = h[i]

(* Two runs that start alike and step alike end alike.                     *)
LEMMA SameRun ==
  ASSUME NEW n \in Nat, NEW g, NEW h, Alike(g, h, n)
  PROVE  g[n] = h[n]
<1> DEFINE T == {m \in Nat : m <= n => g[m] = h[m]}
<1>1. 0 \in T
  BY DEF Alike
<1>2. ASSUME NEW m \in T PROVE m + 1 \in T
  <2> SUFFICES ASSUME m + 1 <= n PROVE g[m + 1] = h[m + 1]
    OBVIOUS
  <2>1. m + 1 \in 1..n /\ m + 1 - 1 = m /\ g[m] = h[m]
    OBVIOUS
  <2> QED BY <2>1 DEF Alike
<1>3. T = Nat
  BY <1>1, <1>2, Induction
<1> QED BY <1>3

-----------------------------------------------------------------------------
(* Partial functions: the records of a projection.                         *)

Partial(S, T) == UNION {[D -> T] : D \in SUBSET S}

LEMMA PartialFunction ==
  ASSUME NEW S, NEW T, NEW f \in Partial(S, T)
  PROVE  /\ DOMAIN f \subseteq S /\ f \in [DOMAIN f -> T]
         /\ \A x \in DOMAIN f : x \in S /\ f[x] \in T
BY DEF Partial

LEMMA IsPartial ==
  ASSUME NEW S, NEW T, NEW D \in SUBSET S, NEW f \in [D -> T]
  PROVE  f \in Partial(S, T)
BY DEF Partial

LEMMA EmptyPartial ==
  ASSUME NEW S, NEW T
  PROVE  <<>> \in Partial(S, T) /\ DOMAIN <<>> = {}
<1>1. <<>> \in [{} -> T] /\ DOMAIN <<>> = {}
  OBVIOUS
<1> QED BY <1>1, IsPartial

LEMMA PutPartial ==
  ASSUME NEW S, NEW T, NEW f \in Partial(S, T), NEW k \in S, NEW v \in T
  PROVE  Put(f, k, v) \in Partial(S, T)
<1>1. DOMAIN f \subseteq S /\ \A x \in DOMAIN f : f[x] \in T
  BY PartialFunction
<1>2. Put(f, k, v) \in [DOMAIN f \cup {k} -> T]
  BY <1>1 DEF Put
<1> QED BY <1>1, <1>2, IsPartial

LEMMA WithoutPartial ==
  ASSUME NEW S, NEW T, NEW f \in Partial(S, T), NEW k
  PROVE  Without(f, k) \in Partial(S, T)
<1>1. DOMAIN f \subseteq S /\ \A x \in DOMAIN f : f[x] \in T
  BY PartialFunction
<1>2. Without(f, k) \in [DOMAIN f \ {k} -> T]
  BY <1>1 DEF Without, Restrict
<1> QED BY <1>1, <1>2, IsPartial

(* Putting back what was there, and removing what was not.                 *)
LEMMA PutUndone ==
  ASSUME NEW S, NEW T, NEW f \in Partial(S, T), NEW k, NEW v
  PROVE  /\ k \in DOMAIN f => Put(Put(f, k, v), k, f[k]) = f
         /\ k \notin DOMAIN f => Without(Put(f, k, v), k) = f
<1>1. f = [x \in DOMAIN f |-> f[x]]
  BY PartialFunction
<1>2. ASSUME k \in DOMAIN f PROVE Put(Put(f, k, v), k, f[k]) = f
  BY <1>1, <1>2 DEF Put
<1>3. ASSUME k \notin DOMAIN f PROVE Without(Put(f, k, v), k) = f
  BY <1>1, <1>3 DEF Put, Without, Restrict
<1> QED BY <1>2, <1>3

LEMMA WithoutUndone ==
  ASSUME NEW S, NEW T, NEW f \in Partial(S, T), NEW k
  PROVE  /\ k \in DOMAIN f => Put(Without(f, k), k, f[k]) = f
         /\ k \notin DOMAIN f => Without(f, k) = f
<1>1. f = [x \in DOMAIN f |-> f[x]]
  BY PartialFunction
<1>2. ASSUME k \in DOMAIN f PROVE Put(Without(f, k), k, f[k]) = f
  BY <1>1, <1>2 DEF Put, Without, Restrict
<1>3. ASSUME k \notin DOMAIN f PROVE Without(f, k) = f
  BY <1>1, <1>3 DEF Without, Restrict
<1> QED BY <1>2, <1>3

-----------------------------------------------------------------------------
(* Events and projections.                                                 *)

Bare == {NoValue}
Event ==
  [kind : {"stage", "edit", "retire"}, key : Ask, value : Body]
  \cup [kind : {"unstage", "restore"}, key : Ask, value : Bare]
  \cup [kind : {"finding-dismiss", "finding-restore"}, key : Finding, value : Bare]
  \cup [kind : {"quote-open", "quote-reply"}, key : Thread, value : Seq(Body)]
  \cup [kind : {"quote-close"}, key : Thread, value : Bare]
  \cup [kind : {"verdict-override-set"}, key : Bare, value : Verdict]
  \cup [kind : {"verdict-override-clear"}, key : Bare, value : Bare]
  \cup [kind : {"line-comment-set"}, key : Place, value : Body]
  \cup [kind : {"line-comment-clear"}, key : Place, value : Bare]

(* What the retired ledger keeps of an ask.                                *)
Shelved == [ask : Body, reason : Body]

(* A path is kept only while it has a comment.                             *)
Comments == {f \in Partial(Nat, Body) : DOMAIN f # {}}

Projection ==
  [staged : Partial(Ask, Body), retired : Partial(Ask, Shelved),
   quotes : Partial(Thread, Seq(Body)), dismissed : SUBSET Finding,
   lines : Partial(STRING, Comments), verdict : Verdict \cup {NoValue}]

LEMMA EmptyTyped == EmptyProjection \in Projection
BY EmptyPartial DEF EmptyProjection, Projection

LEMMA PlaceFields ==
  ASSUME NEW e \in Place
  PROVE  e = [path |-> e.path, line |-> e.line] /\ e.path \in STRING /\ e.line \in Nat
BY AskLogAssumption

LEMMA LinesTyped ==
  ASSUME NEW p \in Projection, NEW path
  PROVE  LinesOf(p, path) \in Partial(Nat, Body)
<1>1. p.lines \in Partial(STRING, Comments)
  BY DEF Projection
<1>2. path \in DOMAIN p.lines => p.lines[path] \in Comments
  BY <1>1, PartialFunction
<1> QED BY <1>2, EmptyPartial DEF LinesOf, Comments

LEMMA PutLineTyped ==
  ASSUME NEW p \in Projection, NEW at \in Place, NEW b \in Body
  PROVE  Put(p.lines, at.path, Put(LinesOf(p, at.path), at.line, b)) \in Partial(STRING, Comments)
<1>1. at.path \in STRING /\ at.line \in Nat
  BY PlaceFields
<1>2. LinesOf(p, at.path) \in Partial(Nat, Body)
  BY LinesTyped
<1>3. Put(LinesOf(p, at.path), at.line, b) \in Partial(Nat, Body)
  BY <1>1, <1>2, PutPartial
<1>4. DOMAIN Put(LinesOf(p, at.path), at.line, b) # {}
  BY DEF Put
<1>5. Put(LinesOf(p, at.path), at.line, b) \in Comments
  BY <1>3, <1>4 DEF Comments
<1>6. p.lines \in Partial(STRING, Comments)
  BY DEF Projection
<1> QED BY <1>1, <1>5, <1>6, PutPartial

LEMMA WithoutLineTyped ==
  ASSUME NEW lines \in Partial(STRING, Comments), NEW at \in Place
  PROVE  WithoutLine(lines, at) \in Partial(STRING, Comments)
<1>1. at.path \in STRING
  BY PlaceFields
<1> DEFINE rest == Without(lines[at.path], at.line)
<1>2. CASE at.path \notin DOMAIN lines
  BY <1>2 DEF WithoutLine
<1>3. CASE at.path \in DOMAIN lines /\ DOMAIN rest = {}
  <2>1. WithoutLine(lines, at) = Without(lines, at.path)
    BY <1>3 DEF WithoutLine
  <2> QED BY <2>1, WithoutPartial
<1>4. CASE at.path \in DOMAIN lines /\ DOMAIN rest # {}
  <2>1. WithoutLine(lines, at) = Put(lines, at.path, rest)
    BY <1>4 DEF WithoutLine
  <2>2. lines[at.path] \in Partial(Nat, Body)
    BY <1>4, PartialFunction DEF Comments
  <2>3. rest \in Partial(Nat, Body)
    BY <2>2, WithoutPartial
  <2>4. rest \in Comments
    BY <1>4, <2>3 DEF Comments
  <2> HIDE DEF rest
  <2> QED BY <1>1, <2>1, <2>4, PutPartial
<1> QED BY <1>2, <1>3, <1>4

LEMMA AppliedTyped ==
  ASSUME NEW p \in Projection, NEW e \in Event
  PROVE  Applied(p, e) \in Projection
<1>0. /\ p.staged \in Partial(Ask, Body)
      /\ p.retired \in Partial(Ask, Shelved)
      /\ p.quotes \in Partial(Thread, Seq(Body))
      /\ p.lines \in Partial(STRING, Comments)
  BY DEF Projection
<1>1. CASE e \in [kind : {"stage", "edit", "retire"}, key : Ask, value : Body]
  <2>1. /\ Put(p.staged, e.key, e.value) \in Partial(Ask, Body)
        /\ Without(p.staged, e.key) \in Partial(Ask, Body)
    BY <1>0, <1>1, PutPartial, WithoutPartial
  <2>2. ASSUME e.key \in DOMAIN p.staged
        PROVE  Put(p.retired, e.key, [ask |-> p.staged[e.key], reason |-> e.value])
                 \in Partial(Ask, Shelved)
    <3>1. p.staged[e.key] \in Body
      BY <1>0, <2>2, PartialFunction
    <3>2. [ask |-> p.staged[e.key], reason |-> e.value] \in Shelved
      BY <1>1, <3>1 DEF Shelved
    <3> QED BY <1>0, <1>1, <3>2, PutPartial
  <2> QED BY <1>1, <2>1, <2>2 DEF Applied, Projection
<1>2. CASE e \in [kind : {"unstage", "restore"}, key : Ask, value : Bare]
  <2>1. /\ Without(p.staged, e.key) \in Partial(Ask, Body)
        /\ Without(p.retired, e.key) \in Partial(Ask, Shelved)
    BY <1>0, WithoutPartial
  <2>2. ASSUME e.key \in DOMAIN p.retired
        PROVE  Put(p.staged, e.key, p.retired[e.key].ask) \in Partial(Ask, Body)
    <3>1. p.retired[e.key] \in Shelved
      BY <1>0, <2>2, PartialFunction
    <3>2. p.retired[e.key].ask \in Body
      BY <3>1 DEF Shelved
    <3> QED BY <1>0, <1>2, <3>2, PutPartial
  <2> QED BY <1>2, <2>1, <2>2 DEF Applied, Projection
<1>3. CASE e \in [kind : {"finding-dismiss", "finding-restore"}, key : Finding, value : Bare]
  BY <1>3 DEF Applied, Projection
<1>4. CASE e \in [kind : {"quote-open", "quote-reply"}, key : Thread, value : Seq(Body)]
  <2>1. Put(p.quotes, e.key, e.value) \in Partial(Thread, Seq(Body))
    BY <1>0, <1>4, PutPartial
  <2> QED BY <1>4, <2>1 DEF Applied, Projection
<1>5. CASE e \in [kind : {"quote-close"}, key : Thread, value : Bare]
  <2>1. Without(p.quotes, e.key) \in Partial(Thread, Seq(Body))
    BY <1>0, WithoutPartial
  <2> QED BY <1>5, <2>1 DEF Applied, Projection
<1>6. CASE e \in [kind : {"verdict-override-set"}, key : Bare, value : Verdict]
  BY <1>6 DEF Applied, Projection
<1>7. CASE e \in [kind : {"verdict-override-clear"}, key : Bare, value : Bare]
  BY <1>7 DEF Applied, Projection
<1>8. CASE e \in [kind : {"line-comment-set"}, key : Place, value : Body]
  <2>1. Put(p.lines, e.key.path, Put(LinesOf(p, e.key.path), e.key.line, e.value))
          \in Partial(STRING, Comments)
    BY <1>8, PutLineTyped
  <2> QED BY <1>8, <2>1 DEF Applied, Projection
<1>9. CASE e \in [kind : {"line-comment-clear"}, key : Place, value : Bare]
  <2>1. WithoutLine(p.lines, e.key) \in Partial(STRING, Comments)
    BY <1>0, <1>9, WithoutLineTyped
  <2> QED BY <1>9, <2>1 DEF Applied, Projection
<1> QED BY <1>1, <1>2, <1>3, <1>4, <1>5, <1>6, <1>7, <1>8, <1>9 DEF Event

-----------------------------------------------------------------------------
(* Undo.                                                                   *)

LEMMA StagedUndone ==
  ASSUME NEW p \in Projection, NEW e \in Event, e.kind \in {"stage", "unstage", "edit"}
  PROVE  Undoes(e, p)
<1> DEFINE k == e.key
           f == p.staged
<1>1. f \in Partial(Ask, Body)
  BY DEF Projection
<1>2. CASE e.kind = "stage"
  <2>1. Applied(p, e) = [p EXCEPT !.staged = Put(f, k, e.value)]
    BY <1>2 DEF Applied
  <2>2. CASE k \in DOMAIN f
    <3>1. Receipt(e, p) = [kind |-> "stage", key |-> k, value |-> f[k]]
      BY <1>2, <2>2 DEF Receipt, PutBack, Valued
    <3>2. Applied(Applied(p, e), Receipt(e, p)) = [p EXCEPT !.staged = Put(Put(f, k, e.value), k, f[k])]
      BY <2>1, <3>1 DEF Applied, Projection
    <3> QED BY <1>1, <2>2, <3>2, PutUndone DEF Undoes, Projection
  <2>3. CASE k \notin DOMAIN f
    <3>1. Receipt(e, p) = [kind |-> "unstage", key |-> k, value |-> NoValue]
      BY <1>2, <2>3 DEF Receipt, PutBack, Plain
    <3>2. Applied(Applied(p, e), Receipt(e, p)) = [p EXCEPT !.staged = Without(Put(f, k, e.value), k)]
      BY <2>1, <3>1 DEF Applied, Projection
    <3> QED BY <1>1, <2>3, <3>2, PutUndone DEF Undoes, Projection
  <2> QED BY <2>2, <2>3
<1>3. CASE e.kind = "unstage"
  <2>1. Applied(p, e) = [p EXCEPT !.staged = Without(f, k)]
    BY <1>3 DEF Applied
  <2>2. CASE k \in DOMAIN f
    <3>1. Receipt(e, p) = [kind |-> "stage", key |-> k, value |-> f[k]]
      BY <1>3, <2>2 DEF Receipt, PutBack, Valued
    <3>2. Applied(Applied(p, e), Receipt(e, p)) = [p EXCEPT !.staged = Put(Without(f, k), k, f[k])]
      BY <2>1, <3>1 DEF Applied, Projection
    <3> QED BY <1>1, <2>2, <3>2, WithoutUndone DEF Undoes, Projection
  <2>3. CASE k \notin DOMAIN f
    <3>1. Receipt(e, p) = [kind |-> "unstage", key |-> k, value |-> NoValue]
      BY <1>3, <2>3 DEF Receipt, PutBack, Plain
    <3>2. Applied(Applied(p, e), Receipt(e, p)) = [p EXCEPT !.staged = Without(Without(f, k), k)]
      BY <2>1, <3>1 DEF Applied, Projection
    <3> QED BY <1>1, <2>3, <3>2, WithoutUndone DEF Undoes, Projection
  <2> QED BY <2>2, <2>3
<1>4. CASE e.kind = "edit"
  <2>0. e = [kind |-> "edit", key |-> k, value |-> e.value]
    BY <1>4 DEF Event
  <2>2. CASE k \in DOMAIN f
    <3>1. Applied(p, e) = [p EXCEPT !.staged = Put(f, k, e.value)]
      BY <1>4, <2>2 DEF Applied
    <3>2. Receipt(e, p) = [kind |-> "edit", key |-> k, value |-> f[k]]
      BY <1>4, <2>0, <2>2 DEF Receipt
    <3>3. k \in DOMAIN Put(f, k, e.value)
      BY DEF Put
    <3>4. Applied(Applied(p, e), Receipt(e, p)) = [p EXCEPT !.staged = Put(Put(f, k, e.value), k, f[k])]
      BY <3>1, <3>2, <3>3 DEF Applied, Projection
    <3> QED BY <1>1, <2>2, <3>4, PutUndone DEF Undoes, Projection
  <2>3. CASE k \notin DOMAIN f
    <3>1. Applied(p, e) = p
      BY <1>4, <2>3 DEF Applied
    <3>2. Receipt(e, p) = e
      BY <1>4, <2>0, <2>3 DEF Receipt
    <3> QED BY <3>1, <3>2 DEF Undoes
  <2> QED BY <2>2, <2>3
<1> QED BY <1>2, <1>3, <1>4

LEMMA LedgerUndone ==
  ASSUME NEW p \in Projection, NEW e \in Event,
         \/ e.kind = "retire" /\ e.key \notin DOMAIN p.retired
         \/ e.kind = "restore" /\ ~(e.key \in DOMAIN p.staged /\ e.key \in DOMAIN p.retired)
  PROVE  Undoes(e, p)
<1> DEFINE k == e.key
           f == p.staged
           g == p.retired
<1>1. f \in Partial(Ask, Body) /\ g \in Partial(Ask, Shelved)
  BY DEF Projection
<1>2. CASE e.kind = "retire" /\ k \notin DOMAIN g
  <2>1. Receipt(e, p) = [kind |-> "restore", key |-> k, value |-> NoValue]
    BY <1>2 DEF Receipt, Plain
  <2>2. CASE k \in DOMAIN f
    <3> DEFINE shelved == [ask |-> f[k], reason |-> e.value]
    <3>1. Applied(p, e) = [p EXCEPT !.staged = Without(f, k), !.retired = Put(g, k, shelved)]
      BY <1>2, <2>2 DEF Applied
    <3>2. k \in DOMAIN Put(g, k, shelved) /\ Put(g, k, shelved)[k].ask = f[k]
      BY DEF Put
    <3>3. Put(Without(f, k), k, f[k]) = f
      BY <1>1, <2>2, WithoutUndone
    <3>4. Without(Put(g, k, shelved), k) = g
      BY <1>1, <1>2, PutUndone
    <3> DEFINE q == Applied(p, e)
    <3> HIDE DEF shelved, q
    <3>5. q.staged = Without(f, k) /\ q.retired = Put(g, k, shelved)
      BY <3>1 DEF q, Projection
    <3>6. Applied(q, Receipt(e, p)) = [q EXCEPT !.staged = f, !.retired = g]
      <4> DEFINE r == Receipt(e, p)
      <4>1. r.kind = "restore" /\ r.key = k
        BY <2>1
      <4>2. r.key \in DOMAIN q.retired /\ q.retired[r.key].ask = f[k]
        BY <3>2, <3>5, <4>1
      <4> HIDE DEF r
      <4>3. Applied(q, r) = [q EXCEPT !.staged = Put(q.staged, r.key, q.retired[r.key].ask),
                                      !.retired = Without(q.retired, r.key)]
        BY <4>1, <4>2 DEF Applied
      <4>4. Put(q.staged, r.key, q.retired[r.key].ask) = f /\ Without(q.retired, r.key) = g
        BY <3>3, <3>4, <3>5, <4>1, <4>2
      <4> QED BY <4>3, <4>4 DEF r
    <3> QED BY <3>1, <3>6 DEF q, Undoes, Projection
  <2>3. CASE k \notin DOMAIN f
    <3>1. Applied(p, e) = p
      BY <1>2, <2>3 DEF Applied
    <3>2. Applied(p, Receipt(e, p)) = p
      BY <1>2, <2>1 DEF Applied
    <3> QED BY <3>1, <3>2 DEF Undoes
  <2> QED BY <2>2, <2>3
<1>3. CASE e.kind = "restore" /\ k \in DOMAIN g
  <2>1. k \notin DOMAIN f
    BY <1>3
  <2>2. g[k] = [ask |-> g[k].ask, reason |-> g[k].reason]
    <3>1. g[k] \in Shelved
      BY <1>1, <1>3, PartialFunction
    <3> QED BY <3>1 DEF Shelved
  <2>3. Applied(p, e) = [p EXCEPT !.staged = Put(f, k, g[k].ask), !.retired = Without(g, k)]
    BY <1>3 DEF Applied
  <2>4. Receipt(e, p) = [kind |-> "retire", key |-> k, value |-> g[k].reason]
    BY <1>3 DEF Receipt, Valued
  <2>5. k \in DOMAIN Put(f, k, g[k].ask) /\ Put(f, k, g[k].ask)[k] = g[k].ask
    BY DEF Put
  <2>6. Without(Put(f, k, g[k].ask), k) = f
    BY <1>1, <2>1, PutUndone
  <2>7. Put(Without(g, k), k, g[k]) = g
    BY <1>1, <1>3, WithoutUndone
  <2> DEFINE q == Applied(p, e)
  <2> HIDE DEF q
  <2>8. q.staged = Put(f, k, g[k].ask) /\ q.retired = Without(g, k)
    BY <2>3 DEF q, Projection
  <2>9. Applied(q, Receipt(e, p)) = [q EXCEPT !.staged = f, !.retired = g]
    <3> DEFINE r == Receipt(e, p)
    <3>1. r.kind = "retire" /\ r.key = k /\ r.value = g[k].reason
      BY <2>4
    <3>2. r.key \in DOMAIN q.staged /\ q.staged[r.key] = g[k].ask
      BY <2>5, <2>8, <3>1
    <3> HIDE DEF r
    <3>3. Applied(q, r) = [q EXCEPT !.staged = Without(q.staged, r.key),
                                    !.retired = Put(q.retired, r.key, [ask |-> q.staged[r.key], reason |-> r.value])]
      BY <3>1, <3>2 DEF Applied
    <3>4. Without(q.staged, r.key) = f
      BY <2>6, <2>8, <3>1
    <3>5. [ask |-> q.staged[r.key], reason |-> r.value] = g[k]
      BY <2>2, <3>1, <3>2
    <3>6. Put(q.retired, r.key, [ask |-> q.staged[r.key], reason |-> r.value]) = g
      BY <2>7, <2>8, <3>1, <3>5
    <3> QED BY <3>3, <3>4, <3>6 DEF r
  <2> QED BY <2>3, <2>9 DEF q, Undoes, Projection
<1>4. CASE e.kind = "restore" /\ k \notin DOMAIN g
  <2>1. Applied(p, e) = p /\ Receipt(e, p) = e
    BY <1>4 DEF Applied, Receipt
  <2> QED BY <2>1 DEF Undoes
<1> QED BY <1>2, <1>3, <1>4

LEMMA DismissedChanges ==
  ASSUME NEW p \in Projection, NEW e, e.kind \in {"finding-dismiss", "finding-restore"}
  PROVE  Applied(p, e) =
           [p EXCEPT !.dismissed = IF e.kind = "finding-dismiss" THEN p.dismissed \cup {e.key}
                                   ELSE p.dismissed \ {e.key}]
<1>1. CASE e.kind = "finding-dismiss"
  BY <1>1 DEF Applied
<1>2. CASE e.kind = "finding-restore"
  BY <1>2 DEF Applied
<1> QED BY <1>1, <1>2

LEMMA FindingUndone ==
  ASSUME NEW p \in Projection, NEW e \in Event, e.kind \in {"finding-dismiss", "finding-restore"}
  PROVE  Undoes(e, p)
<1> DEFINE k == e.key
           q == Applied(p, e)
           r == Receipt(e, p)
           E == IF e.kind = "finding-dismiss" THEN p.dismissed \cup {k} ELSE p.dismissed \ {k}
           D == IF r.kind = "finding-dismiss" THEN q.dismissed \cup {r.key} ELSE q.dismissed \ {r.key}
<1>1. q \in Projection
  BY AppliedTyped
<1>2. q = [p EXCEPT !.dismissed = E]
  BY DismissedChanges
<1>3. q.dismissed = E
  BY <1>2 DEF Projection
<1>4. r.kind = (IF k \in p.dismissed THEN "finding-dismiss" ELSE "finding-restore") /\ r.key = k
  BY DEF Receipt, Plain
<1>5. Applied(q, r) = [q EXCEPT !.dismissed = D]
  <2> HIDE DEF q, r
  <2> QED BY <1>1, <1>4, DismissedChanges
<1>6. D = p.dismissed
  <2> HIDE DEF q, r
  <2>1. CASE k \in p.dismissed
    BY <1>3, <1>4, <2>1
  <2>2. CASE k \notin p.dismissed
    BY <1>3, <1>4, <2>2
  <2> QED BY <2>1, <2>2
<1>7. Applied(q, r) = p
  <2> HIDE DEF q, r, E, D
  <2>1. Applied(q, r) = [[p EXCEPT !.dismissed = E] EXCEPT !.dismissed = p.dismissed]
    BY <1>2, <1>5, <1>6
  <2> QED BY <2>1 DEF Projection
<1> QED BY <1>7 DEF Undoes, q, r

(* A quoted thread opened, answered or closed.                             *)
LEMMA QuoteUndone ==
  ASSUME NEW p \in Projection, NEW e \in Event,
         e.kind \in {"quote-open", "quote-close", "quote-reply"}
  PROVE  Undoes(e, p)
<1> DEFINE k == e.key
           f == p.quotes
<1>1. f \in Partial(Thread, Seq(Body))
  BY DEF Projection
<1>2. CASE e.kind = "quote-open"
  <2>1. Applied(p, e) = [p EXCEPT !.quotes = Put(f, k, e.value)]
    BY <1>2 DEF Applied
  <2>2. CASE k \in DOMAIN f
    <3>1. Receipt(e, p) = [kind |-> "quote-open", key |-> k, value |-> f[k]]
      BY <1>2, <2>2 DEF Receipt, PutBack, Valued
    <3>2. Applied(Applied(p, e), Receipt(e, p)) = [p EXCEPT !.quotes = Put(Put(f, k, e.value), k, f[k])]
      BY <2>1, <3>1 DEF Applied, Projection
    <3> QED BY <1>1, <2>2, <3>2, PutUndone DEF Undoes, Projection
  <2>3. CASE k \notin DOMAIN f
    <3>1. Receipt(e, p) = [kind |-> "quote-close", key |-> k, value |-> NoValue]
      BY <1>2, <2>3 DEF Receipt, PutBack, Plain
    <3>2. Applied(Applied(p, e), Receipt(e, p)) = [p EXCEPT !.quotes = Without(Put(f, k, e.value), k)]
      BY <2>1, <3>1 DEF Applied, Projection
    <3> QED BY <1>1, <2>3, <3>2, PutUndone DEF Undoes, Projection
  <2> QED BY <2>2, <2>3
<1>3. CASE e.kind = "quote-close"
  <2>1. Applied(p, e) = [p EXCEPT !.quotes = Without(f, k)]
    BY <1>3 DEF Applied
  <2>2. CASE k \in DOMAIN f
    <3>1. Receipt(e, p) = [kind |-> "quote-open", key |-> k, value |-> f[k]]
      BY <1>3, <2>2 DEF Receipt, PutBack, Valued
    <3>2. Applied(Applied(p, e), Receipt(e, p)) = [p EXCEPT !.quotes = Put(Without(f, k), k, f[k])]
      BY <2>1, <3>1 DEF Applied, Projection
    <3> QED BY <1>1, <2>2, <3>2, WithoutUndone DEF Undoes, Projection
  <2>3. CASE k \notin DOMAIN f
    <3>1. Receipt(e, p) = [kind |-> "quote-close", key |-> k, value |-> NoValue]
      BY <1>3, <2>3 DEF Receipt, PutBack, Plain
    <3>2. Applied(Applied(p, e), Receipt(e, p)) = [p EXCEPT !.quotes = Without(Without(f, k), k)]
      BY <2>1, <3>1 DEF Applied, Projection
    <3> QED BY <1>1, <2>3, <3>2, WithoutUndone DEF Undoes, Projection
  <2> QED BY <2>2, <2>3
<1>4. CASE e.kind = "quote-reply"
  <2>0. e = [kind |-> "quote-reply", key |-> k, value |-> e.value]
    BY <1>4 DEF Event
  <2>2. CASE k \in DOMAIN f
    <3>1. Applied(p, e) = [p EXCEPT !.quotes = Put(f, k, e.value)]
      BY <1>4, <2>2 DEF Applied
    <3>2. Receipt(e, p) = [kind |-> "quote-reply", key |-> k, value |-> f[k]]
      BY <1>4, <2>0, <2>2 DEF Receipt
    <3>3. k \in DOMAIN Put(f, k, e.value)
      BY DEF Put
    <3>4. Applied(Applied(p, e), Receipt(e, p)) = [p EXCEPT !.quotes = Put(Put(f, k, e.value), k, f[k])]
      BY <3>1, <3>2, <3>3 DEF Applied, Projection
    <3> QED BY <1>1, <2>2, <3>4, PutUndone DEF Undoes, Projection
  <2>3. CASE k \notin DOMAIN f
    <3>1. Applied(p, e) = p
      BY <1>4, <2>3 DEF Applied
    <3>2. Receipt(e, p) = e
      BY <1>4, <2>0, <2>3 DEF Receipt
    <3> QED BY <3>1, <3>2 DEF Undoes
  <2> QED BY <2>2, <2>3
<1> QED BY <1>2, <1>3, <1>4

LEMMA VerdictUndone ==
  ASSUME NEW p \in Projection, NEW e \in Event,
         e.kind \in {"verdict-override-set", "verdict-override-clear"}
  PROVE  Undoes(e, p)
<1> DEFINE V == IF e.kind = "verdict-override-set" THEN e.value ELSE NoValue
<1>1. Applied(p, e) = [p EXCEPT !.verdict = V]
  <2>1. CASE e.kind = "verdict-override-set"
    BY <2>1 DEF Applied
  <2>2. CASE e.kind = "verdict-override-clear"
    BY <2>2 DEF Applied
  <2> QED BY <2>1, <2>2
<1> DEFINE q == Applied(p, e)
           r == Receipt(e, p)
<1> HIDE DEF V, q
<1>2. Applied(q, r) = [q EXCEPT !.verdict = p.verdict]
  <2>1. CASE p.verdict = NoValue
    <3>1. r.kind = "verdict-override-clear"
      BY <2>1 DEF Receipt, Plain
    <3> HIDE DEF r
    <3>2. Applied(q, r) = [q EXCEPT !.verdict = NoValue]
      BY <3>1 DEF Applied
    <3> QED BY <2>1, <3>2
  <2>2. CASE p.verdict # NoValue
    <3>1. r.kind = "verdict-override-set" /\ r.value = p.verdict
      BY <2>2 DEF Receipt, Valued
    <3> HIDE DEF r
    <3>2. Applied(q, r) = [q EXCEPT !.verdict = r.value]
      BY <3>1 DEF Applied
    <3> QED BY <3>1, <3>2
  <2> QED BY <2>1, <2>2
<1> QED BY <1>1, <1>2 DEF q, Undoes, Projection

(* Comments on lines: the path comes and goes with its first and last one. *)
LEMMA LineReceipt ==
  ASSUME NEW p, NEW e, e.kind \in {"line-comment-set", "line-comment-clear"}
  PROVE  LET r == Receipt(e, p)
             m == LinesOf(p, e.key.path)
         IN  /\ r.key = e.key
             /\ e.key.line \in DOMAIN m => r.kind = "line-comment-set" /\ r.value = m[e.key.line]
             /\ e.key.line \notin DOMAIN m => r.kind = "line-comment-clear"
<1>1. LinesOf(p, e.key.path) = IF e.key.path \in DOMAIN p.lines THEN p.lines[e.key.path] ELSE <<>>
  BY DEF LinesOf
<1>2. CASE e.key.line \in DOMAIN LinesOf(p, e.key.path)
  <2>1. Receipt(e, p) = [kind |-> "line-comment-set", key |-> e.key, value |-> p.lines[e.key.path][e.key.line]]
    BY <1>2 DEF Receipt, Valued
  <2>2. e.key.path \in DOMAIN p.lines
    <3>1. DOMAIN <<>> = {}
      OBVIOUS
    <3> QED BY <1>1, <1>2, <3>1
  <2> QED BY <1>1, <1>2, <2>1, <2>2
<1>3. CASE e.key.line \notin DOMAIN LinesOf(p, e.key.path)
  <2>1. Receipt(e, p) = [kind |-> "line-comment-clear", key |-> e.key, value |-> NoValue]
    BY <1>3 DEF Receipt, Plain
  <2> QED BY <1>3, <2>1
<1> QED BY <1>2, <1>3

(* The lines after a set, written back or cleared again.                   *)
LEMMA SetLineUndone ==
  ASSUME NEW p \in Projection, NEW at \in Place, NEW b
  PROVE  LET f == p.lines
             m == LinesOf(p, at.path)
             after == Put(f, at.path, Put(m, at.line, b))
         IN  /\ at.path \in DOMAIN after /\ after[at.path] = Put(m, at.line, b)
             /\ at.line \in DOMAIN m => Put(after, at.path, Put(Put(m, at.line, b), at.line, m[at.line])) = f
             /\ at.line \notin DOMAIN m => WithoutLine(after, at) = f
<1> DEFINE f == p.lines
           m == LinesOf(p, at.path)
           one == Put(m, at.line, b)
           after == Put(f, at.path, one)
<1>1. f \in Partial(STRING, Comments)
  BY DEF Projection
<1>2. m \in Partial(Nat, Body)
  BY LinesTyped
<1>3. /\ at.path \in DOMAIN f => m = f[at.path] /\ DOMAIN m # {}
      /\ at.path \notin DOMAIN f => DOMAIN m = {}
  <2>1. \A x \in DOMAIN f : f[x] \in Comments
    BY <1>1, PartialFunction
  <2> QED BY <2>1, EmptyPartial DEF LinesOf, Comments
<1> HIDE DEF f, m
<1>4. at.path \in DOMAIN after /\ after[at.path] = one
  BY DEF Put
<1>5. ASSUME at.line \in DOMAIN m PROVE Put(after, at.path, Put(one, at.line, m[at.line])) = f
  <2>1. Put(one, at.line, m[at.line]) = m
    BY <1>2, <1>5, PutUndone
  <2>2. at.path \in DOMAIN f /\ m = f[at.path]
    BY <1>3, <1>5
  <2> HIDE DEF one
  <2>3. Put(Put(f, at.path, one), at.path, f[at.path]) = f
    BY <1>1, <2>2, PutUndone
  <2> QED BY <2>1, <2>2, <2>3
<1>6. ASSUME at.line \notin DOMAIN m PROVE WithoutLine(after, at) = f
  <2>1. Without(one, at.line) = m
    BY <1>2, <1>6, PutUndone
  <2> HIDE DEF one, after
  <2>2. WithoutLine(after, at) = IF DOMAIN m = {} THEN Without(after, at.path) ELSE Put(after, at.path, m)
    BY <1>4, <2>1 DEF WithoutLine
  <2>3. CASE at.path \in DOMAIN f
    <3>1. Put(Put(f, at.path, one), at.path, f[at.path]) = f
      BY <1>1, <2>3, PutUndone
    <3> QED BY <1>3, <2>2, <2>3, <3>1 DEF after
  <2>4. CASE at.path \notin DOMAIN f
    <3>1. Without(Put(f, at.path, one), at.path) = f
      BY <1>1, <2>4, PutUndone
    <3> QED BY <1>3, <2>2, <2>4, <3>1 DEF after
  <2> QED BY <2>3, <2>4
<1> QED BY <1>4, <1>5, <1>6 DEF f, m

(* Putting back what is there changes nothing.                             *)
LEMMA PutSame ==
  ASSUME NEW S, NEW T, NEW f \in Partial(S, T), NEW k \in DOMAIN f
  PROVE  Put(f, k, f[k]) = f
<1>1. f = [x \in DOMAIN f |-> f[x]]
  BY PartialFunction
<1>2. DOMAIN f \cup {k} = DOMAIN f
  OBVIOUS
<1>3. Put(f, k, f[k]) = [x \in DOMAIN f |-> f[x]]
  BY <1>2 DEF Put
<1> QED BY <1>1, <1>3

LEMMA PutTwice ==
  ASSUME NEW f, NEW k, NEW v, NEW w
  PROVE  Put(Put(f, k, v), k, w) = Put(f, k, w) /\ Put(Without(f, k), k, w) = Put(f, k, w)
BY DEF Put, Without, Restrict

(* The lines after a clear, written back or cleared again.                 *)
LEMMA ClearLineUndone ==
  ASSUME NEW p \in Projection, NEW at \in Place,
         NEW q, q.lines = WithoutLine(p.lines, at)
  PROVE  LET f == p.lines
             m == LinesOf(p, at.path)
         IN  /\ at.line \in DOMAIN m =>
                  Put(q.lines, at.path, Put(LinesOf(q, at.path), at.line, m[at.line])) = f
             /\ at.line \notin DOMAIN m => q.lines = f
<1> DEFINE f == p.lines
           m == LinesOf(p, at.path)
           rest == Without(m, at.line)
<1>1. f \in Partial(STRING, Comments)
  BY DEF Projection
<1>2. m \in Partial(Nat, Body)
  BY LinesTyped
<1>3. /\ at.path \in DOMAIN f => m = f[at.path] /\ DOMAIN m # {}
      /\ at.path \notin DOMAIN f => DOMAIN m = {}
  <2>1. \A x \in DOMAIN f : f[x] \in Comments
    BY <1>1, PartialFunction
  <2> QED BY <2>1, EmptyPartial DEF LinesOf, Comments
<1> HIDE DEF f, m
<1>4. q.lines = IF at.path \notin DOMAIN f THEN f
                ELSE IF DOMAIN rest = {} THEN Without(f, at.path) ELSE Put(f, at.path, rest)
  BY <1>3 DEF WithoutLine, f
<1>5. ASSUME at.line \notin DOMAIN m PROVE q.lines = f
  <2>1. CASE at.path \in DOMAIN f
    <3>1. rest = m
      BY <1>2, <1>5, WithoutUndone
    <3>2. q.lines = Put(f, at.path, f[at.path])
      BY <1>3, <1>4, <2>1, <3>1
    <3> QED BY <1>1, <2>1, <3>2, PutSame
  <2>2. CASE at.path \notin DOMAIN f
    BY <1>4, <2>2
  <2> QED BY <2>1, <2>2
<1>6. ASSUME at.line \in DOMAIN m
      PROVE  Put(q.lines, at.path, Put(LinesOf(q, at.path), at.line, m[at.line])) = f
  <2>1. at.path \in DOMAIN f /\ m = f[at.path]
    BY <1>3, <1>6
  <2>2. LinesOf(q, at.path) = rest
    <3>1. CASE DOMAIN rest = {}
      <4>1. q.lines = Without(f, at.path)
        BY <1>4, <2>1, <3>1
      <4>2. at.path \notin DOMAIN Without(f, at.path)
        BY DEF Without, Restrict
      <4>3. LinesOf(q, at.path) = <<>>
        BY <4>1, <4>2 DEF LinesOf
      <4>4. rest \in Partial(Nat, Body) /\ <<>> \in Partial(Nat, Body) /\ DOMAIN <<>> = {}
        BY <1>2, WithoutPartial, EmptyPartial
      <4> HIDE DEF rest
      <4>5. rest = [x \in DOMAIN rest |-> rest[x]]
        BY <4>4, PartialFunction
      <4>6. rest = <<>>
        <5>1. <<>> = [x \in {} |-> rest[x]]
          BY Zenon, SMT
        <5> QED BY <3>1, <4>5, <5>1
      <4> QED BY <4>3, <4>6
    <3>2. CASE DOMAIN rest # {}
      <4>1. q.lines = Put(f, at.path, rest)
        BY <1>4, <2>1, <3>2
      <4>2. at.path \in DOMAIN q.lines /\ q.lines[at.path] = rest
        BY <4>1 DEF Put
      <4> QED BY <4>2 DEF LinesOf
    <3> QED BY <3>1, <3>2
  <2>3. Put(rest, at.line, m[at.line]) = m
    BY <1>2, <1>6, WithoutUndone
  <2> HIDE DEF rest
  <2>4. Put(q.lines, at.path, m) = Put(f, at.path, m)
    BY <1>4, <2>1, PutTwice
  <2>5. Put(f, at.path, m) = f
    BY <1>1, <2>1, PutSame
  <2> QED BY <2>2, <2>3, <2>4, <2>5
<1> QED BY <1>5, <1>6 DEF f, m

LEMMA LineUndone ==
  ASSUME NEW p \in Projection, NEW e \in Event, e.key \in Place,
         e.kind \in {"line-comment-set", "line-comment-clear"}
  PROVE  Undoes(e, p)
<1> DEFINE at == e.key
           m == LinesOf(p, at.path)
           q == Applied(p, e)
           r == Receipt(e, p)
<1>1. /\ r.key = at
      /\ at.line \in DOMAIN m => r.kind = "line-comment-set" /\ r.value = m[at.line]
      /\ at.line \notin DOMAIN m => r.kind = "line-comment-clear"
  BY LineReceipt
<1>2. CASE e.kind = "line-comment-set"
  <2> DEFINE one == Put(m, at.line, e.value)
             after == Put(p.lines, at.path, one)
  <2>1. q = [p EXCEPT !.lines = after]
    BY <1>2 DEF Applied
  <2>2. /\ at.path \in DOMAIN after /\ after[at.path] = one
        /\ at.line \in DOMAIN m => Put(after, at.path, Put(one, at.line, m[at.line])) = p.lines
        /\ at.line \notin DOMAIN m => WithoutLine(after, at) = p.lines
    BY SetLineUndone
  <2> HIDE DEF after, one, q, r, m
  <2>3. q.lines = after
    BY <2>1 DEF Projection
  <2>4. LinesOf(q, at.path) = one
    BY <2>2, <2>3 DEF LinesOf
  <2>5. Applied(q, r) = [q EXCEPT !.lines = p.lines]
    <3>1. CASE at.line \in DOMAIN m
      <4>1. Applied(q, r) = [q EXCEPT !.lines = Put(q.lines, at.path, Put(LinesOf(q, at.path), at.line, m[at.line]))]
        BY <1>1, <3>1 DEF Applied
      <4> QED BY <2>2, <2>3, <2>4, <3>1, <4>1
    <3>2. CASE at.line \notin DOMAIN m
      <4>1. Applied(q, r) = [q EXCEPT !.lines = WithoutLine(q.lines, at)]
        BY <1>1, <3>2 DEF Applied
      <4> QED BY <2>2, <2>3, <3>2, <4>1
    <3> QED BY <3>1, <3>2
  <2> QED BY <2>1, <2>5 DEF q, r, Undoes, Projection
<1>3. CASE e.kind = "line-comment-clear"
  <2> DEFINE after == WithoutLine(p.lines, at)
  <2>1. q = [p EXCEPT !.lines = after]
    BY <1>3 DEF Applied
  <2> HIDE DEF q, r
  <2>2. q.lines = after
    BY <2>1 DEF Projection
  <2>3. /\ at.line \in DOMAIN m =>
             Put(q.lines, at.path, Put(LinesOf(q, at.path), at.line, m[at.line])) = p.lines
        /\ at.line \notin DOMAIN m => q.lines = p.lines
    BY <2>2, ClearLineUndone
  <2>4. at.line \notin DOMAIN m => WithoutLine(q.lines, at) = p.lines
    BY <2>2, <2>3
  <2> HIDE DEF after, m
  <2>5. Applied(q, r) = [q EXCEPT !.lines = p.lines]
    <3>1. CASE at.line \in DOMAIN m
      <4>1. Applied(q, r) = [q EXCEPT !.lines = Put(q.lines, at.path, Put(LinesOf(q, at.path), at.line, m[at.line]))]
        BY <1>1, <3>1 DEF Applied
      <4> QED BY <2>3, <3>1, <4>1
    <3>2. CASE at.line \notin DOMAIN m
      <4>1. Applied(q, r) = [q EXCEPT !.lines = WithoutLine(q.lines, at)]
        BY <1>1, <3>2 DEF Applied
      <4> QED BY <2>4, <3>2, <4>1
    <3> QED BY <3>1, <3>2
  <2> QED BY <2>1, <2>5 DEF q, r, Undoes, Projection
<1> QED BY <1>2, <1>3

(* The receipt of an event takes any projection back exactly, outside the  *)
(* two cases of the retired ledger.                                        *)
LEMMA UndoExact ==
  ASSUME NEW p \in Projection, NEW e \in Event,
         ~(e.kind = "retire" /\ e.key \in DOMAIN p.retired),
         ~(e.kind = "restore" /\ e.key \in DOMAIN p.staged \cap DOMAIN p.retired)
  PROVE  Undoes(e, p)
<1>1. CASE e.kind \in {"stage", "unstage", "edit"}
  BY <1>1, StagedUndone
<1>2. CASE e.kind \in {"retire", "restore"}
  BY <1>2, LedgerUndone
<1>3. CASE e.kind \in {"finding-dismiss", "finding-restore"}
  BY <1>3, FindingUndone
<1>4. CASE e.kind \in {"quote-open", "quote-close", "quote-reply"}
  BY <1>4, QuoteUndone
<1>5. CASE e.kind \in {"verdict-override-set", "verdict-override-clear"}
  BY <1>5, VerdictUndone
<1>6. CASE e.kind \in {"line-comment-set", "line-comment-clear"}
  <2>1. e.key \in Place
    BY <1>6 DEF Event
  <2> QED BY <1>6, <2>1, LineUndone
<1> QED BY <1>1, <1>2, <1>3, <1>4, <1>5, <1>6 DEF Event

-----------------------------------------------------------------------------
(* The fold.                                                               *)

(* The values a fold of events passes through.                             *)
FoldRun(h, p, events) ==
  h[0] = p /\ \A i \in 1..Len(events) : h[i] = Applied(h[i - 1], events[i])

LEMMA FoldRuns ==
  ASSUME NEW p \in Projection, NEW events \in Seq(Event)
  PROVE  \E h \in [0..Len(events) -> Projection] :
           FoldRun(h, p, events) /\ AppliedAll(p, events) = h[Len(events)]
<1> DEFINE n == Len(events)
           F == [i \in 1..n |-> [x \in Projection |-> Applied(x, events[i])]]
           Unfolds(h) == h = [i \in 0..n |-> IF i = 0 THEN p ELSE Applied(h[i - 1], events[i])]
           after == CHOOSE h : Unfolds(h)
<1>a. n \in Nat
  OBVIOUS
<1>b. \A i \in 1..n : events[i] \in Event
  OBVIOUS
<1>1. F \in [1..n -> [Projection -> Projection]]
  BY <1>b, AppliedTyped
<1>2. PICK h : IsRun(h, Projection, n, F, p)
  <2> HIDE DEF n, F, Unfolds, after
  <2> QED BY <1>a, <1>1, Iterates
<1>c. h \in [0..n -> Projection] /\ h[0] = p
  BY <1>2 DEF IsRun
<1>3. \A i \in 1..n : h[i] = Applied(h[i - 1], events[i])
  <2> SUFFICES ASSUME NEW i \in 1..n PROVE h[i] = Applied(h[i - 1], events[i])
    OBVIOUS
  <2>1. h[i - 1] \in Projection
    BY <1>a, <1>c
  <2>2. h[i] = F[i][h[i - 1]]
    BY <1>2 DEF IsRun
  <2> QED BY <2>1, <2>2
<1>4. Unfolds(h)
  <2> HIDE DEF n
  <2>1. h = [i \in 0..n |-> h[i]]
    BY <1>c
  <2>2. \A i \in 0..n : h[i] = IF i = 0 THEN p ELSE Applied(h[i - 1], events[i])
    BY <1>a, <1>c, <1>3
  <2> QED BY <2>1, <2>2
<1>5. AppliedAll(p, events) = after[n]
  BY DEF AppliedAll
<1>6. Unfolds(after)
  <2> HIDE DEF Unfolds
  <2> QED BY <1>4
<1> HIDE DEF after
<1>7. after[0] = p /\ \A i \in 1..n : after[i] = Applied(after[i - 1], events[i])
  <2> HIDE DEF n
  <2> SUFFICES ASSUME Unfolds(after)
               PROVE  after[0] = p /\ \A i \in 1..n : after[i] = Applied(after[i - 1], events[i])
    BY <1>6
  <2>1. \A i \in 0..n : after[i] = IF i = 0 THEN p ELSE Applied(after[i - 1], events[i])
    BY Zenon
  <2> QED BY <1>a, <2>1
<1>8. after[n] = h[n]
  <2> HIDE DEF n, F, Unfolds
  <2>1. Alike(after, h, n)
    BY <1>3, <1>7, <1>c DEF Alike
  <2> QED BY <1>a, <2>1, SameRun
<1> QED BY <1>a, <1>c, <1>3, <1>5, <1>8 DEF FoldRun

LEMMA FoldTyped ==
  ASSUME NEW p \in Projection, NEW events \in Seq(Event)
  PROVE  AppliedAll(p, events) \in Projection
BY FoldRuns

(* Folding two logs one after the other folds their concatenation.         *)
LEMMA FoldConcat ==
  ASSUME NEW p \in Projection, NEW s \in Seq(Event), NEW t \in Seq(Event)
  PROVE  AppliedAll(p, s \o t) = AppliedAll(AppliedAll(p, s), t)
<1>1. /\ s \o t \in Seq(Event) /\ Len(s \o t) = Len(s) + Len(t)
      /\ \A i \in 1..Len(s) : (s \o t)[i] = s[i]
      /\ \A i \in 1..Len(t) : (s \o t)[Len(s) + i] = t[i]
      /\ Len(s) \in Nat /\ Len(t) \in Nat
  OBVIOUS
<1>2. AppliedAll(p, s) \in Projection
  BY FoldTyped
<1>3. PICK h : FoldRun(h, p, s) /\ AppliedAll(p, s) = h[Len(s)]
  BY FoldRuns
<1>4. PICK g : FoldRun(g, AppliedAll(p, s), t) /\ AppliedAll(AppliedAll(p, s), t) = g[Len(t)]
  BY <1>2, FoldRuns
<1>5. PICK k : FoldRun(k, p, s \o t) /\ AppliedAll(p, s \o t) = k[Len(s \o t)]
  BY <1>1, FoldRuns
<1>6. \A i \in 1..Len(s) : k[i] = Applied(k[i - 1], s[i])
  <2>1. \A i \in 1..Len(s) : i \in 1..Len(s \o t)
    BY <1>1
  <2> QED BY <1>1, <1>5, <2>1 DEF FoldRun
<1>7. k[Len(s)] = h[Len(s)]
  <2>1. Alike(k, h, Len(s))
    BY <1>3, <1>5, <1>6 DEF FoldRun, Alike
  <2> QED BY <1>1, <2>1, SameRun
<1> DEFINE rest == [i \in 0..Len(t) |-> k[Len(s) + i]]
<1>8. \A i \in 1..Len(t) : rest[i] = Applied(rest[i - 1], t[i])
  <2> SUFFICES ASSUME NEW i \in 1..Len(t) PROVE rest[i] = Applied(rest[i - 1], t[i])
    OBVIOUS
  <2>1. Len(s) + i \in 1..Len(s \o t) /\ Len(s) + i - 1 = Len(s) + (i - 1) /\ i - 1 \in 0..Len(t)
    BY <1>1
  <2>2. k[Len(s) + i] = Applied(k[Len(s) + i - 1], (s \o t)[Len(s) + i])
    BY <1>5, <2>1 DEF FoldRun
  <2> QED BY <1>1, <2>1, <2>2
<1>9. rest[0] = g[0]
  BY <1>1, <1>3, <1>4, <1>7 DEF FoldRun
<1>10. rest[Len(t)] = k[Len(s \o t)]
  BY <1>1
<1> HIDE DEF rest
<1>11. rest[Len(t)] = g[Len(t)]
  <2>1. Alike(rest, g, Len(t))
    BY <1>4, <1>8, <1>9 DEF FoldRun, Alike
  <2> QED BY <1>1, <2>1, SameRun
<1> QED BY <1>1, <1>4, <1>5, <1>10, <1>11

-----------------------------------------------------------------------------
(* Revisions.                                                              *)

(* Every staged ask, and no other, has a revision, of an event past.       *)
RevState ==
  {x \in [p : Projection, seq : Nat, revs : Partial(Ask, Nat)] :
     /\ DOMAIN x.revs = DOMAIN x.p.staged
     /\ IsFiniteSet(DOMAIN x.revs)
     /\ \A a \in DOMAIN x.revs : x.revs[a] < x.seq}

LEMMA UnrevisedState == Unrevised \in RevState
<1>1. Unrevised \in [p : Projection, seq : Nat, revs : Partial(Ask, Nat)]
  BY EmptyTyped, EmptyPartial DEF Unrevised
<1>2. DOMAIN Unrevised.revs = {} /\ DOMAIN Unrevised.p.staged = {}
  BY EmptyPartial DEF Unrevised, EmptyProjection
<1> QED BY <1>1, <1>2, FS_EmptySet DEF RevState

(* An event gives an ask a new body and a revision of its own, takes the   *)
(* ask off with its revision, or leaves both alone.                        *)
LEMMA StagedWithRevision ==
  ASSUME NEW x \in RevState, NEW e \in Event
  PROVE  LET y == Revised(x, e) IN
         \/ \E v : /\ e.key \in Ask
                  /\ y.p.staged = Put(x.p.staged, e.key, v) /\ y.revs = Put(x.revs, e.key, x.seq)
         \/ y.p.staged = Without(x.p.staged, e.key) /\ y.revs = Without(x.revs, e.key)
         \/ y.p.staged = x.p.staged /\ y.revs = x.revs
<1> DEFINE y == Revised(x, e)
           p == x.p
           q == Applied(p, e)
<1>0. p \in Projection
  BY DEF RevState
<1>1. y.p = q /\ p = x.p
  BY DEF Revised
<1>2. CASE e.kind = "stage" \/ (e.kind = "edit" /\ e.key \in DOMAIN p.staged)
  <2>1. q.staged = Put(p.staged, e.key, e.value)
    BY <1>0, <1>2 DEF Applied, Projection
  <2>2. y.revs = Put(x.revs, e.key, x.seq)
    BY <1>2 DEF Revised
  <2>3. e.key \in Ask
    BY <1>2 DEF Event
  <2> QED BY <1>1, <2>1, <2>2, <2>3, Zenon
<1>3. CASE e.kind = "restore" /\ e.key \in DOMAIN p.retired
  <2>1. q.staged = Put(p.staged, e.key, p.retired[e.key].ask)
    BY <1>0, <1>3 DEF Applied, Projection
  <2>2. y.revs = Put(x.revs, e.key, x.seq)
    BY <1>3 DEF Revised
  <2>3. e.key \in Ask
    BY <1>3 DEF Event
  <2> QED BY <1>1, <2>1, <2>2, <2>3, Zenon
<1>4. CASE e.kind = "unstage" \/ (e.kind = "retire" /\ e.key \in DOMAIN p.staged)
  <2>1. q.staged = Without(p.staged, e.key)
    BY <1>0, <1>4 DEF Applied, Projection
  <2>2. y.revs = Without(x.revs, e.key)
    BY <1>4 DEF Revised
  <2> QED BY <1>1, <2>1, <2>2
<1>5. CASE \/ e.kind = "edit" /\ e.key \notin DOMAIN p.staged
           \/ e.kind = "restore" /\ e.key \notin DOMAIN p.retired
           \/ e.kind = "retire" /\ e.key \notin DOMAIN p.staged
           \/ e.kind \notin {"stage", "edit", "restore", "unstage", "retire"}
  <2>1. q.staged = p.staged
    BY <1>0, <1>5 DEF Applied, Projection
  <2>2. y.revs = x.revs
    BY <1>5 DEF Revised
  <2> QED BY <1>1, <2>1, <2>2
<1> QED BY <1>2, <1>3, <1>4, <1>5 DEF y, p

(* What is staged under a revision it had before is what was staged then.  *)
LEMMA RevisionKept ==
  ASSUME NEW x \in RevState, NEW e \in Event
  PROVE  LET y == Revised(x, e) IN
         \A a \in DOMAIN y.revs :
           \/ y.revs[a] = x.seq
           \/ a \in DOMAIN x.revs /\ y.revs[a] = x.revs[a] /\ y.p.staged[a] = x.p.staged[a]
<1> DEFINE y == Revised(x, e)
<1>1. DOMAIN x.revs = DOMAIN x.p.staged
  BY DEF RevState
<1> HIDE DEF y
<1>2. ASSUME NEW v, y.p.staged = Put(x.p.staged, e.key, v), y.revs = Put(x.revs, e.key, x.seq),
             NEW a \in DOMAIN y.revs
      PROVE  \/ y.revs[a] = x.seq
             \/ a \in DOMAIN x.revs /\ y.revs[a] = x.revs[a] /\ y.p.staged[a] = x.p.staged[a]
  BY <1>1, <1>2 DEF Put
<1>3. ASSUME y.p.staged = Without(x.p.staged, e.key), y.revs = Without(x.revs, e.key),
             NEW a \in DOMAIN y.revs
      PROVE  a \in DOMAIN x.revs /\ y.revs[a] = x.revs[a] /\ y.p.staged[a] = x.p.staged[a]
  BY <1>1, <1>3 DEF Without, Restrict
<1>4. \/ \E v : y.p.staged = Put(x.p.staged, e.key, v) /\ y.revs = Put(x.revs, e.key, x.seq)
      \/ y.p.staged = Without(x.p.staged, e.key) /\ y.revs = Without(x.revs, e.key)
      \/ y.p.staged = x.p.staged /\ y.revs = x.revs
  BY StagedWithRevision DEF y
<1> QED BY <1>2, <1>3, <1>4 DEF y

LEMMA RevisedTyped ==
  ASSUME NEW x \in RevState, NEW e \in Event
  PROVE  Revised(x, e) \in RevState
<1> DEFINE y == Revised(x, e)
<1>1. /\ x.p \in Projection /\ x.seq \in Nat /\ x.revs \in Partial(Ask, Nat)
      /\ DOMAIN x.revs = DOMAIN x.p.staged /\ IsFiniteSet(DOMAIN x.revs)
      /\ \A a \in DOMAIN x.revs : x.revs[a] < x.seq
  BY DEF RevState
<1>2. y = [p |-> y.p, seq |-> x.seq + 1, revs |-> y.revs] /\ y.p \in Projection
  BY <1>1, AppliedTyped DEF Revised
<1>3. y.seq = x.seq + 1
  BY DEF Revised
<1>4. \/ \E v : /\ e.key \in Ask
                /\ y.p.staged = Put(x.p.staged, e.key, v) /\ y.revs = Put(x.revs, e.key, x.seq)
      \/ y.p.staged = Without(x.p.staged, e.key) /\ y.revs = Without(x.revs, e.key)
      \/ y.p.staged = x.p.staged /\ y.revs = x.revs
  BY StagedWithRevision
<1>5. \A a \in DOMAIN y.revs : y.revs[a] = x.seq \/ (a \in DOMAIN x.revs /\ y.revs[a] = x.revs[a])
  BY RevisionKept
<1> HIDE DEF y
<1>6. \A a \in DOMAIN y.revs : y.revs[a] < y.seq
  <2> SUFFICES ASSUME NEW a \in DOMAIN y.revs PROVE y.revs[a] < y.seq
    OBVIOUS
  <2>1. a \in DOMAIN x.revs => x.revs[a] \in Nat
    BY <1>1, PartialFunction
  <2> QED BY <1>1, <1>3, <1>5, <2>1
<1>7. y.revs \in Partial(Ask, Nat) /\ DOMAIN y.revs = DOMAIN y.p.staged /\ IsFiniteSet(DOMAIN y.revs)
  <2>1. CASE \E v : /\ e.key \in Ask
                    /\ y.p.staged = Put(x.p.staged, e.key, v) /\ y.revs = Put(x.revs, e.key, x.seq)
    <3>1. y.revs \in Partial(Ask, Nat)
      BY <1>1, <2>1, PutPartial
    <3>2. DOMAIN y.revs = DOMAIN x.revs \cup {e.key} /\ DOMAIN y.p.staged = DOMAIN x.p.staged \cup {e.key}
      BY <2>1 DEF Put
    <3> QED BY <1>1, <3>1, <3>2, FS_AddElement
  <2>2. CASE y.p.staged = Without(x.p.staged, e.key) /\ y.revs = Without(x.revs, e.key)
    <3>1. y.revs \in Partial(Ask, Nat)
      BY <1>1, <2>2, WithoutPartial
    <3>2. DOMAIN y.revs = DOMAIN x.revs \ {e.key} /\ DOMAIN y.p.staged = DOMAIN x.p.staged \ {e.key}
      BY <2>2 DEF Without, Restrict
    <3>3. IsFiniteSet(DOMAIN x.revs \ {e.key})
      BY <1>1, FS_RemoveElement
    <3>4. DOMAIN y.revs = DOMAIN y.p.staged
      BY <1>1, <3>2
    <3> QED BY <3>1, <3>2, <3>3, <3>4
  <2>3. CASE y.p.staged = x.p.staged /\ y.revs = x.revs
    BY <1>1, <2>3
  <2> QED BY <1>4, <2>1, <2>2, <2>3
<1>8. y \in [p : Projection, seq : Nat, revs : Partial(Ask, Nat)]
  BY <1>1, <1>2, <1>7
<1>9. y \in RevState
  BY <1>6, <1>7, <1>8 DEF RevState
<1> QED BY <1>9 DEF y

(* The states a fold with revisions passes through.                        *)
RevRun(h, events) ==
  h[0] = Unrevised /\ \A i \in 1..Len(events) : h[i] = Revised(h[i - 1], events[i])

LEMMA RevRuns ==
  ASSUME NEW events \in Seq(Event)
  PROVE  \E h \in [0..Len(events) -> RevState] :
           RevRun(h, events) /\ RevisedAll(events) = h[Len(events)]
<1> DEFINE n == Len(events)
           F == [i \in 1..n |-> [x \in RevState |-> Revised(x, events[i])]]
           Unfolds(h) == h = [i \in 0..n |-> IF i = 0 THEN Unrevised ELSE Revised(h[i - 1], events[i])]
           after == CHOOSE h : Unfolds(h)
<1>a. n \in Nat
  OBVIOUS
<1>b. \A i \in 1..n : events[i] \in Event
  OBVIOUS
<1>1. F \in [1..n -> [RevState -> RevState]]
  BY <1>b, RevisedTyped
<1>2. PICK h : IsRun(h, RevState, n, F, Unrevised)
  <2> HIDE DEF n, F, Unfolds, after
  <2> QED BY <1>a, <1>1, UnrevisedState, Iterates
<1>c. h \in [0..n -> RevState] /\ h[0] = Unrevised
  BY <1>2 DEF IsRun
<1>3. \A i \in 1..n : h[i] = Revised(h[i - 1], events[i])
  <2> SUFFICES ASSUME NEW i \in 1..n PROVE h[i] = Revised(h[i - 1], events[i])
    OBVIOUS
  <2>1. h[i - 1] \in RevState
    BY <1>a, <1>c
  <2>2. h[i] = F[i][h[i - 1]]
    BY <1>2 DEF IsRun
  <2> QED BY <2>1, <2>2
<1>4. Unfolds(h)
  <2> HIDE DEF n
  <2>1. h = [i \in 0..n |-> h[i]]
    BY <1>c
  <2>2. \A i \in 0..n : h[i] = IF i = 0 THEN Unrevised ELSE Revised(h[i - 1], events[i])
    BY <1>a, <1>c, <1>3
  <2> QED BY <2>1, <2>2
<1>5. RevisedAll(events) = after[n]
  BY DEF RevisedAll
<1>6. Unfolds(after)
  <2> HIDE DEF Unfolds
  <2> QED BY <1>4
<1> HIDE DEF after
<1>7. after[0] = Unrevised /\ \A i \in 1..n : after[i] = Revised(after[i - 1], events[i])
  <2> HIDE DEF n
  <2> SUFFICES ASSUME Unfolds(after)
               PROVE  after[0] = Unrevised /\ \A i \in 1..n : after[i] = Revised(after[i - 1], events[i])
    BY <1>6
  <2>1. \A i \in 0..n : after[i] = IF i = 0 THEN Unrevised ELSE Revised(after[i - 1], events[i])
    BY Zenon
  <2> QED BY <1>a, <2>1
<1>8. after[n] = h[n]
  <2> HIDE DEF n, F, Unfolds
  <2>1. Alike(after, h, n)
    BY <1>3, <1>7, <1>c DEF Alike
  <2> QED BY <1>a, <2>1, SameRun
<1> QED BY <1>a, <1>c, <1>3, <1>5, <1>8 DEF RevRun

LEMMA RevisedAllTyped ==
  ASSUME NEW events \in Seq(Event)
  PROVE  RevisedAll(events) \in RevState
<1>1. PICK h \in [0..Len(events) -> RevState] : RevisedAll(events) = h[Len(events)]
  BY RevRuns
<1>2. Len(events) \in 0..Len(events)
  OBVIOUS
<1> QED BY <1>1, <1>2

(* The projection beside the revisions is the fold, and their clock the    *)
(* number of events.                                                       *)
LEMMA RevisedAllFolds ==
  ASSUME NEW events \in Seq(Event)
  PROVE  /\ RevisedAll(events).p = FoldAsks(events)
         /\ RevisedAll(events).seq = Len(events)
<1> DEFINE n == Len(events)
<1>0. n \in Nat
  OBVIOUS
<1>1. PICK h : RevRun(h, events) /\ RevisedAll(events) = h[n]
  BY RevRuns
<1>2. PICK g : FoldRun(g, EmptyProjection, events) /\ FoldAsks(events) = g[n]
  BY FoldRuns, EmptyTyped DEF FoldAsks
<1> HIDE DEF n
<1> DEFINE ps == [i \in 0..n |-> h[i].p]
           seqs == [i \in 0..n |-> h[i].seq]
           clock == [i \in 0..n |-> i]
<1>3. h[0].p = EmptyProjection /\ h[0].seq = 0
  BY <1>1 DEF RevRun, Unrevised
<1>4. \A i \in 1..n : h[i].p = Applied(h[i - 1].p, events[i]) /\ h[i].seq = h[i - 1].seq + 1
  <2>1. \A i \in 1..n : h[i] = Revised(h[i - 1], events[i])
    BY <1>1 DEF RevRun, n
  <2>2. ASSUME NEW x, NEW e PROVE Revised(x, e).p = Applied(x.p, e) /\ Revised(x, e).seq = x.seq + 1
    BY DEF Revised
  <2> QED BY <2>1, <2>2
<1>5. Alike(ps, g, n)
  <2>1. ps[0] = g[0]
    BY <1>0, <1>2, <1>3 DEF FoldRun
  <2>2. \A i \in 1..n : ps[i] = h[i].p /\ ps[i - 1] = h[i - 1].p
    BY <1>0
  <2>3. \A i \in 1..n : g[i] = Applied(g[i - 1], events[i])
    BY <1>2 DEF FoldRun, n
  <2> HIDE DEF ps
  <2> QED BY <1>4, <2>1, <2>2, <2>3 DEF Alike
<1>6. Alike(seqs, clock, n)
  <2>1. seqs[0] = clock[0]
    BY <1>0, <1>3
  <2>2. \A i \in 1..n : seqs[i] = h[i].seq /\ seqs[i - 1] = h[i - 1].seq
    BY <1>0
  <2>3. \A i \in 1..n : clock[i] = clock[i - 1] + 1
    BY <1>0
  <2> HIDE DEF seqs, clock
  <2> QED BY <1>4, <2>1, <2>2, <2>3 DEF Alike
<1>7. ps[n] = h[n].p /\ seqs[n] = h[n].seq /\ clock[n] = n
  BY <1>0
<1> HIDE DEF ps, seqs, clock
<1>8. ps[n] = g[n] /\ seqs[n] = clock[n]
  BY <1>0, <1>5, <1>6, SameRun
<1> QED BY <1>1, <1>2, <1>7, <1>8 DEF n

(* What one more event of a kind preserves, any number of them does.       *)
LEMMA RevisedPreserves ==
  ASSUME NEW E \in SUBSET Event, NEW s \in Seq(Event), NEW t \in Seq(E),
         NEW S, RevisedAll(s) \in S, \A x \in S : \A e \in E : Revised(x, e) \in S
  PROVE  RevisedAll(s \o t) \in S
<1>1. t \in Seq(Event)
  OBVIOUS
<1>2. /\ s \o t \in Seq(Event) /\ Len(s \o t) = Len(s) + Len(t)
      /\ \A i \in 1..Len(s) : (s \o t)[i] = s[i]
      /\ \A i \in 1..Len(t) : (s \o t)[Len(s) + i] = t[i] /\ t[i] \in E
      /\ Len(s) \in Nat /\ Len(t) \in Nat
  BY <1>1
<1>3. PICK h : RevRun(h, s) /\ RevisedAll(s) = h[Len(s)]
  BY RevRuns
<1>4. PICK k : RevRun(k, s \o t) /\ RevisedAll(s \o t) = k[Len(s \o t)]
  BY <1>2, RevRuns
<1>5. k[Len(s)] = h[Len(s)]
  <2>1. \A i \in 1..Len(s) : i \in 1..Len(s \o t)
    BY <1>2
  <2>2. Alike(k, h, Len(s))
    BY <1>2, <1>3, <1>4, <2>1 DEF RevRun, Alike
  <2> QED BY <1>2, <2>2, SameRun
<1> DEFINE T == {m \in Nat : m <= Len(t) => k[Len(s) + m] \in S}
<1>6. 0 \in T
  BY <1>2, <1>3, <1>5
<1>7. ASSUME NEW m \in T PROVE m + 1 \in T
  <2> SUFFICES ASSUME m + 1 <= Len(t) PROVE k[Len(s) + (m + 1)] \in S
    OBVIOUS
  <2>1. /\ Len(s) + (m + 1) \in 1..Len(s \o t) /\ Len(s) + (m + 1) - 1 = Len(s) + m
        /\ m + 1 \in 1..Len(t) /\ k[Len(s) + m] \in S
    BY <1>2
  <2>2. k[Len(s) + (m + 1)] = Revised(k[Len(s) + m], t[m + 1])
    <3>1. (s \o t)[Len(s) + (m + 1)] = t[m + 1]
      BY <1>2, <2>1
    <3> QED BY <1>4, <2>1, <3>1 DEF RevRun
  <2> QED BY <1>2, <2>1, <2>2
<1>8. T = Nat
  <2> HIDE DEF T
  <2>1. T \in SUBSET Nat
    BY DEF T
  <2> QED BY <1>6, <1>7, <2>1, Induction
<1>9. Len(t) \in T
  BY <1>2, <1>8
<1> QED BY <1>2, <1>4, <1>9

-----------------------------------------------------------------------------
(* The log and its memo.                                                   *)

(* The memo holds a log with its fold, or the fold still to be made, and   *)
(* one stamped with the file's stamp holds the file.                       *)
CacheInv ==
  /\ log \in Seq(Event)
  /\ cache.stamp \in Nat /\ cache.stamp <= Len(log)
  /\ cache.stamp = Len(log) => cache.events = log
  /\ cache.projection # NoProjection => cache.projection = FoldAsks(cache.events)

LEMMA CachedHoldsLog ==
  ASSUME CacheInv
  PROVE  /\ Cached.stamp = Len(log) /\ Cached.events = log
         /\ Cached.projection # NoProjection => Cached.projection = FoldAsks(log)
         /\ Memoized(Cached).stamp = Len(log) /\ Memoized(Cached).events = log
         /\ Memoized(Cached).projection = FoldAsks(log)
<1> DEFINE c == Cached
<1>1. CASE cache.stamp = Len(log) /\ Len(log) # 0
  BY <1>1 DEF CacheInv, Cached, Memoized
<1>2. CASE ~(cache.stamp = Len(log) /\ Len(log) # 0)
  <2>1. Cached = [stamp |-> Len(log), events |-> log, projection |-> NoProjection]
    BY <1>2 DEF Cached
  <2> QED BY <2>1 DEF Memoized
<1> QED BY <1>1, <1>2

(* Appending at least one event over a memo that holds the log.            *)
LEMMA AppendKeepsCache ==
  ASSUME CacheInv, NEW c, NEW events \in Seq(Event), Len(events) > 0,
         c.events = log, c.projection # NoProjection => c.projection = FoldAsks(log),
         AppendMany(c, events)
  PROVE  CacheInv' /\ log' = log \o events
<1>1. log \in Seq(Event) /\ log' = log \o events
  BY DEF CacheInv, AppendMany
<1>2. log' \in Seq(Event) /\ Len(log') = Len(log) + Len(events) /\ Len(log) \in Nat /\ Len(events) \in Nat
  BY <1>1
<1>3. c.projection # NoProjection => AppliedAll(c.projection, events) = FoldAsks(log')
  BY <1>1, EmptyTyped, FoldConcat DEF FoldAsks
<1>4. CASE cache' = [stamp |-> Len(log'), events |-> log',
                     projection |-> IF c.projection = NoProjection THEN NoProjection
                                    ELSE AppliedAll(c.projection, events)]
  <2>1. cache'.stamp = Len(log') /\ cache'.events = log'
    BY <1>4
  <2>2. cache'.projection # NoProjection => cache'.projection = FoldAsks(log')
    BY <1>3, <1>4
  <2>3. cache'.projection # NoProjection => cache'.projection = FoldAsks(cache'.events)
    BY <2>1, <2>2
  <2>4. cache'.stamp \in Nat /\ cache'.stamp <= Len(log')
    BY <1>2, <2>1
  <2> QED BY <1>1, <1>2, <2>1, <2>3, <2>4 DEF CacheInv
<1>5. CASE cache' = cache
  <2>1. cache.stamp \in Nat /\ cache.stamp < Len(log')
    BY <1>2 DEF CacheInv
  <2>2. cache.projection # NoProjection => cache.projection = FoldAsks(cache.events)
    BY DEF CacheInv
  <2>3. cache'.stamp \in Nat /\ cache'.stamp <= Len(log') /\ cache'.stamp # Len(log')
    BY <1>2, <1>5, <2>1
  <2>4. cache'.projection # NoProjection => cache'.projection = FoldAsks(cache'.events)
    BY <1>5, <2>2
  <2> QED BY <1>1, <1>2, <2>3, <2>4 DEF CacheInv
<1> QED BY <1>1, <1>4, <1>5 DEF AppendMany

LEMMA CommandsAreEvents ==
  ASSUME NEW p \in Projection
  PROVE  Commands(p) \subseteq Event
<1>1. Replies(p) \subseteq Event
  <2> SUFFICES ASSUME NEW t \in Thread, NEW b \in Body
               PROVE  Valued("quote-reply", t, Append(IF t \in DOMAIN p.quotes THEN p.quotes[t] ELSE <<>>, b)) \in Event
    BY DEF Replies
  <2>1. p.quotes \in Partial(Thread, Seq(Body))
    BY DEF Projection
  <2>2. (IF t \in DOMAIN p.quotes THEN p.quotes[t] ELSE <<>>) \in Seq(Body)
    BY <2>1, PartialFunction
  <2>3. Append(IF t \in DOMAIN p.quotes THEN p.quotes[t] ELSE <<>>, b) \in Seq(Body)
    BY <2>2
  <2> QED BY <2>3 DEF Valued, Event
<1>2. \A b \in Body : <<b>> \in Seq(Body)
  OBVIOUS
<1> SUFFICES ASSUME NEW e \in Commands(p) PROVE e \in Event
  OBVIOUS
<1>3. CASE \E k \in {"stage", "edit", "retire"}, a \in Ask, b \in Body : e = Valued(k, a, b)
  BY <1>3 DEF Valued, Event
<1>4. CASE \E k \in {"unstage", "restore"}, a \in Ask : e = Plain(k, a)
  BY <1>4 DEF Plain, Event, Bare
<1>5. CASE \E k \in {"finding-dismiss", "finding-restore"}, f \in Finding : e = Plain(k, f)
  BY <1>5 DEF Plain, Event, Bare
<1>6. CASE \E t \in Thread, b \in Body : e = Valued("quote-open", t, <<b>>)
  BY <1>2, <1>6 DEF Valued, Event
<1>7. CASE \E t \in Thread : e = Plain("quote-close", t)
  BY <1>7 DEF Plain, Event, Bare
<1>8. CASE \/ \E v \in Verdict : e = Valued("verdict-override-set", NoValue, v)
           \/ e = Plain("verdict-override-clear", NoValue)
  BY <1>8 DEF Valued, Plain, Event, Bare
<1>9. CASE \/ \E at \in Place, b \in Body : e = Valued("line-comment-set", at, b)
           \/ \E at \in Place : e = Plain("line-comment-clear", at)
  BY <1>9 DEF Valued, Plain, Event, Bare
<1> QED BY <1>1, <1>3, <1>4, <1>5, <1>6, <1>7, <1>8, <1>9 DEF Commands

-----------------------------------------------------------------------------
(* What was sent.                                                          *)

Occurrence == [ask : Ask, rev : Nat, body : Body]

(* Under the revision an occurrence was sent with, its body is staged.     *)
Sound(o, x) ==
  /\ o.rev < x.seq
  /\ o.ask \in DOMAIN x.revs /\ x.revs[o.ask] = o.rev => x.p.staged[o.ask] = o.body

SentInv ==
  /\ sent \subseteq Occurrence /\ IsFiniteSet(sent)
  /\ \A o \in sent : Sound(o, RevisedAll(log))

LEMMA SoundKept ==
  ASSUME NEW o \in Occurrence, NEW s \in Seq(Event), NEW t \in Seq(Event),
         Sound(o, RevisedAll(s))
  PROVE  Sound(o, RevisedAll(s \o t))
<1> DEFINE S == {x \in RevState : Sound(o, x)}
<1>1. RevisedAll(s) \in S
  BY RevisedAllTyped
<1>2. ASSUME NEW x \in S, NEW e \in Event PROVE Revised(x, e) \in S
  <2> DEFINE y == Revised(x, e)
  <2>1. x \in RevState /\ Sound(o, x)
    OBVIOUS
  <2>2. y \in RevState
    BY <2>1, RevisedTyped
  <2>3. y.seq = x.seq + 1
    BY DEF Revised
  <2>4. o.rev \in Nat /\ x.seq \in Nat
    BY <2>1 DEF Occurrence, RevState
  <2>5. \A a \in DOMAIN y.revs :
          \/ y.revs[a] = x.seq
          \/ a \in DOMAIN x.revs /\ y.revs[a] = x.revs[a] /\ y.p.staged[a] = x.p.staged[a]
    BY <2>1, RevisionKept
  <2> HIDE DEF y
  <2>6. Sound(o, y)
    BY <2>1, <2>3, <2>4, <2>5 DEF Sound
  <2> QED BY <2>2, <2>6 DEF y
<1> HIDE DEF S
<1>3. RevisedAll(s \o t) \in S
  <2>1. Event \in SUBSET Event
    OBVIOUS
  <2> QED BY <1>1, <1>2, <2>1, RevisedPreserves
<1> QED BY <1>3 DEF S

(* An arrangement of a finite set is a sequence of its elements.           *)
LEMMA Arranged ==
  ASSUME NEW S, IsFiniteSet(S), S # {}, NEW f \in SetToSeqs(S)
  PROVE  f \in Seq(S) /\ Len(f) > 0
<1>1. Cardinality(S) \in Nat /\ Cardinality(S) # 0
  BY FS_CardinalityType, FS_EmptySet
<1>2. f \in [1..Cardinality(S) -> S]
  BY DEF SetToSeqs
<1> QED BY <1>1, <1>2

LEMMA FiniteImage ==
  ASSUME NEW S, IsFiniteSet(S), NEW f, DOMAIN f = S
  PROVE  IsFiniteSet({f[x] : x \in S})
<1> DEFINE T == {f[x] : x \in S}
           g == [x \in S |-> f[x]]
<1>1. g \in Surjection(S, T)
  BY DEF Surjection
<1> HIDE DEF T, g
<1>2. IsFiniteSet(T)
  BY <1>1, FS_Surjection
<1> QED BY <1>2 DEF T

(* The batch a consumption appends.                                        *)
Unstagings == {Plain("unstage", o.ask) : o \in CurrentOccurrences}

LEMMA BatchOfUnstagings ==
  ASSUME SentInv, CurrentOccurrences # {}, NEW events \in SetToSeqs(Unstagings)
  PROVE  Unstagings \subseteq Event /\ events \in Seq(Unstagings) /\ Len(events) > 0
<1>1. CurrentOccurrences \subseteq sent
  BY DEF CurrentOccurrences
<1>2. IsFiniteSet(CurrentOccurrences)
  BY <1>1, FS_Subset DEF SentInv
<1>3. Unstagings \subseteq Event
  BY <1>1 DEF SentInv, Unstagings, Plain, Event, Bare, Occurrence
<1>4. IsFiniteSet(Unstagings)
  <2> DEFINE C == CurrentOccurrences
             f == [o \in C |-> Plain("unstage", o.ask)]
  <2>1. Unstagings = {f[o] : o \in C}
    BY DEF Unstagings
  <2>2. DOMAIN f = C
    OBVIOUS
  <2> HIDE DEF f, C
  <2>3. IsFiniteSet(C)
    BY <1>2 DEF C
  <2> QED BY <2>1, <2>2, <2>3, FiniteImage
<1>5. Unstagings # {}
  BY DEF Unstagings
<1> QED BY <1>3, <1>4, <1>5, Arranged

-----------------------------------------------------------------------------
(* The specification.                                                      *)

LogInv == CacheInv /\ SentInv

LEMMA InitInv == Init => LogInv
<1> SUFFICES ASSUME Init PROVE LogInv
  OBVIOUS
<1>1. log = <<>> /\ cache = [stamp |-> 0, events |-> <<>>, projection |-> NoProjection] /\ sent = {}
  BY DEF Init, Uncached
<1> QED BY <1>1, FS_EmptySet DEF LogInv, CacheInv, SentInv

LEMMA AppendKeepsSent ==
  ASSUME LogInv, NEW events \in Seq(Event), log' = log \o events, sent' = sent
  PROVE  SentInv'
<1>1. \A o \in sent : Sound(o, RevisedAll(log \o events))
  <2> SUFFICES ASSUME NEW o \in sent PROVE Sound(o, RevisedAll(log \o events))
    OBVIOUS
  <2>1. log \in Seq(Event) /\ o \in Occurrence /\ Sound(o, RevisedAll(log))
    BY DEF LogInv, CacheInv, SentInv
  <2> QED BY <2>1, SoundKept
<1>2. sent' \subseteq Occurrence /\ IsFiniteSet(sent')
  BY DEF LogInv, SentInv
<1>3. \A o \in sent' : Sound(o, RevisedAll(log'))
  BY <1>1
<1> QED BY <1>2, <1>3 DEF SentInv

LEMMA WriteInv == ASSUME LogInv, Write PROVE LogInv'
<1>1. PICK e \in Commands(FoldAsks(log)) : AppendMany(Memoized(Cached), <<e>>)
  BY DEF Write
<1>2. log \in Seq(Event)
  BY DEF LogInv, CacheInv
<1>3. e \in Event
  BY <1>2, EmptyTyped, FoldTyped, CommandsAreEvents DEF FoldAsks
<1>4. <<e>> \in Seq(Event) /\ Len(<<e>>) > 0
  BY <1>3
<1>5. CacheInv' /\ log' = log \o <<e>>
  <2> DEFINE c == Memoized(Cached)
  <2>1. c.events = log /\ c.projection = FoldAsks(log)
    BY CachedHoldsLog DEF LogInv
  <2>2. AppendMany(c, <<e>>)
    BY <1>1
  <2> HIDE DEF c
  <2> QED BY <1>4, <2>1, <2>2, AppendKeepsCache DEF LogInv
<1>6. SentInv'
  BY <1>4, <1>5, AppendKeepsSent DEF Write
<1> QED BY <1>5, <1>6 DEF LogInv

(* The state a round is dispatched from.                                   *)
LEMMA ActiveState ==
  ASSUME NEW events \in Seq(Event)
  PROVE  LET x == RevisedAll(events) IN
         /\ ActiveAskState(events).projection = FoldAsks(events)
         /\ ActiveAskState(events).projection = x.p
         /\ ActiveAskState(events).revisions = x.revs
<1> DEFINE x == RevisedAll(events)
<1>1. x.p = FoldAsks(events)
  BY RevisedAllFolds
<1>2. x.revs \in Partial(Ask, Nat) /\ DOMAIN x.revs = DOMAIN x.p.staged
  BY RevisedAllTyped DEF RevState
<1>3. x.revs = [a \in DOMAIN x.revs |-> x.revs[a]]
  BY <1>2, PartialFunction
<1>4. ActiveAskState(events) =
        [projection |-> x.p, revisions |-> Restrict(x.revs, DOMAIN x.revs \cap DOMAIN x.p.staged)]
  BY DEF ActiveAskState
<1> HIDE DEF x
<1>5. Restrict(x.revs, DOMAIN x.revs \cap DOMAIN x.p.staged) = x.revs
  BY <1>2, <1>3 DEF Restrict
<1> QED BY <1>1, <1>4, <1>5 DEF x

LEMMA DispatchInv == ASSUME LogInv, DispatchDraft PROVE LogInv'
<1> DEFINE x == RevisedAll(log)
           f == [a \in DOMAIN x.p.staged |-> [ask |-> a, rev |-> x.revs[a], body |-> x.p.staged[a]]]
<1>1. log \in Seq(Event) /\ log' = log /\ cache' = cache
  BY DEF LogInv, CacheInv, DispatchDraft
<1>2. x \in RevState
  BY <1>1, RevisedAllTyped
<1>3. sent' = {[ask |-> a, rev |-> x.revs[a], body |-> x.p.staged[a]] : a \in DOMAIN x.p.staged}
  BY <1>1, ActiveState DEF DispatchDraft
<1> HIDE DEF x
<1>4. /\ DOMAIN x.revs = DOMAIN x.p.staged /\ IsFiniteSet(DOMAIN x.revs)
      /\ x.p.staged \in Partial(Ask, Body) /\ x.revs \in Partial(Ask, Nat)
      /\ \A a \in DOMAIN x.revs : x.revs[a] < x.seq
  BY <1>2 DEF RevState, Projection
<1>5. \A a \in DOMAIN x.p.staged : a \in Ask /\ x.revs[a] \in Nat /\ x.p.staged[a] \in Body
  BY <1>4, PartialFunction
<1>6. sent' \subseteq Occurrence
  BY <1>3, <1>5 DEF Occurrence
<1>7. IsFiniteSet(sent')
  <2>1. sent' = {f[a] : a \in DOMAIN x.p.staged}
    BY <1>3
  <2>2. DOMAIN f = DOMAIN x.p.staged
    OBVIOUS
  <2> HIDE DEF f
  <2> QED BY <1>4, <2>1, <2>2, FiniteImage
<1>8. \A o \in sent' : Sound(o, RevisedAll(log))
  BY <1>3, <1>4 DEF Sound, x
<1>9. SentInv'
  BY <1>1, <1>6, <1>7, <1>8 DEF SentInv
<1>10. CacheInv'
  BY <1>1 DEF LogInv, CacheInv
<1> QED BY <1>9, <1>10 DEF LogInv

LEMMA ConsumeAppends ==
  ASSUME LogInv, ConsumeOccurrences
  PROVE  /\ \E events \in Seq(Unstagings) : log' = log \o events
         /\ Unstagings \subseteq Event /\ CacheInv' /\ sent' = sent
<1>1. PICK events \in SetToSeqs(Unstagings) : AppendMany(Cached, events)
  BY DEF ConsumeOccurrences, Unstagings
<1>2. Unstagings \subseteq Event /\ events \in Seq(Unstagings) /\ Len(events) > 0
  BY BatchOfUnstagings DEF LogInv, ConsumeOccurrences
<1>3. events \in Seq(Event)
  BY <1>2
<1>4. CacheInv' /\ log' = log \o events
  <2> DEFINE c == Cached
  <2>1. c.events = log /\ (c.projection # NoProjection => c.projection = FoldAsks(log))
    BY CachedHoldsLog DEF LogInv
  <2>2. AppendMany(c, events)
    BY <1>1
  <2> HIDE DEF c
  <2> QED BY <1>2, <1>3, <2>1, <2>2, AppendKeepsCache DEF LogInv
<1> QED BY <1>2, <1>4 DEF ConsumeOccurrences

LEMMA ConsumeInv == ASSUME LogInv, ConsumeOccurrences PROVE LogInv'
<1>1. PICK events \in Seq(Unstagings) : log' = log \o events
  BY ConsumeAppends
<1>2. events \in Seq(Event) /\ CacheInv' /\ sent' = sent
  BY ConsumeAppends
<1>3. SentInv'
  BY <1>1, <1>2, AppendKeepsSent
<1> QED BY <1>2, <1>3 DEF LogInv

LEMMA ReadInv == ASSUME LogInv, ReadProjection PROVE LogInv'
<1>1. log' = log /\ sent' = sent /\ cache' \in {Cached, Memoized(Cached)}
  BY DEF ReadProjection
<1>2. /\ cache'.stamp = Len(log) /\ cache'.events = log
      /\ cache'.projection # NoProjection => cache'.projection = FoldAsks(log)
  BY <1>1, CachedHoldsLog DEF LogInv
<1>3. log \in Seq(Event) /\ Len(log) \in Nat
  BY DEF LogInv, CacheInv
<1>4. CacheInv'
  BY <1>1, <1>2, <1>3 DEF CacheInv
<1>5. SentInv'
  BY <1>1 DEF LogInv, SentInv
<1> QED BY <1>4, <1>5 DEF LogInv

LEMMA RestartInv == ASSUME LogInv, Restart PROVE LogInv'
<1>1. log' = log /\ sent' = sent /\ cache' = [stamp |-> 0, events |-> <<>>, projection |-> NoProjection]
  BY DEF Restart, Uncached
<1>2. log \in Seq(Event)
  BY DEF LogInv, CacheInv
<1>3. Len(log) \in Nat /\ (Len(log) = 0 => log = <<>>)
  BY <1>2
<1>4. CacheInv'
  BY <1>1, <1>2, <1>3 DEF CacheInv
<1>5. SentInv'
  BY <1>1 DEF LogInv, SentInv
<1> QED BY <1>4, <1>5 DEF LogInv

LEMMA NextInv == ASSUME LogInv, [Next]_askVars PROVE LogInv'
<1>1. CASE UNCHANGED askVars
  BY <1>1 DEF askVars, LogInv, CacheInv, SentInv
<1> QED BY <1>1, WriteInv, ReadInv, DispatchInv, ConsumeInv, RestartInv DEF Next

(* The memo is tied to the file and what was sent to what is staged, after *)
(* any writes, failed flushes, reads, dispatches, consumptions and restarts *)
(* of the ask log store.                                                   *)
THEOREM LogInductive == Spec => []LogInv
BY InitInv, NextInv, PTL DEF Spec

(* Whatever writes failed or were lost with the process, a read of the     *)
(* store (ask-log-store.ts) is the fold of the whole durable log.          *)
THEOREM FoldRead == Spec => []ReadsAreFold
<1>1. LogInv => ReadsAreFold
  BY CachedHoldsLog DEF LogInv, ReadsAreFold
<1> QED BY <1>1, LogInductive, PTL

(* In every state of the log, the receipt of every command takes the       *)
(* projection back exactly (receiptFor), but for the two commands that *)
(* overwrite what the retired ledger or the draft held.                    *)
THEOREM UndoOutsideLedger == Spec => []ReceiptUndoesOutsideLedger
<1>1. LogInv => ReceiptUndoesOutsideLedger
  <2> SUFFICES ASSUME LogInv, NEW e \in Commands(FoldAsks(log))
               PROVE  LET p == FoldAsks(log) IN
                      \/ e.kind = "retire" /\ e.key \in DOMAIN p.retired
                      \/ e.kind = "restore" /\ e.key \in DOMAIN p.staged \cap DOMAIN p.retired
                      \/ Undoes(e, p)
    BY DEF ReceiptUndoesOutsideLedger
  <2>1. FoldAsks(log) \in Projection
    BY EmptyTyped, FoldTyped DEF LogInv, CacheInv, FoldAsks
  <2>2. e \in Event
    BY <2>1, CommandsAreEvents
  <2> QED BY <2>1, <2>2, UndoExact
<1> QED BY <1>1, LogInductive, PTL

(* A consumption removes no ask but those whose occurrence is current.     *)
LEMMA UnstageLeaves ==
  ASSUME LogInv, ConsumeOccurrences, NEW a,
         a \in DOMAIN FoldAsks(log).staged, a \notin DOMAIN FoldAsks(log').staged
  PROVE  \E o \in CurrentOccurrences : o.ask = a
<1> SUFFICES ASSUME \A o \in CurrentOccurrences : o.ask # a PROVE FALSE
  OBVIOUS
<1>1. PICK events \in Seq(Unstagings) : log' = log \o events
  BY ConsumeAppends
<1>2. Unstagings \subseteq Event /\ CacheInv'
  BY ConsumeAppends
<1>3. log \in Seq(Event) /\ log' \in Seq(Event)
  BY <1>2 DEF LogInv, CacheInv
<1> DEFINE S == {x \in RevState : a \in DOMAIN x.p.staged}
<1>4. RevisedAll(log) \in S
  BY <1>3, RevisedAllTyped, RevisedAllFolds
<1>5. ASSUME NEW x \in S, NEW e \in Unstagings PROVE Revised(x, e) \in S
  <2>1. x \in RevState /\ a \in DOMAIN x.p.staged /\ e \in Event
    BY <1>2
  <2>2. e.kind = "unstage" /\ e.key # a
    BY DEF Unstagings, Plain
  <2>3. Revised(x, e).p = [x.p EXCEPT !.staged = Without(@, e.key)]
    BY <2>2 DEF Revised, Applied
  <2>4. x.p \in Projection
    BY <2>1 DEF RevState
  <2>5. Revised(x, e).p.staged = Without(x.p.staged, e.key)
    BY <2>3, <2>4 DEF Projection
  <2>6. a \in DOMAIN Revised(x, e).p.staged
    BY <2>1, <2>2, <2>5 DEF Without, Restrict
  <2> QED BY <2>1, <2>6, RevisedTyped
<1> HIDE DEF S
<1>6. RevisedAll(log \o events) \in S
  BY <1>2, <1>3, <1>4, <1>5, RevisedPreserves
<1> QED BY <1>1, <1>3, <1>6, RevisedAllFolds DEF S

(* Every ask consumeCurrentAskOccurrences takes off the draft is, word for *)
(* word, one the round was sent, whatever happened to it in between.       *)
THEOREM ConsumptionAsSent == Spec => ConsumedAsSent
<1>1. ASSUME LogInv, ConsumeOccurrences,
             NEW a \in DOMAIN FoldAsks(log).staged \ DOMAIN FoldAsks(log').staged
      PROVE  \E o \in sent : o.ask = a /\ o.body = FoldAsks(log).staged[a]
  <2>1. PICK o \in CurrentOccurrences : o.ask = a
    BY <1>1, UnstageLeaves
  <2>2. log \in Seq(Event)
    BY <1>1 DEF LogInv, CacheInv
  <2>3. o \in sent /\ o.ask \in DOMAIN RevisedAll(log).revs /\ RevisedAll(log).revs[o.ask] = o.rev
    BY <2>2, ActiveState DEF CurrentOccurrences
  <2>4. Sound(o, RevisedAll(log))
    BY <1>1, <2>3 DEF LogInv, SentInv
  <2>5. RevisedAll(log).p.staged[a] = o.body
    BY <2>1, <2>3, <2>4 DEF Sound
  <2> QED BY <2>1, <2>2, <2>3, <2>5, RevisedAllFolds
<1>2. LogInv /\ [Next]_askVars =>
        [ConsumeOccurrences =>
           \A a \in DOMAIN FoldAsks(log).staged \ DOMAIN FoldAsks(log').staged :
             \E o \in sent : o.ask = a /\ o.body = FoldAsks(log).staged[a]]_askVars
  BY <1>1
<1> QED BY <1>2, LogInductive, PTL DEF Spec, ConsumedAsSent
=============================================================================
