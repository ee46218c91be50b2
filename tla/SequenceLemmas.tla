----------------------------- MODULE SequenceLemmas -----------------------------
(***************************************************************************)
(* Facts about numbers and sequences that the proofs of this project share *)
(* and the library does not have.  Induction over data is by the least     *)
(* counterexample: were there a number at which a statement fails, there   *)
(* would be a least one, and the step before it tells that it holds there. *)
(***************************************************************************)
EXTENDS Integers, Sequences, WellFoundedInduction, TLAPS

--------------------------------------------------------------------------------
(* A set of naturals has a least element.                                   *)
LEMMA LeastNatural ==
    ASSUME NEW T, T \subseteq Nat, T # {}
    PROVE  \E x \in T : \A y \in T : x <= y
<1> DEFINE less == {ss \in Nat \X Nat : ss[1] < ss[2]}
<1>1. IsWellFoundedOn(OpToRel(<, Nat), Nat)
  BY NatLessThanWellFounded
<1>2. OpToRel(<, Nat) = less
  BY DEF OpToRel
<1>3. IsWellFoundedOn(less, Nat)
  BY <1>1, <1>2
<1> HIDE DEF less
<1>4. PICK x \in T : \A y \in T : ~ (<<y, x>> \in less)
  BY <1>3, WFMin
<1>5. \A y \in T : ~(y < x)
  BY <1>4 DEF less
<1> QED
  BY <1>4, <1>5

(* What fails somewhere up to N, and not at 0, fails at a place behind one where it holds. *)
LEMMA FirstFailure ==
    ASSUME NEW N \in Nat, NEW B, B \subseteq 0..N, B # {}, 0 \notin B
    PROVE  \E k \in B : k \in 1..N /\ k - 1 \in 0..N /\ k - 1 \notin B
<1>1. B \subseteq Nat
  OBVIOUS
<1>2. PICK k \in B : \A l \in B : k <= l
  BY <1>1, LeastNatural
<1>3. k \in 0..N /\ k # 0
  OBVIOUS
<1>4. k \in 1..N /\ k - 1 \in 0..N /\ ~(k <= k - 1)
  BY <1>3
<1> QED
  BY <1>2, <1>4

LEMMA InSeq == ASSUME NEW S, NEW s \in Seq(S) PROVE Len(s) \in Nat /\ \A i \in 1..Len(s) : s[i] \in S
  OBVIOUS

(* Taken step by step from where it starts, a path has a value after every step.       *)
Steps(step, N, start, S) == N \in Nat /\ start \in S /\ step \in [1..N -> [S -> S]]
Path(f, step, N, start, S) ==
    f \in [0..N -> S] /\ f[0] = start /\ \A n \in 1..N : f[n] = step[n][f[n - 1]]

LEMMA PathExists ==
    ASSUME NEW S, NEW start, NEW N, NEW step, Steps(step, N, start, S)
    PROVE  \E f : Path(f, step, N, start, S)
<1> USE DEF Steps, Path
<1> DEFINE Bad == {k \in 0..N : ~ \E f : Path(f, step, k, start, S)}
<1>1. SUFFICES ASSUME Bad # {} PROVE FALSE
  <2>1. N \in 0..N
    OBVIOUS
  <2> QED
    BY <1>1, <2>1
<1>2. 0 \notin Bad
  <2>1. Path([n \in 0..0 |-> start], step, 0, start, S)
    OBVIOUS
  <2> QED
    BY <2>1
<1>3. PICK k \in Bad : k \in 1..N /\ k - 1 \in 0..N /\ k - 1 \notin Bad
  <2>1. Bad \subseteq 0..N
    OBVIOUS
  <2> HIDE DEF Bad
  <2> QED
    BY <1>1, <1>2, <2>1, FirstFailure
<1>4. PICK f : Path(f, step, k - 1, start, S)
  BY <1>3
<1> DEFINE g == [n \in 0..k |-> IF n = k THEN step[k][f[k - 1]] ELSE f[n]]
<1>5. g \in [0..k -> S]
  BY <1>3, <1>4
<1>6. g[0] = start
  BY <1>3, <1>4
<1>7. \A n \in 1..k : g[n] = step[n][g[n - 1]]
  BY <1>3, <1>4
<1>8. Path(g, step, k, start, S)
  BY <1>5, <1>6, <1>7
<1> QED
  BY <1>3, <1>8

--------------------------------------------------------------------------------
(* s occurs in t, in its order: each element has a place of its own.        *)
Embeds(f, s, t) ==
    /\ f \in [DOMAIN s -> DOMAIN t]
    /\ \A i, j \in DOMAIN s : i < j => f[i] < f[j]
    /\ \A i \in DOMAIN s : t[f[i]] = s[i]
Embedded(s, t) == \E f : Embeds(f, s, t)

(* An embedding stays one when the longer sequence grows, and grows with it. *)
LEMMA EmptyEmbedded == ASSUME NEW t PROVE Embedded(<<>>, t)
<1>1. DOMAIN <<>> = {}
  OBVIOUS
<1>2. Embeds([i \in {} |-> i], <<>>, t)
  BY <1>1 DEF Embeds
<1> QED
  BY <1>2 DEF Embedded

LEMMA EmbeddedInLonger ==
    ASSUME NEW S, NEW s \in Seq(S), NEW t \in Seq(S), NEW x \in S, Embedded(s, t)
    PROVE  Embedded(s, Append(t, x))
<1>1. PICK f : Embeds(f, s, t)
  BY DEF Embedded
<1>2. /\ DOMAIN t \subseteq DOMAIN Append(t, x)
      /\ \A i \in DOMAIN t : Append(t, x)[i] = t[i]
  OBVIOUS
<1>3. Embeds(f, s, Append(t, x))
  BY <1>1, <1>2 DEF Embeds
<1> QED
  BY <1>3 DEF Embedded

LEMMA EmbeddedExtends ==
    ASSUME NEW S, NEW s \in Seq(S), NEW t \in Seq(S), NEW x \in S, Embedded(s, t)
    PROVE  Embedded(Append(s, x), Append(t, x))
<1>1. PICK f : Embeds(f, s, t)
  BY DEF Embedded
<1>2. /\ DOMAIN t = 1..Len(t) /\ Len(t) \in Nat /\ DOMAIN Append(t, x) = 1..(Len(t) + 1)
      /\ Append(t, x)[Len(t) + 1] = x /\ \A i \in DOMAIN t : Append(t, x)[i] = t[i]
  OBVIOUS
<1>3. /\ DOMAIN s = 1..Len(s) /\ Len(s) \in Nat /\ DOMAIN Append(s, x) = 1..(Len(s) + 1)
      /\ Append(s, x)[Len(s) + 1] = x /\ \A i \in DOMAIN s : Append(s, x)[i] = s[i]
  OBVIOUS
<1> DEFINE g == [i \in 1..(Len(s) + 1) |-> IF i = Len(s) + 1 THEN Len(t) + 1 ELSE f[i]]
<1>4. /\ g[Len(s) + 1] = Len(t) + 1 /\ DOMAIN g = 1..(Len(s) + 1)
      /\ \A i \in DOMAIN s : g[i] = f[i] /\ f[i] \in DOMAIN t
  BY <1>1, <1>3 DEF Embeds
<1>5. \A i \in 1..(Len(s) + 1) : i = Len(s) + 1 \/ (i \in DOMAIN s /\ i # Len(s) + 1)
  BY <1>3
<1>6. g \in [DOMAIN Append(s, x) -> DOMAIN Append(t, x)]
  <2>1. \A i \in 1..(Len(s) + 1) : g[i] \in 1..(Len(t) + 1)
    <3> HIDE DEF g
    <3> QED
      BY <1>2, <1>4, <1>5
  <2> QED
    BY <1>2, <1>3, <2>1
<1> HIDE DEF g
<1>7. ASSUME NEW i \in DOMAIN Append(s, x), NEW j \in DOMAIN Append(s, x), i < j
      PROVE  g[i] < g[j]
  <2>1. i \in DOMAIN s
    BY <1>3, <1>7
  <2>2. CASE j = Len(s) + 1
    BY <1>2, <1>4, <2>1, <2>2
  <2>3. CASE j \in DOMAIN s
    BY <1>1, <1>4, <1>7, <2>1, <2>3 DEF Embeds
  <2> QED
    BY <1>3, <1>5, <2>2, <2>3
<1>8. \A i \in DOMAIN Append(s, x) : Append(t, x)[g[i]] = Append(s, x)[i]
  <2>1. \A i \in DOMAIN s : Append(t, x)[g[i]] = Append(s, x)[i]
    BY <1>1, <1>2, <1>3, <1>4 DEF Embeds
  <2> QED
    BY <1>2, <1>3, <1>4, <1>5, <2>1
<1>9. Embeds(g, Append(s, x), Append(t, x))
  BY <1>6, <1>7, <1>8 DEF Embeds
<1> QED
  BY <1>9 DEF Embedded
================================================================================
