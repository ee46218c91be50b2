----------------------------- MODULE RequestProofs -----------------------------
(***************************************************************************)
(* Theorems about what goes to a model and what comes back.                *)
(*                                                                         *)
(* About Compaction, for any thresholds, windows and sizes of texts:       *)
(* compression keeps a call and its results together, and a request that   *)
(* was not warned of fits.                                                 *)
(*                                                                         *)
(* About Streams, for any length of an answer, any provider and any cut of *)
(* the bytes into frames and reads: each text is shown once and in its     *)
(* place, and the message of the turn is what was said.                    *)
(*                                                                         *)
(* The variables of both keep their types, within the bounds of the code.  *)
(***************************************************************************)
EXTENDS Compaction, Streams, SequenceLemmas, FiniteSetTheorems, SequenceTheorems, TLAPS

Role == {"user", "asst", "call", "tool"}
MessageType == [role : Role, tokens : Nat, results : Nat]

(* The sums of the tokens up to each message. *)
SumsUp(f, msgs) ==
    /\ f \in [0..Len(msgs) -> Nat] /\ f[0] = 0
    /\ \A n \in 1..Len(msgs) : f[n] = f[n - 1] + msgs[n].tokens

LEMMA TokensSum ==
    ASSUME NEW msgs \in Seq(MessageType)
    PROVE  \E f : SumsUp(f, msgs) /\ Tokens(msgs) = f[Len(msgs)]
<1> DEFINE N == Len(msgs)
           Sums(sum) == sum = [n \in 0..N |-> IF n = 0 THEN 0 ELSE sum[n - 1] + msgs[n].tokens]
           sum == CHOOSE sum : Sums(sum)
           step == [n \in 1..N |-> [t \in Nat |-> t + msgs[n].tokens]]
<1>1. Tokens(msgs) = sum[N]
  BY DEF Tokens
<1>2. N \in Nat /\ \A n \in 1..N : msgs[n].tokens \in Nat
  <2>1. Len(msgs) \in Nat /\ \A n \in 1..Len(msgs) : msgs[n] \in MessageType
    BY InSeq
  <2> QED
    BY <2>1 DEF MessageType
<1>3. Steps(step, N, 0, Nat)
  BY <1>2 DEF Steps
<1>4. PICK f : Path(f, step, N, 0, Nat)
  <2> HIDE DEF N, step
  <2> QED
    BY <1>3, PathExists
<1>5. \A n \in 1..N : f[n] = f[n - 1] + msgs[n].tokens
  <2> TAKE n \in 1..N
  <2>1. f[n - 1] \in Nat
    <3>1. n - 1 \in 0..N
      BY <1>2
    <3> QED
      BY <1>4, <3>1 DEF Path
  <2>2. step[n][f[n - 1]] = f[n - 1] + msgs[n].tokens
    BY <2>1
  <2> QED
    BY <1>4, <2>2 DEF Path
<1>6. Sums(f)
  BY <1>2, <1>4, <1>5 DEF Path
<1>7. Sums(sum)
  <2> HIDE DEF Sums
  <2> QED
    BY <1>6
<1>8. sum[0] = 0 /\ DOMAIN sum = 0..N /\ \A n \in 1..N : sum[n] = sum[n - 1] + msgs[n].tokens
  <2> HIDE DEF sum
  <2> QED
    BY <1>2, <1>7
<1> HIDE DEF sum, Sums, step
<1>9. \A n \in 0..N : sum[n] = f[n]
  <2> DEFINE Bad == {n \in 0..N : sum[n] # f[n]}
  <2>1. SUFFICES ASSUME Bad # {} PROVE FALSE
    OBVIOUS
  <2>2. 0 \notin Bad /\ Bad \subseteq 0..N
    BY <1>4, <1>8 DEF Path
  <2>3. PICK k \in Bad : k \in 1..N /\ k - 1 \in 0..N /\ k - 1 \notin Bad
    <3> HIDE DEF Bad
    <3> QED
      BY <1>2, <2>1, <2>2, FirstFailure
  <2>4. sum[k - 1] = f[k - 1]
    BY <2>3
  <2> QED
    BY <1>5, <1>8, <2>3, <2>4
<1> QED
  BY <1>1, <1>2, <1>4, <1>5, <1>9 DEF SumsUp, Path

(* Where the messages of one are no heavier than those of another, nor are the sums. *)
LEMMA SumsCompare ==
    ASSUME NEW s \in Seq(MessageType), NEW t \in Seq(MessageType), NEW f, NEW g,
           SumsUp(f, s), SumsUp(g, t), NEW k \in Nat, k <= Len(s), k <= Len(t),
           \A i \in 1..k : s[i].tokens <= t[i].tokens
    PROVE  \A n \in 0..k : f[n] <= g[n]
<1> DEFINE Bad == {n \in 0..k : ~(f[n] <= g[n])}
<1>1. SUFFICES ASSUME Bad # {} PROVE FALSE
  OBVIOUS
<1>2. 0 \notin Bad /\ Bad \subseteq 0..k
  BY DEF SumsUp
<1>3. PICK n \in Bad : n \in 1..k /\ n - 1 \in 0..k /\ n - 1 \notin Bad
  <2> HIDE DEF Bad
  <2> QED
    BY <1>1, <1>2, FirstFailure
<1>4. /\ Len(s) \in Nat /\ Len(t) \in Nat /\ n \in 1..Len(s) /\ n \in 1..Len(t)
      /\ n - 1 \in 0..Len(s) /\ n - 1 \in 0..Len(t)
  BY <1>3
<1>5. f[n - 1] <= g[n - 1]
  BY <1>3
<1>6. s[n].tokens \in Nat /\ t[n].tokens \in Nat /\ s[n].tokens <= t[n].tokens
  <2>1. s[n] \in MessageType /\ t[n] \in MessageType
    BY <1>4, InSeq
  <2> QED
    BY <1>3, <2>1 DEF MessageType
<1>7. f[n - 1] \in Nat /\ g[n - 1] \in Nat
  BY <1>4 DEF SumsUp
<1>8. f[n] = f[n - 1] + s[n].tokens /\ g[n] = g[n - 1] + t[n].tokens
  BY <1>4 DEF SumsUp
<1> QED
  BY <1>5, <1>6, <1>7, <1>8

LEMMA TokensNat == ASSUME NEW s \in Seq(MessageType) PROVE Tokens(s) \in Nat
<1>1. PICK f : SumsUp(f, s) /\ Tokens(s) = f[Len(s)]
  BY TokensSum
<1> QED
  BY <1>1 DEF SumsUp

LEMMA TokensMonotone ==
    ASSUME NEW s \in Seq(MessageType), NEW t \in Seq(MessageType), Len(s) = Len(t),
           \A i \in 1..Len(s) : s[i].tokens <= t[i].tokens
    PROVE  Tokens(s) <= Tokens(t)
<1>1. PICK f : SumsUp(f, s) /\ Tokens(s) = f[Len(s)]
  BY TokensSum
<1>2. PICK g : SumsUp(g, t) /\ Tokens(t) = g[Len(t)]
  BY TokensSum
<1>3. \A n \in 0..Len(s) : f[n] <= g[n]
  BY <1>1, <1>2, SumsCompare
<1> QED
  BY <1>1, <1>2, <1>3

LEMMA TokensAppend ==
    ASSUME NEW s \in Seq(MessageType), NEW m \in MessageType
    PROVE  Tokens(Append(s, m)) = Tokens(s) + m.tokens
<1> DEFINE t == Append(s, m)
           N == Len(s)
<1>1. /\ t \in Seq(MessageType) /\ N \in Nat /\ Len(t) = N + 1 /\ t[N + 1] = m
      /\ \A i \in 1..N : t[i] = s[i] /\ s[i].tokens \in Nat
  <2>1. \A i \in 1..N : s[i] \in MessageType
    OBVIOUS
  <2>2. \A x \in MessageType : x.tokens \in Nat
    BY DEF MessageType
  <2> QED
    BY <2>1, <2>2
<1>2. PICK f : SumsUp(f, s) /\ Tokens(s) = f[N]
  BY TokensSum
<1> HIDE DEF t, N
<1>3. PICK g : SumsUp(g, t) /\ Tokens(t) = g[N + 1]
  BY <1>1, TokensSum
<1>4. \A i \in 1..N : s[i].tokens <= t[i].tokens /\ t[i].tokens <= s[i].tokens
  BY <1>1
<1>5. f[N] <= g[N] /\ g[N] <= f[N]
  <2>1. N = Len(s)
    BY DEF N
  <2>2. \A n \in 0..N : f[n] <= g[n]
    BY <1>1, <1>2, <1>3, <1>4, <2>1, SumsCompare
  <2>3. \A n \in 0..N : g[n] <= f[n]
    BY <1>1, <1>2, <1>3, <1>4, <2>1, SumsCompare
  <2> QED
    BY <1>1, <2>2, <2>3
<1>6. f[N] \in Nat /\ g[N] \in Nat
  BY <1>1, <1>2, <1>3 DEF SumsUp, N
<1>7. g[N + 1] = g[N] + m.tokens
  BY <1>1, <1>3 DEF SumsUp
<1> QED
  BY <1>2, <1>3, <1>5, <1>6, <1>7 DEF t

LEMMA MinIs ==
    ASSUME NEW T, T \subseteq Nat, T # {}
    PROVE  Min(T) \in T /\ \A y \in T : Min(T) <= y
  BY LeastNatural DEF Min

LEMMA MaxIs ==
    ASSUME NEW N \in Nat, NEW T, T \subseteq 0..N, T # {}
    PROVE  Max(T) \in T /\ \A y \in T : y <= Max(T)
<1> DEFINE U == {N - x : x \in T}
<1>1. U \subseteq Nat /\ U # {}
  <2>1. \A x \in T : N - x \in Nat
    OBVIOUS
  <2> QED
    BY <2>1
<1>2. PICK u \in U : \A v \in U : u <= v
  <2> HIDE DEF U
  <2> QED
    BY <1>1, LeastNatural
<1>3. PICK x \in T : u = N - x
  OBVIOUS
<1>4. \A y \in T : x >= y
  <2> TAKE y \in T
  <2>1. N - y \in U /\ x \in 0..N /\ y \in 0..N
    OBVIOUS
  <2>2. N - x <= N - y
    BY <1>2, <1>3, <2>1
  <2> QED
    BY <2>1, <2>2
<1>5. Max(T) \in T /\ \A y \in T : Max(T) >= y
  <2> HIDE DEF U
  <2> QED
    BY <1>4 DEF Max
<1>6. \A y \in T : y \in Int
  OBVIOUS
<1> QED
  BY <1>5, <1>6

--------------------------------------------------------------------------------
(* Clipping lightens results, and changes nothing else of the messages.              *)
SameShape(s, t) ==
    /\ Len(s) = Len(t)
    /\ \A i \in 1..Len(s) : s[i].role = t[i].role /\ s[i].results = t[i].results

LEMMA ClipLightens ==
    ASSUME NEW msgs \in Seq(MessageType)
    PROVE  /\ Clip(msgs) \in Seq(MessageType) /\ SameShape(msgs, Clip(msgs))
           /\ Tokens(Clip(msgs)) <= Tokens(msgs)
<1>1. PICK n : Clip(msgs) = ClipLargest(msgs, n)
  BY DEF Clip
<1> DEFINE t == ClipLargest(msgs, n)
           N == Len(msgs)
<1>2. N \in Nat /\ DOMAIN msgs = 1..N /\ \A i \in 1..N : msgs[i] \in MessageType
  BY InSeq
<1>3. \A i \in 1..N : t[i] = msgs[i] \/ (i \in Oversized(msgs) /\ t[i] = ClipOne(msgs[i]))
  BY <1>2 DEF ClipLargest
<1>4. DOMAIN t = 1..N
  BY <1>2 DEF ClipLargest
<1> HIDE DEF t, N
<1>5. ASSUME NEW i \in 1..N
      PROVE  /\ t[i] \in MessageType /\ t[i].tokens <= msgs[i].tokens
             /\ t[i].role = msgs[i].role /\ t[i].results = msgs[i].results
  <2>1. msgs[i] \in MessageType
    BY <1>2
  <2>2. CASE t[i] = msgs[i]
    BY <2>1, <2>2 DEF MessageType
  <2>3. CASE i \in Oversized(msgs) /\ t[i] = ClipOne(msgs[i])
    <3>1. msgs[i].tokens > ClipAbove
      BY <2>3 DEF Oversized
    <3>2. ClippedTo \in Nat /\ ClipAbove \in Nat /\ ClippedTo <= ClipAbove
      BY CompactionAssumption
    <3> DEFINE m == msgs[i]
    <3>3. m \in MessageType /\ t[i] = [m EXCEPT !.tokens = ClippedTo]
      BY <2>1, <2>3 DEF ClipOne
    <3> HIDE DEF m
    <3>4. /\ t[i] \in MessageType /\ t[i].tokens = ClippedTo
          /\ t[i].role = m.role /\ t[i].results = m.results /\ m.tokens \in Nat
      BY <3>2, <3>3 DEF MessageType
    <3> QED
      BY <3>1, <3>2, <3>4 DEF m
  <2> QED
    BY <1>3, <2>2, <2>3
<1>6. t \in Seq(MessageType) /\ Len(t) = N
  <2>1. t = [i \in 1..N |-> t[i]]
    BY <1>4 DEF t, ClipLargest
  <2> QED
    BY <1>2, <1>4, <1>5, <2>1
<1>7. SameShape(msgs, t)
  BY <1>5, <1>6 DEF SameShape, N
<1>8. Tokens(t) <= Tokens(msgs)
  <2>1. \A i \in 1..Len(t) : t[i].tokens <= msgs[i].tokens
    BY <1>5, <1>6
  <2> QED
    BY <1>6, <2>1, TokensMonotone DEF N
<1> QED
  BY <1>1, <1>6, <1>7, <1>8 DEF t

--------------------------------------------------------------------------------
(* What Keep keeps: each message that is not dropped has the next place.              *)
KeptPlaces(pos, msgs, dropped, kept) ==
    /\ pos \in [0..Len(msgs) -> Nat] /\ pos[0] = 0 /\ pos[Len(msgs)] = Len(kept)
    /\ \A n \in 1..Len(msgs) :
          IF n \in dropped THEN pos[n] = pos[n - 1]
          ELSE pos[n] = pos[n - 1] + 1 /\ kept[pos[n]] = msgs[n]

LEMMA KeepHasPlaces ==
    ASSUME NEW msgs \in Seq(MessageType), NEW dropped
    PROVE  /\ Keep(msgs, dropped) \in Seq(MessageType)
           /\ \E pos : KeptPlaces(pos, msgs, dropped, Keep(msgs, dropped))
<1> DEFINE N == Len(msgs)
           NothingLost(kept) == kept = [n \in 0..N |->
              IF n = 0 THEN <<>> ELSE IF n \in dropped THEN kept[n - 1] ELSE Append(kept[n - 1], msgs[n])]
           kept == CHOOSE kept : NothingLost(kept)
           M == Seq(MessageType)
           step == [n \in 1..N |-> [q \in M |-> IF n \in dropped THEN q ELSE Append(q, msgs[n])]]
<1>1. Keep(msgs, dropped) = kept[N]
  BY DEF Keep
<1>2. N \in Nat /\ \A n \in 1..N : msgs[n] \in MessageType
  BY InSeq
<1>3. Steps(step, N, <<>>, M)
  <2>1. \A n \in 1..N : \A q \in M : Append(q, msgs[n]) \in M
    BY <1>2
  <2> QED
    BY <1>2, <2>1 DEF Steps
<1>4. PICK f : Path(f, step, N, <<>>, M)
  <2> HIDE DEF N, step, M
  <2> QED
    BY <1>3, PathExists
<1>5. ASSUME NEW n \in 1..N
      PROVE  /\ f[n - 1] \in M /\ f[n] \in M
             /\ f[n] = IF n \in dropped THEN f[n - 1] ELSE Append(f[n - 1], msgs[n])
  <2>1. n - 1 \in 0..N /\ n \in 0..N
    BY <1>2
  <2>2. f[n - 1] \in M /\ f[n] \in M
    BY <1>4, <2>1 DEF Path
  <2>3. step[n][f[n - 1]] = IF n \in dropped THEN f[n - 1] ELSE Append(f[n - 1], msgs[n])
    BY <2>2
  <2> QED
    BY <1>4, <2>2, <2>3 DEF Path
<1>6. f \in [0..N -> M] /\ f[0] = <<>>
  BY <1>4 DEF Path
<1>7. NothingLost(f)
  <2> DEFINE val(n) == IF n = 0 THEN <<>>
                       ELSE IF n \in dropped THEN f[n - 1] ELSE Append(f[n - 1], msgs[n])
  <2>1. \A n \in 0..N : f[n] = val(n)
    <3> TAKE n \in 0..N
    <3>1. n = 0 \/ (n \in 1..N /\ n # 0)
      BY <1>2
    <3> HIDE DEF M, step, N
    <3>2. CASE n = 0
      BY <1>6, <3>2
    <3>3. CASE n \in 1..N /\ n # 0
      BY <1>5, <3>3
    <3> QED
      BY <3>1, <3>2, <3>3
  <2>2. f = [n \in 0..N |-> f[n]]
    BY <1>6
  <2> HIDE DEF M, step, val
  <2>3. f = [n \in 0..N |-> val(n)]
    BY <2>1, <2>2
  <2> QED
    BY <2>3 DEF val
<1>8. NothingLost(kept)
  <2> HIDE DEF NothingLost
  <2> QED
    BY <1>7
<1>9. /\ kept[0] = <<>>
      /\ \A n \in 1..N :
            kept[n] = IF n \in dropped THEN kept[n - 1] ELSE Append(kept[n - 1], msgs[n])
  <2> HIDE DEF kept, M, step
  <2>1. 0 \in 0..N /\ \A n \in 1..N : n \in 0..N /\ n # 0
    BY <1>2
  <2> QED
    BY <1>8, <2>1
<1> HIDE DEF kept, NothingLost, step, M
<1>10. kept[N] = f[N]
  <2> DEFINE Bad == {n \in 0..N : kept[n] # f[n]}
  <2>1. SUFFICES ASSUME Bad # {} PROVE FALSE
    BY <1>2
  <2>2. 0 \notin Bad /\ Bad \subseteq 0..N
    BY <1>6, <1>9
  <2>3. PICK k \in Bad : k \in 1..N /\ k - 1 \in 0..N /\ k - 1 \notin Bad
    <3> HIDE DEF Bad
    <3> QED
      BY <1>2, <2>1, <2>2, FirstFailure
  <2>4. kept[k - 1] = f[k - 1]
    BY <2>3
  <2> QED
    BY <1>5, <1>9, <2>3, <2>4
<1> DEFINE pos == [n \in 0..N |-> Len(f[n])]
<1>11. \A n \in 0..N : f[n] \in M /\ Len(f[n]) \in Nat
  BY <1>6 DEF M
<1>12. ASSUME NEW n \in 1..N, n \notin dropped
       PROVE  f[N][Len(f[n])] = msgs[n]
  <2> DEFINE Same(k) == Len(f[n]) <= Len(f[k]) /\ f[k][Len(f[n])] = msgs[n]
             Bad == {k \in 0..N : n <= k /\ ~Same(k)}
  <2>0. n \in 0..N /\ N \in 0..N /\ n \in Nat /\ 1 <= n /\ n <= N
    BY <1>2
  <2>1. Same(n) /\ Len(f[n]) >= 1
    <3>1. f[n - 1] \in Seq(MessageType) /\ msgs[n] \in MessageType
      BY <1>2, <1>5 DEF M
    <3>2. f[n] = Append(f[n - 1], msgs[n])
      BY <1>5, <1>12
    <3> QED
      BY <3>1, <3>2
  <2>2. SUFFICES ASSUME Bad # {} PROVE FALSE
    BY <2>0
  <2>3. 0 \notin Bad /\ Bad \subseteq 0..N
    BY <2>0
  <2>4. PICK k \in Bad : k \in 1..N /\ k - 1 \in 0..N /\ k - 1 \notin Bad
    <3> HIDE DEF Bad
    <3> QED
      BY <1>2, <2>2, <2>3, FirstFailure
  <2>5. k # n /\ n <= k
    BY <2>1, <2>4
  <2>6. n <= k - 1
    BY <2>0, <2>4, <2>5
  <2>7. Same(k - 1)
    BY <2>4, <2>6
  <2>8. Same(k)
    <3>1. f[k - 1] \in Seq(MessageType) /\ msgs[k] \in MessageType /\ Len(f[n]) \in Nat
      BY <1>2, <1>11, <2>0, <2>4 DEF M
    <3>2. f[k] = f[k - 1] \/ f[k] = Append(f[k - 1], msgs[k])
      BY <1>5, <2>4
    <3>3. CASE f[k] = f[k - 1]
      BY <2>7, <3>3
    <3>4. CASE f[k] = Append(f[k - 1], msgs[k])
      BY <2>1, <2>7, <3>1, <3>4
    <3> QED
      BY <3>2, <3>3, <3>4
  <2> QED
    BY <2>4, <2>8
<1>13. KeptPlaces(pos, msgs, dropped, f[N])
  <2>1. pos \in [0..N -> Nat] /\ pos[0] = 0 /\ pos[N] = Len(f[N])
    BY <1>2, <1>6, <1>11
  <2>2. ASSUME NEW n \in 1..N, n \in dropped PROVE pos[n] = pos[n - 1]
    BY <1>2, <1>5, <2>2
  <2>3. ASSUME NEW n \in 1..N, n \notin dropped
        PROVE  pos[n] = pos[n - 1] + 1 /\ f[N][pos[n]] = msgs[n]
    <3>1. n \in 0..N /\ n - 1 \in 0..N
      BY <1>2
    <3>2. Len(f[n]) = Len(f[n - 1]) + 1
      <4>1. f[n - 1] \in Seq(MessageType) /\ msgs[n] \in MessageType
        BY <1>2, <1>5 DEF M
      <4>2. f[n] = Append(f[n - 1], msgs[n])
        BY <1>5, <2>3
      <4> QED
        BY <4>1, <4>2
    <3> QED
      BY <1>12, <2>3, <3>1, <3>2
  <2> HIDE DEF pos
  <2> QED
    BY <2>1, <2>2, <2>3 DEF KeptPlaces
<1> QED
  BY <1>1, <1>2, <1>10, <1>11, <1>13 DEF M

LEMMA PlacesInOrder ==
    ASSUME NEW msgs \in Seq(MessageType), NEW dropped, NEW kept \in Seq(MessageType),
           NEW pos, KeptPlaces(pos, msgs, dropped, kept)
    PROVE  /\ \A i, j \in 0..Len(msgs) : i <= j => pos[i] <= pos[j]
           /\ \A i \in 0..Len(msgs), n \in 1..Len(msgs) :
                 i < n /\ n \notin dropped => pos[i] < pos[n]
<1> DEFINE N == Len(msgs)
<1>1. /\ N \in Nat /\ pos \in [0..N -> Nat]
      /\ \A n \in 1..N : pos[n] = pos[n - 1] \/ pos[n] = pos[n - 1] + 1
      /\ \A n \in 1..N : n \notin dropped => pos[n] = pos[n - 1] + 1
  BY DEF KeptPlaces
<1> HIDE DEF N
<1>2. ASSUME NEW i \in 0..N, NEW j \in 0..N, i <= j PROVE pos[i] <= pos[j]
  <2> DEFINE Bad == {k \in 0..N : i <= k /\ ~(pos[i] <= pos[k])}
  <2>1. SUFFICES ASSUME Bad # {} PROVE FALSE
    BY <1>2
  <2>2. 0 \notin Bad /\ Bad \subseteq 0..N
    BY <1>1
  <2>3. PICK k \in Bad : k \in 1..N /\ k - 1 \in 0..N /\ k - 1 \notin Bad
    <3> HIDE DEF Bad
    <3> QED
      BY <1>1, <2>1, <2>2, FirstFailure
  <2>4. pos[i] \in Nat /\ pos[k] \in Nat /\ pos[k - 1] \in Nat
    BY <1>1, <2>3
  <2>5. k # i
    BY <2>3, <2>4
  <2>6. i <= k - 1
    BY <1>1, <2>3, <2>5
  <2>7. pos[i] <= pos[k - 1]
    BY <2>3, <2>6
  <2>8. pos[k] = pos[k - 1] \/ pos[k] = pos[k - 1] + 1
    BY <1>1, <2>3
  <2>9. ~(pos[i] <= pos[k])
    BY <2>3
  <2> HIDE DEF Bad
  <2> QED
    BY <2>4, <2>7, <2>8, <2>9
<1>3. ASSUME NEW i \in 0..N, NEW n \in 1..N, i < n, n \notin dropped PROVE pos[i] < pos[n]
  <2>1. n - 1 \in 0..N /\ i <= n - 1 /\ n \in 0..N
    BY <1>1, <1>3
  <2>2. pos[i] <= pos[n - 1] /\ pos[n] = pos[n - 1] + 1
    BY <1>1, <1>2, <1>3, <2>1
  <2> QED
    BY <1>1, <2>1, <2>2
<1> QED
  BY <1>2, <1>3 DEF N

LEMMA PlacesAreTaken ==
    ASSUME NEW msgs \in Seq(MessageType), NEW dropped, NEW kept \in Seq(MessageType),
           NEW pos, KeptPlaces(pos, msgs, dropped, kept), NEW p \in 1..Len(kept)
    PROVE  \E n \in 1..Len(msgs) : n \notin dropped /\ pos[n] = p /\ kept[p] = msgs[n]
<1> DEFINE N == Len(msgs)
           Bad == {k \in 0..N : p <= pos[k]}
<1>1. /\ N \in Nat /\ pos \in [0..N -> Nat] /\ pos[0] = 0 /\ pos[N] = Len(kept) /\ Len(kept) \in Nat
      /\ \A n \in 1..N : \/ n \in dropped /\ pos[n] = pos[n - 1]
                         \/ n \notin dropped /\ pos[n] = pos[n - 1] + 1 /\ kept[pos[n]] = msgs[n]
  BY DEF KeptPlaces
<1> HIDE DEF N
<1>2. 0 \notin Bad /\ Bad \subseteq 0..N /\ N \in Bad
  BY <1>1
<1>3. PICK k \in Bad : k \in 1..N /\ k - 1 \in 0..N /\ k - 1 \notin Bad
  <2> HIDE DEF Bad
  <2> QED
    BY <1>1, <1>2, FirstFailure
<1>4. pos[k] \in Nat /\ pos[k - 1] \in Nat /\ p <= pos[k] /\ ~(p <= pos[k - 1])
  BY <1>1, <1>3
<1>5. k \notin dropped /\ pos[k] = p /\ kept[pos[k]] = msgs[k]
  BY <1>1, <1>3, <1>4
<1> QED
  BY <1>3, <1>5 DEF N

(* Messages kept side by side stay side by side.                                       *)
StayTogether(pos, N, dropped) ==
    \A s \in 1..N : \A e \in s..N :
        (\A k \in (s + 1)..e : k \notin dropped) => \A k \in s..e : pos[k] = pos[s] + (k - s)
LEMMA PlacesTogether ==
    ASSUME NEW msgs \in Seq(MessageType), NEW dropped, NEW kept \in Seq(MessageType),
           NEW pos, KeptPlaces(pos, msgs, dropped, kept)
    PROVE  StayTogether(pos, Len(msgs), dropped)
<1> SUFFICES ASSUME NEW s \in 1..Len(msgs), NEW e \in s..Len(msgs),
                    \A k \in (s + 1)..e : k \notin dropped
             PROVE  \A k \in s..e : pos[k] = pos[s] + (k - s)
  BY DEF StayTogether
<1> DEFINE N == Len(msgs)
           Bad == {k \in 0..N : s <= k /\ k <= e /\ pos[k] # pos[s] + (k - s)}
<1>1. /\ N \in Nat /\ pos \in [0..N -> Nat] /\ s \in 1..N /\ e \in s..N
      /\ \A n \in 1..N : n \notin dropped => pos[n] = pos[n - 1] + 1
  BY DEF KeptPlaces
<1> HIDE DEF N
<1>2. SUFFICES ASSUME Bad # {} PROVE FALSE
  <2> SUFFICES ASSUME NEW k \in s..e PROVE pos[k] = pos[s] + (k - s)
    OBVIOUS
  <2>1. k \in 0..N /\ s <= k /\ k <= e
    BY <1>1
  <2>2. k \notin Bad
    <3> HIDE DEF Bad
    <3> QED
      BY <1>2
  <2> QED
    BY <2>1, <2>2
<1>3. 0 \notin Bad /\ Bad \subseteq 0..N
  BY <1>1
<1>4. PICK k \in Bad : k \in 1..N /\ k - 1 \in 0..N /\ k - 1 \notin Bad
  <2> HIDE DEF Bad
  <2> QED
    BY <1>1, <1>2, <1>3, FirstFailure
<1>5. pos[s] \in Nat
  BY <1>1
<1>6. k # s
  BY <1>1, <1>4, <1>5
<1>7. s <= k - 1 /\ k - 1 <= e /\ k \in (s + 1)..e
  BY <1>1, <1>4, <1>6
<1>8. pos[k - 1] = pos[s] + (k - 1 - s)
  BY <1>4, <1>7
<1>9. pos[k] = pos[k - 1] + 1
  BY <1>1, <1>4, <1>7
<1> QED
  BY <1>1, <1>4, <1>5, <1>8, <1>9

--------------------------------------------------------------------------------
(* GroupsWhole by position: behind a call stand the results that it was given and no  *)
(* more, and a result stands behind a call and results.                               *)
BehindCall(msgs, i) ==
    \E s \in 1..(i - 1) : msgs[s].role = "call" /\ \A k \in (s + 1)..i : msgs[k].role = "tool"
HasResults(msgs, s) ==
    /\ s + msgs[s].results <= Len(msgs)
    /\ \A k \in (s + 1)..(s + msgs[s].results) : msgs[k].role = "tool"
    /\ s + msgs[s].results < Len(msgs) => msgs[s + msgs[s].results + 1].role # "tool"
Blocked(msgs) ==
    \A i \in 1..Len(msgs) :
        (msgs[i].role = "tool" => BehindCall(msgs, i)) /\ (msgs[i].role = "call" => HasResults(msgs, i))

(* What a set of messages takes with it when it takes whole groups.                    *)
Closed(msgs, D) ==
    \A i, j \in 1..Len(msgs) : i \in D /\ SameGroup(msgs, i, j) => j \in D

LEMMA ExpandedIsClosed ==
    ASSUME NEW msgs \in Seq(MessageType), NEW chosen
    PROVE  Closed(msgs, ExpandToGroups(msgs, chosen))
<1> DEFINE D == ExpandToGroups(msgs, chosen)
           N == Len(msgs)
<1>1. N \in Nat /\ DOMAIN msgs = 1..N
  OBVIOUS
<1> HIDE DEF N
<1> SUFFICES ASSUME NEW i \in 1..N, NEW j \in 1..N, i \in D, SameGroup(msgs, i, j)
             PROVE  j \in D
  BY DEF Closed, N
<1>2. CASE i \in chosen
  BY <1>1, <1>2 DEF ExpandToGroups
<1>3. CASE i \notin chosen
  <2>1. PICK c \in chosen : SameGroup(msgs, c, i)
    BY <1>3 DEF ExpandToGroups
  <2>2. PICK s \in 1..N : /\ s <= c /\ s <= i /\ msgs[s].role = "call"
                          /\ \A k \in 1..N : s < k /\ (k <= c \/ k <= i) => msgs[k].role = "tool"
    BY <1>1, <2>1 DEF SameGroup
  <2>3. PICK t \in 1..N : /\ t <= i /\ t <= j /\ msgs[t].role = "call"
                          /\ \A k \in 1..N : t < k /\ (k <= i \/ k <= j) => msgs[k].role = "tool"
    BY <1>1 DEF SameGroup
  <2>4. s = t
    <3>1. ~(s < t)
      BY <2>2, <2>3
    <3>2. ~(t < s)
      BY <2>2, <2>3
    <3> QED
      BY <3>1, <3>2
  <2>5. SameGroup(msgs, c, j)
    BY <1>1, <2>2, <2>3, <2>4 DEF SameGroup
  <2> QED
    BY <1>1, <2>1, <2>5 DEF ExpandToGroups
<1> QED
  BY <1>2, <1>3

(* Whole groups D are taken out, or some of them replaced by messages of the assistant; *)
(* what is kept has its groups whole.                                                    *)
LEMMA KeepBlocked ==
    ASSUME NEW msgs \in Seq(MessageType), Blocked(msgs), NEW D, Closed(msgs, D),
           NEW t \in Seq(MessageType), Len(t) = Len(msgs), NEW E, E \subseteq D,
           \A i \in 1..Len(msgs) : i \notin D => t[i] = msgs[i],
           \A i \in 1..Len(msgs) : i \in D /\ i \notin E => t[i].role = "asst"
    PROVE  Keep(t, E) \in Seq(MessageType) /\ Blocked(Keep(t, E))
<1> DEFINE N == Len(msgs)
           kept == Keep(t, E)
<1>1. N \in Nat /\ DOMAIN msgs = 1..N
  OBVIOUS
<1>2. kept \in Seq(MessageType)
  BY KeepHasPlaces
<1>3. PICK pos : KeptPlaces(pos, t, E, kept)
  BY KeepHasPlaces
<1>4. /\ pos \in [0..N -> Nat] /\ pos[0] = 0 /\ pos[N] = Len(kept) /\ Len(kept) \in Nat
      /\ \A n \in 1..N : n \notin E => kept[pos[n]] = t[n]
  BY <1>2, <1>3 DEF KeptPlaces
<1>5. /\ \A i, j \in 0..N : i <= j => pos[i] <= pos[j]
      /\ \A i \in 0..N, n \in 1..N : i < n /\ n \notin E => pos[i] < pos[n]
  BY <1>2, <1>3, PlacesInOrder
<1>6. \A p \in 1..Len(kept) : \E n \in 1..N : n \notin E /\ pos[n] = p /\ kept[p] = t[n]
  BY <1>2, <1>3, PlacesAreTaken
<1>7. \A s \in 1..N : \A e \in s..N :
         (\A k \in (s + 1)..e : k \notin E) => \A k \in s..e : pos[k] = pos[s] + (k - s)
  <2> HIDE DEF kept
  <2>1. StayTogether(pos, Len(t), E)
    BY <1>2, <1>3, PlacesTogether
  <2> QED
    BY <2>1 DEF StayTogether
<1>8. /\ \A i \in 1..N : i \notin D => t[i] = msgs[i]
      /\ \A i \in 1..N : i \notin E /\ t[i].role # "asst" => i \notin D
  OBVIOUS
<1>9. Closed(msgs, D) /\ E \subseteq D /\ \A i \in 1..N : i \notin D => i \notin E
  OBVIOUS
<1>10. \A i \in 1..N : /\ msgs[i].role = "tool" => BehindCall(msgs, i)
                       /\ msgs[i].role = "call" => HasResults(msgs, i)
  BY DEF Blocked
<1>11. \A i, j \in 1..N : i \in D /\ SameGroup(msgs, i, j) => j \in D
  BY DEF Closed
<1> HIDE DEF N, kept
<1>12. ASSUME NEW s \in 1..N, NEW e \in s..N, msgs[s].role = "call",
              \A k \in (s + 1)..e : msgs[k].role = "tool",
              NEW o \in s..e, o \notin D
       PROVE  \A k \in s..e : k \notin D /\ pos[k] = pos[s] + (k - s) /\ kept[pos[k]] = msgs[k]
  <2>1. ASSUME NEW k \in s..e PROVE k \in 1..N /\ k \notin D
    <3>1. k \in 1..N /\ o \in 1..N
      BY <1>1
    <3>2. \A l \in 1..N : s < l /\ (l <= k \/ l <= o) => msgs[l].role = "tool"
      BY <1>1, <1>12
    <3>3. SameGroup(msgs, k, o)
      BY <1>1, <1>12, <3>1, <3>2 DEF SameGroup
    <3> QED
      BY <1>11, <1>12, <3>1, <3>3
  <2>2. \A k \in (s + 1)..e : k \notin E
    BY <1>9, <2>1
  <2>3. \A k \in s..e : pos[k] = pos[s] + (k - s)
    BY <1>7, <2>2
  <2> QED
    BY <1>4, <1>8, <1>9, <2>1, <2>3
<1>13. ASSUME NEW p \in 1..Len(kept), kept[p].role = "tool" PROVE BehindCall(kept, p)
  <2>1. PICK n \in 1..N : n \notin E /\ pos[n] = p /\ kept[p] = t[n]
    BY <1>6
  <2>2. n \notin D /\ msgs[n].role = "tool"
    BY <1>8, <1>13, <2>1
  <2>3. PICK s \in 1..(n - 1) : msgs[s].role = "call" /\ \A k \in (s + 1)..n : msgs[k].role = "tool"
    BY <1>10, <2>2 DEF BehindCall
  <2>4. s \in 1..N /\ n \in s..N /\ n \in s..n
    BY <1>1, <2>3
  <2>5. \A k \in s..n : k \notin D /\ pos[k] = pos[s] + (k - s) /\ kept[pos[k]] = msgs[k]
    BY <1>12, <2>2, <2>3, <2>4
  <2>6. pos[s] \in Nat /\ pos[s] > 0 /\ p = pos[s] + (n - s)
    <3>1. 0 \in 0..N /\ s \in 0..N /\ 0 < s /\ s \in s..n
      BY <1>1, <2>4
    <3>2. pos[0] < pos[s]
      BY <1>5, <1>9, <2>4, <2>5, <3>1
    <3> QED
      BY <1>4, <2>1, <2>4, <2>5, <3>1, <3>2
  <2>7. pos[s] \in 1..(p - 1) /\ kept[pos[s]].role = "call"
    <3>1. s \in s..n
      BY <2>4
    <3>2. kept[pos[s]] = msgs[s]
      BY <2>5, <3>1
    <3> QED
      BY <2>3, <2>4, <2>6, <3>2
  <2>8. ASSUME NEW q \in (pos[s] + 1)..p PROVE kept[q].role = "tool"
    <3> DEFINE k == s + (q - pos[s])
    <3>1. k \in (s + 1)..n /\ k \in s..n /\ q = pos[s] + (k - s)
      <4>1. ASSUME NEW a \in Nat, NEW m \in Int, NEW l \in Int, NEW r \in (a + 1)..(a + (m - l))
            PROVE  l + (r - a) \in (l + 1)..m /\ l + (r - a) \in l..m /\ r = a + (l + (r - a) - l)
        OBVIOUS
      <4>2. pos[s] \in Nat /\ n \in Int /\ s \in Int /\ q \in (pos[s] + 1)..(pos[s] + (n - s))
        BY <2>4, <2>6
      <4> QED
        BY <4>1, <4>2
    <3> HIDE DEF k
    <3>2. pos[k] = q /\ kept[pos[k]] = msgs[k]
      BY <2>5, <3>1
    <3> QED
      BY <2>3, <3>1, <3>2
  <2> QED
    BY <2>7, <2>8 DEF BehindCall
<1>14. ASSUME NEW p \in 1..Len(kept), kept[p].role = "call" PROVE HasResults(kept, p)
  <2>1. PICK n \in 1..N : n \notin E /\ pos[n] = p /\ kept[p] = t[n]
    BY <1>6
  <2>2. n \notin D /\ kept[p] = msgs[n] /\ msgs[n].role = "call" /\ msgs[n] \in MessageType
    BY <1>8, <1>14, <2>1, <1>1
  <2> DEFINE r == msgs[n].results
             e == n + r
  <2>3. /\ r \in Nat /\ e = n + r /\ e <= N /\ \A k \in (n + 1)..e : msgs[k].role = "tool"
        /\ e < N => msgs[e + 1].role # "tool"
    <3>1. r \in Nat
      BY <2>2 DEF MessageType
    <3> QED
      BY <1>10, <2>2, <3>1 DEF HasResults, N
  <2> HIDE DEF r, e
  <2>4. e \in n..N /\ n \in n..e /\ e \in n..e /\ e \in 0..N
    BY <1>1, <2>3
  <2>5. \A k \in n..e : k \notin D /\ pos[k] = p + (k - n) /\ kept[pos[k]] = msgs[k]
    <3>1. \A k \in (n + 1)..e : msgs[k].role = "tool"
      BY <2>3
    <3>2. \A k \in n..e : k \notin D /\ pos[k] = pos[n] + (k - n) /\ kept[pos[k]] = msgs[k]
      BY <1>12, <2>2, <2>4, <3>1
    <3> QED
      BY <2>1, <3>2
  <2>6. pos[e] = p + r /\ p + r <= Len(kept)
    <3>1. pos[e] = p + (e - n)
      BY <2>4, <2>5
    <3>2. pos[e] <= pos[N]
      BY <1>1, <1>5, <2>4
    <3> QED
      BY <1>4, <2>3, <3>1, <3>2
  <2>7. ASSUME NEW q \in (p + 1)..(p + r) PROVE kept[q].role = "tool"
    <3> DEFINE k == n + (q - p)
    <3>1. k \in (n + 1)..e /\ k \in n..e /\ q = p + (k - n)
      BY <2>3
    <3> HIDE DEF k
    <3>2. pos[k] = q /\ kept[pos[k]] = msgs[k]
      BY <2>5, <3>1
    <3> QED
      BY <2>3, <3>1, <3>2
  <2>8. ASSUME p + r < Len(kept), kept[p + r + 1].role = "tool" PROVE FALSE
    <3>1. p + r + 1 \in 1..Len(kept)
      BY <2>3, <2>8, <1>4
    <3>2. PICK m \in 1..N : m \notin E /\ pos[m] = p + r + 1 /\ kept[p + r + 1] = t[m]
      BY <1>6, <3>1
    <3>3. m \notin D /\ msgs[m].role = "tool"
      BY <1>8, <2>8, <3>2
    <3>4. e < m
      <4>1. ASSUME m <= e PROVE FALSE
        <5>1. pos[m] <= pos[e]
          BY <1>1, <1>5, <2>4, <4>1
        <5> QED
          BY <2>3, <2>6, <3>2, <5>1
      <4> QED
        BY <2>4, <4>1
    <3>5. PICK s \in 1..(m - 1) : msgs[s].role = "call" /\ \A k \in (s + 1)..m : msgs[k].role = "tool"
      BY <1>10, <3>3 DEF BehindCall
    <3>6. s \in 1..N /\ m \in s..N /\ s \in s..m /\ m \in s..m
      BY <1>1, <3>5
    <3>7. e < s
      <4>1. ~(s < n)
        BY <2>2, <2>4, <3>4, <3>5, <3>6
      <4>2. s # n
        <5>1. e < N /\ e + 1 \in (n + 1)..m
          BY <1>1, <2>3, <3>4
        <5> QED
          BY <2>3, <3>5, <5>1
      <4>3. ~(s \in (n + 1)..e)
        BY <2>3, <3>5
      <4> QED
        BY <2>4, <3>6, <4>1, <4>2, <4>3
    <3>8. s \notin D
      BY <1>12, <3>3, <3>5, <3>6
    <3>9. pos[e] < pos[s] /\ pos[s] < pos[m]
      BY <1>5, <1>9, <2>4, <3>2, <3>5, <3>6, <3>7, <3>8
    <3>10. s \in 0..N /\ pos[s] \in Nat
      BY <1>1, <1>4, <3>6
    <3> QED
      BY <2>3, <2>6, <3>2, <3>9, <3>10
  <2>9. kept[p].results = r
    BY <2>2 DEF r
  <2> QED
    BY <2>3, <2>6, <2>7, <2>8, <2>9 DEF HasResults
<1>15. Blocked(kept)
  BY <1>13, <1>14 DEF Blocked
<1> QED
  BY <1>2, <1>15 DEF kept

LEMMA ExpandedIsWithin ==
    ASSUME NEW msgs \in Seq(MessageType), NEW chosen, chosen \subseteq 1..Len(msgs)
    PROVE  ExpandToGroups(msgs, chosen) \subseteq 1..Len(msgs)
<1>1. DOMAIN msgs = 1..Len(msgs)
  OBVIOUS
<1> QED
  BY <1>1 DEF ExpandToGroups

LEMMA KeepsGroups ==
    ASSUME NEW msgs \in Seq(MessageType), Blocked(msgs), NEW chosen
    PROVE  /\ Keep(msgs, ExpandToGroups(msgs, chosen)) \in Seq(MessageType)
           /\ Blocked(Keep(msgs, ExpandToGroups(msgs, chosen)))
<1> DEFINE D == ExpandToGroups(msgs, chosen)
<1>1. Closed(msgs, D)
  BY ExpandedIsClosed
<1>2. D \subseteq D /\ Len(msgs) = Len(msgs)
  OBVIOUS
<1> HIDE DEF D
<1> QED
  BY <1>1, <1>2, KeepBlocked DEF D

(* L2 takes whole groups, and leaves a message of the assistant for them.               *)
LEMMA SummarizeKeepsGroups ==
    ASSUME NEW msgs \in Seq(MessageType), Blocked(msgs), NEW n \in SummaryTokens
    PROVE  Summarize(msgs, n) \in Seq(MessageType) /\ Blocked(Summarize(msgs, n))
<1> DEFINE D == ExpandToGroups(msgs, Lightest(msgs))
           first == Min(D)
           summary == Message("asst", n)
           t == [msgs EXCEPT ![first] = summary]
           E == D \ {first}
<1>1. CASE D = {}
  BY <1>1 DEF Summarize
<1>2. CASE D # {}
  <2>1. D \subseteq 1..Len(msgs) /\ Closed(msgs, D)
    <3>1. Lightest(msgs) \subseteq 1..Len(msgs)
      BY DEF Lightest
    <3> QED
      BY <3>1, ExpandedIsClosed, ExpandedIsWithin
  <2>2. first \in D
    <3> HIDE DEF D
    <3>1. D \subseteq Nat
      BY <2>1
    <3> QED
      BY <1>2, <3>1, MinIs
  <2>3. Summarize(msgs, n) = Keep(t, E)
    BY <1>2 DEF Summarize
  <2>4. summary \in MessageType /\ summary.role = "asst"
    <3>1. n \in Nat
      BY CompactionAssumption
    <3> QED
      BY <3>1 DEF Message, MessageType, Role
  <2> HIDE DEF D, first, summary
  <2>5. /\ t \in Seq(MessageType) /\ Len(t) = Len(msgs) /\ t[first] = summary
        /\ \A i \in 1..Len(msgs) : i # first => t[i] = msgs[i]
    BY <2>1, <2>2, <2>4
  <2>6. E \subseteq D /\ \A i \in D : i \notin E => i = first
    OBVIOUS
  <2> HIDE DEF t, E
  <2>7. Keep(t, E) \in Seq(MessageType) /\ Blocked(Keep(t, E))
    <3>1. \A i \in 1..Len(msgs) : i \notin D => t[i] = msgs[i]
      BY <2>2, <2>5
    <3>2. \A i \in 1..Len(msgs) : i \in D /\ i \notin E => t[i].role = "asst"
      BY <2>4, <2>5, <2>6
    <3> QED
      BY <2>1, <2>5, <2>6, <3>1, <3>2, KeepBlocked
  <2> QED
    BY <2>3, <2>7
<1> QED
  BY <1>1, <1>2

LEMMA CompressionKeepsGroups ==
    ASSUME NEW msgs \in Seq(MessageType), Blocked(msgs), NEW n \in SummaryTokens
    PROVE  AfterClip(msgs, n) \in Seq(MessageType) /\ Blocked(AfterClip(msgs, n))
<1> DEFINE l2 == Summarize(msgs, n)
           l3 == Roll(l2)
<1>1. l2 \in Seq(MessageType) /\ Blocked(l2)
  BY SummarizeKeepsGroups
<1> HIDE DEF l2
<1>2. l3 \in Seq(MessageType) /\ Blocked(l3)
  BY <1>1, KeepsGroups DEF Roll
<1> HIDE DEF l3
<1>3. HardTruncate(l3) \in Seq(MessageType) /\ Blocked(HardTruncate(l3))
  BY <1>2, KeepsGroups DEF HardTruncate
<1>4. AfterClip(msgs, n) \in {msgs, l2, l3, HardTruncate(l3)}
  <2>1. AfterClip(msgs, n) = CASE Fits(msgs) -> msgs [] ~Fits(msgs) /\ Fits(l2) -> l2
                               [] OTHER -> IF Fits(l3) THEN l3 ELSE HardTruncate(l3)
    BY DEF AfterClip, l2, l3
  <2> QED
    BY <2>1
<1> QED
  BY <1>1, <1>2, <1>3, <1>4

LEMMA ClipKeepsGroups ==
    ASSUME NEW msgs \in Seq(MessageType), Blocked(msgs)
    PROVE  Blocked(Clip(msgs))
<1> DEFINE t == Clip(msgs)
<1>1. t \in Seq(MessageType) /\ SameShape(msgs, t)
  BY ClipLightens
<1> HIDE DEF t
<1>2. /\ Len(t) = Len(msgs) /\ Len(msgs) \in Nat
      /\ \A i \in 1..Len(msgs) : t[i].role = msgs[i].role /\ t[i].results = msgs[i].results
  BY <1>1 DEF SameShape
<1>3. \A i \in 1..Len(msgs) : msgs[i].results \in Nat
  <2>1. \A x \in MessageType : x.results \in Nat
    BY DEF MessageType
  <2> QED
    BY <2>1, InSeq
<1>4. ASSUME NEW i \in 1..Len(t), t[i].role = "tool" PROVE BehindCall(t, i)
  <2>1. BehindCall(msgs, i)
    BY <1>2, <1>4 DEF Blocked
  <2> QED
    BY <1>2, <2>1 DEF BehindCall
<1>5. ASSUME NEW i \in 1..Len(t), t[i].role = "call" PROVE HasResults(t, i)
  <2>1. HasResults(msgs, i)
    BY <1>2, <1>5 DEF Blocked
  <2> DEFINE e == i + msgs[i].results
  <2>2. e \in Nat /\ i <= e /\ i >= 1 /\ t[i].results = msgs[i].results
    BY <1>2, <1>3
  <2>3. /\ e <= Len(msgs) /\ \A k \in (i + 1)..e : msgs[k].role = "tool"
        /\ e < Len(msgs) => msgs[e + 1].role # "tool"
    BY <2>1 DEF HasResults
  <2> HIDE DEF e
  <2>4. /\ \A k \in (i + 1)..e : k \in 1..Len(msgs)
        /\ e < Len(msgs) => e + 1 \in 1..Len(msgs)
    BY <1>2, <2>2, <2>3
  <2>5. /\ e <= Len(t) /\ \A k \in (i + 1)..e : t[k].role = "tool"
        /\ e < Len(t) => t[e + 1].role # "tool"
    BY <1>2, <2>3, <2>4
  <2> QED
    BY <2>2, <2>5 DEF HasResults, e
<1> QED
  BY <1>4, <1>5 DEF Blocked, t

(* What is not a result may be appended at any time.                                     *)
LEMMA AppendKeepsGroups ==
    ASSUME NEW msgs \in Seq(MessageType), Blocked(msgs), NEW m \in MessageType,
           m.role # "tool", m.results = 0
    PROVE  Blocked(Append(msgs, m))
<1> DEFINE t == Append(msgs, m)
           N == Len(msgs)
<1>1. /\ N \in Nat /\ Len(t) = N + 1 /\ t[N + 1] = m /\ \A i \in 1..N : t[i] = msgs[i]
  OBVIOUS
<1> HIDE DEF t
<1>2. \A i \in 1..N : msgs[i].results \in Nat
  <2>1. \A x \in MessageType : x.results \in Nat
    BY DEF MessageType
  <2> QED
    BY <2>1, InSeq
<1>3. ASSUME NEW i \in 1..Len(t), t[i].role = "tool" PROVE BehindCall(t, i)
  <2>1. i \in 1..N
    BY <1>1, <1>3
  <2>2. BehindCall(msgs, i)
    BY <1>1, <1>3, <2>1 DEF Blocked
  <2> QED
    BY <1>1, <2>1, <2>2 DEF BehindCall
<1>4. ASSUME NEW i \in 1..Len(t), t[i].role = "call" PROVE HasResults(t, i)
  <2>1. CASE i = N + 1
    BY <1>1, <2>1 DEF HasResults
  <2>2. CASE i \in 1..N
    <3>1. HasResults(msgs, i)
      BY <1>1, <1>4, <2>2 DEF Blocked
    <3> DEFINE e == i + msgs[i].results
    <3>2. e \in Nat /\ i <= e /\ i >= 1 /\ t[i] = msgs[i]
      BY <1>1, <1>2, <2>2
    <3>3. /\ e <= N /\ \A k \in (i + 1)..e : msgs[k].role = "tool"
          /\ e < N => msgs[e + 1].role # "tool"
      BY <3>1 DEF HasResults
    <3> HIDE DEF e, N
    <3>4. \A k \in (i + 1)..e : k \in 1..N
      BY <1>1, <3>2, <3>3
    <3>5. e + 1 \in 1..N \/ e = N
      BY <1>1, <3>2, <3>3
    <3>6. /\ e <= Len(t) /\ \A k \in (i + 1)..e : t[k].role = "tool"
          /\ e < Len(t) => t[e + 1].role # "tool"
      BY <1>1, <3>2, <3>3, <3>4, <3>5
    <3> QED
      BY <3>2, <3>6 DEF HasResults, e
  <2> QED
    BY <1>1, <2>1, <2>2
<1> QED
  BY <1>3, <1>4 DEF Blocked, t

(* Where the messages end in a call or a result, the last call is the one that waits.   *)
WaitingCall(msgs) == SelectLastInSeq(msgs, LAMBDA m : m.role = "call")
EndsInGroup(msgs) == Len(msgs) > 0 /\ msgs[Len(msgs)].role \in {"call", "tool"}

LEMMA CallerWaits ==
    ASSUME NEW msgs \in Seq(MessageType), Blocked(msgs), EndsInGroup(msgs)
    PROVE  /\ WaitingCall(msgs) \in 1..Len(msgs) /\ msgs[WaitingCall(msgs)].role = "call"
           /\ \A k \in (WaitingCall(msgs) + 1)..Len(msgs) : msgs[k].role = "tool"
           /\ WaitingCall(msgs) + msgs[WaitingCall(msgs)].results = Len(msgs)
<1> DEFINE N == Len(msgs)
           calls == {i \in 1..N : msgs[i].role = "call"}
           c == WaitingCall(msgs)
<1>1. N \in Nat /\ N > 0 /\ msgs[N].role \in {"call", "tool"} /\ msgs[N] \in MessageType
  BY DEF EndsInGroup
<1>2. PICK s \in 1..N : msgs[s].role = "call" /\ \A k \in (s + 1)..N : msgs[k].role = "tool"
  <2>1. CASE msgs[N].role = "call"
    BY <1>1, <2>1
  <2>2. CASE msgs[N].role = "tool"
    <3>1. BehindCall(msgs, N)
      BY <1>1, <2>2 DEF Blocked
    <3> QED
      BY <1>1, <3>1 DEF BehindCall
  <2> QED
    BY <1>1, <2>1, <2>2
<1>3. c \in calls /\ \A y \in calls : y <= c
  <2>1. calls # {} /\ calls \subseteq 0..N
    BY <1>2
  <2>2. c = Max(calls)
    BY <2>1 DEF WaitingCall, SelectLastInSeq
  <2> HIDE DEF calls, c
  <2> QED
    BY <1>1, <2>1, <2>2, MaxIs
<1> HIDE DEF c
<1>4. c = s
  BY <1>1, <1>2, <1>3
<1>5. s + msgs[s].results = N
  <2>1. HasResults(msgs, s)
    BY <1>2 DEF Blocked
  <2>2. msgs[s].results \in Nat
    <3>1. msgs[s] \in MessageType
      BY <1>2, InSeq
    <3> QED
      BY <3>1 DEF MessageType
  <2> QED
    BY <1>1, <1>2, <2>1, <2>2 DEF HasResults
<1> QED
  BY <1>2, <1>4, <1>5 DEF c

LEMMA ResultKeepsGroups ==
    ASSUME NEW msgs \in Seq(MessageType), Blocked(msgs), EndsInGroup(msgs),
           NEW m \in MessageType, m.role = "tool"
    PROVE  LET t == [msgs EXCEPT ![WaitingCall(msgs)].results = @ + 1]
           IN /\ t \in Seq(MessageType) /\ Tokens(t) <= Tokens(msgs)
              /\ Blocked(Append(t, m)) /\ EndsInGroup(Append(t, m))
<1> DEFINE N == Len(msgs)
           c == WaitingCall(msgs)
           t == [msgs EXCEPT ![c].results = @ + 1]
           u == Append(t, m)
<1>1. /\ c \in 1..N /\ msgs[c].role = "call" /\ c + msgs[c].results = N
      /\ \A k \in (c + 1)..N : msgs[k].role = "tool"
  BY CallerWaits
<1> HIDE DEF c
<1>2. N \in Nat /\ \A i \in 1..N : msgs[i] \in MessageType
  BY InSeq
<1>3. \A i \in 1..N : msgs[i].results \in Nat /\ msgs[i].tokens \in Nat
  BY <1>2 DEF MessageType
<1>4. /\ DOMAIN t = 1..N /\ \A i \in 1..N : i # c => t[i] = msgs[i]
      /\ t[c] = [msgs[c] EXCEPT !.results = @ + 1]
  BY <1>1
<1>5. /\ t[c] \in MessageType /\ t[c].role = "call" /\ t[c].results = msgs[c].results + 1
      /\ t[c].tokens = msgs[c].tokens
  <2> DEFINE x == msgs[c]
  <2>1. x \in MessageType /\ x.role = "call" /\ t[c] = [x EXCEPT !.results = x.results + 1]
    BY <1>1, <1>2, <1>4
  <2> DEFINE y == t[c]
             more == x.results + 1
  <2> HIDE DEF x, t
  <2>3. more \in Nat
    BY <2>1 DEF MessageType
  <2>4. y = [x EXCEPT !.results = more]
    BY <2>1
  <2> HIDE DEF y, more
  <2>5. y \in MessageType /\ y.role = x.role /\ y.results = more /\ y.tokens = x.tokens
    BY <2>1, <2>3, <2>4 DEF MessageType
  <2>2. /\ t[c] \in MessageType /\ t[c].role = "call" /\ t[c].results = x.results + 1
        /\ t[c].tokens = x.tokens
    BY <2>1, <2>5 DEF y, more
  <2> QED
    BY <2>2 DEF x
<1>6. t \in Seq(MessageType) /\ Len(t) = N
  <2>1. \A i \in 1..N : t[i] \in MessageType
    BY <1>2, <1>4, <1>5
  <2>2. t = [i \in 1..N |-> t[i]]
    BY <1>4
  <2> HIDE DEF t, N
  <2> QED
    BY <1>2, <1>4, <2>1, <2>2
<1> HIDE DEF t, N
<1>7. \A i \in 1..N : t[i].role = msgs[i].role /\ t[i].tokens <= msgs[i].tokens
  <2> TAKE i \in 1..N
  <2>1. CASE i = c
    <3>1. msgs[c].tokens \in Nat
      BY <1>1, <1>3
    <3>2. msgs[c].tokens <= msgs[c].tokens
      BY <3>1
    <3> QED
      BY <1>1, <1>5, <2>1, <3>2
  <2>2. CASE i # c
    <3>1. msgs[i].tokens \in Nat /\ t[i] = msgs[i]
      BY <1>3, <1>4, <2>2
    <3>2. msgs[i].tokens <= msgs[i].tokens
      BY <3>1
    <3> QED
      BY <3>1, <3>2
  <2> QED
    BY <2>1, <2>2
<1>8. Tokens(t) <= Tokens(msgs)
  BY <1>6, <1>7, TokensMonotone DEF N
<1>9. /\ Len(u) = N + 1 /\ u[N + 1] = m /\ \A i \in 1..N : u[i] = t[i]
  BY <1>6
<1> HIDE DEF u
<1>10. ASSUME NEW i \in 1..Len(u), u[i].role = "tool" PROVE BehindCall(u, i)
  <2>1. CASE i = N + 1
    <3>1. c \in 1..(i - 1) /\ u[c].role = "call"
      BY <1>1, <1>2, <1>7, <1>9, <2>1
    <3>2. \A k \in (c + 1)..i : u[k].role = "tool"
      <4> TAKE k \in (c + 1)..i
      <4>1. k = N + 1 \/ (k \in (c + 1)..N /\ k \in 1..N)
        BY <1>1, <1>2, <2>1
      <4> QED
        BY <1>1, <1>7, <1>9, <4>1
    <3> QED
      BY <3>1, <3>2 DEF BehindCall
  <2>2. CASE i \in 1..N
    <3>1. BehindCall(msgs, i)
      BY <1>7, <1>9, <1>10, <2>2 DEF Blocked, N
    <3> QED
      BY <1>2, <1>7, <1>9, <2>2, <3>1 DEF BehindCall
  <2> QED
    BY <1>2, <1>9, <2>1, <2>2
<1>11. ASSUME NEW i \in 1..Len(u), u[i].role = "call" PROVE HasResults(u, i)
  <2>1. i \in 1..N /\ msgs[i].role = "call"
    BY <1>2, <1>7, <1>9, <1>11
  <2>2. HasResults(msgs, i)
    BY <2>1 DEF Blocked, N
  <2>3. CASE i = c
    <3>1. i + u[i].results = N + 1
      <4>1. u[i] = t[c] /\ msgs[c].results \in Nat
        BY <1>1, <1>3, <1>9, <2>3
      <4>2. u[i].results = msgs[c].results + 1
        BY <1>5, <4>1
      <4> DEFINE r == msgs[c].results
                 q == u[i].results
      <4>3. c + r = N /\ c \in Nat /\ r \in Nat /\ q = r + 1
        BY <1>1, <1>2, <4>1, <4>2
      <4> HIDE DEF r, q
      <4>4. c + q = N + 1
        BY <1>2, <4>3
      <4> QED
        BY <2>3, <4>4 DEF q
    <3>2. \A k \in (i + 1)..(N + 1) : u[k].role = "tool"
      <4> TAKE k \in (i + 1)..(N + 1)
      <4>1. k = N + 1 \/ (k \in (c + 1)..N /\ k \in 1..N)
        BY <1>1, <1>2, <2>3
      <4> QED
        BY <1>1, <1>7, <1>9, <4>1
    <3> QED
      BY <1>2, <1>9, <3>1, <3>2 DEF HasResults
  <2>4. CASE i # c
    <3> DEFINE e == i + msgs[i].results
    <3>1. e \in Nat /\ i <= e /\ i >= 1 /\ u[i].results = msgs[i].results /\ i \in Nat
      BY <1>2, <1>3, <1>4, <1>9, <2>1, <2>4
    <3>2. /\ e <= N /\ \A k \in (i + 1)..e : msgs[k].role = "tool"
          /\ e < N => msgs[e + 1].role # "tool"
      BY <2>2 DEF HasResults, N
    <3> HIDE DEF e
    <3>3. ~(c < i)
      BY <1>1, <1>2, <2>1
    <3>4. i < c
      BY <1>1, <2>1, <2>4, <3>3
    <3>5. ~(c <= e)
      BY <1>1, <3>1, <3>2, <3>4
    <3>6. e + 1 \in 1..N /\ e < N /\ \A k \in (i + 1)..e : k \in 1..N
      BY <1>1, <1>2, <3>1, <3>2, <3>5
    <3>7. \A k \in 1..N : u[k].role = msgs[k].role
      BY <1>7, <1>9
    <3>8. e <= Len(u)
      BY <1>2, <1>9, <3>1, <3>6
    <3>9. (\A k \in (i + 1)..e : u[k].role = "tool") /\ u[e + 1].role # "tool"
      BY <3>2, <3>6, <3>7
    <3> QED
      BY <3>1, <3>8, <3>9 DEF HasResults, e
  <2> QED
    BY <2>3, <2>4
<1>12. EndsInGroup(u)
  BY <1>2, <1>9 DEF EndsInGroup
<1> QED
  BY <1>6, <1>8, <1>10, <1>11, <1>12 DEF Blocked, t, u, c

LEMMA BlocksAreGroups ==
    ASSUME messages \in Seq(MessageType), Blocked(messages)
    PROVE  GroupsWhole
<1> DEFINE N == Len(messages)
<1>1. N \in Nat /\ DOMAIN messages = 1..N
  OBVIOUS
<1>2. \A i \in 1..N : /\ messages[i].role = "tool" => BehindCall(messages, i)
                      /\ messages[i].role = "call" => HasResults(messages, i)
  BY DEF Blocked
<1>3. \A i \in 1..N : messages[i] \in MessageType
  BY InSeq
<1> HIDE DEF N
<1>4. ASSUME NEW i \in 1..N, messages[i].role = "tool"
      PROVE  \E s \in 1..(i - 1) : messages[s].role = "call" /\ SameGroup(messages, s, i)
  <2>1. PICK s \in 1..(i - 1) :
           messages[s].role = "call" /\ \A k \in (s + 1)..i : messages[k].role = "tool"
    BY <1>2, <1>4 DEF BehindCall
  <2>2. s \in 1..N /\ \A k \in 1..N : s < k /\ (k <= s \/ k <= i) => k \in (s + 1)..i
    BY <1>1
  <2>3. SameGroup(messages, s, i)
    BY <1>1, <2>1, <2>2 DEF SameGroup
  <2> QED
    BY <2>1, <2>3
<1>5. ASSUME NEW i \in 1..N, messages[i].role = "call"
      PROVE  Cardinality({j \in 1..N : j # i /\ SameGroup(messages, i, j)}) = messages[i].results
  <2> DEFINE r == messages[i].results
             e == i + r
  <2>1. r \in Nat
    BY <1>3 DEF MessageType
  <2>2. /\ e <= N /\ \A k \in (i + 1)..e : messages[k].role = "tool"
        /\ e < N => messages[e + 1].role # "tool"
    BY <1>2, <1>5 DEF HasResults, N
  <2> HIDE DEF r
  <2>3. ASSUME NEW j \in (i + 1)..e PROVE j \in 1..N /\ j # i /\ SameGroup(messages, i, j)
    <3>1. j \in 1..N /\ j # i
      BY <1>1, <2>1, <2>2
    <3>2. \A k \in 1..N : i < k /\ (k <= i \/ k <= j) => k \in (i + 1)..e
      BY <1>1, <2>1
    <3>3. SameGroup(messages, i, j)
      BY <1>1, <1>5, <2>2, <3>1, <3>2 DEF SameGroup
    <3> QED
      BY <3>1, <3>3
  <2>4. ASSUME NEW j \in 1..N, j # i, SameGroup(messages, i, j) PROVE j \in (i + 1)..e
    <3>1. PICK s \in 1..N : /\ s <= i /\ s <= j /\ messages[s].role = "call"
                            /\ \A k \in 1..N : s < k /\ (k <= i \/ k <= j) => messages[k].role = "tool"
      BY <1>1, <2>4 DEF SameGroup
    <3>2. s = i
      BY <1>1, <1>5, <3>1
    <3>3. j > e => e < N /\ e + 1 \in 1..N /\ i < e + 1 /\ e + 1 <= j
      BY <1>1, <2>1, <2>2
    <3>4. ~(j > e)
      BY <2>2, <3>1, <3>2, <3>3
    <3> QED
      BY <1>1, <2>1, <2>4, <3>1, <3>2, <3>4
  <2>5. {j \in 1..N : j # i /\ SameGroup(messages, i, j)} = (i + 1)..e
    BY <2>3, <2>4
  <2>6. Cardinality((i + 1)..e) = r
    <3>1. i + 1 \in Int /\ e \in Int /\ i \in Int
      BY <2>1
    <3>2. Cardinality((i + 1)..e) = IF i + 1 > e THEN 0 ELSE e - (i + 1) + 1
      BY <3>1, FS_Interval
    <3> QED
      BY <2>1, <3>1, <3>2
  <2> QED
    BY <2>5, <2>6 DEF r
<1> QED
  BY <1>1, <1>4, <1>5 DEF GroupsWhole

--------------------------------------------------------------------------------
(***************************************************************************)
(* The invariant of the context.                                           *)
(***************************************************************************)
Slack == Max(TextTokens)

CmpTypes ==
    /\ messages \in Seq(MessageType) /\ token_cache \in Nat /\ streak \in Nat
    /\ counted \in Nat \union {NotCounted}
    /\ ctxTurn \in [pc : {"idle", "build", "clip", "levels", "judge", "llm", "results"},
                    due : Int, emergency : BOOLEAN, forced : BOOLEAN]
    /\ request \in [tokens : Nat, warned : BOOLEAN, refused : BOOLEAN]
    /\ seen \in [requests : Nat, snapshots : Nat, overtaken : BOOLEAN]
    /\ thrash \in [oversize : Nat, cooling : BOOLEAN]
CmpGroups ==
    Blocked(messages) /\ (ctxTurn.pc = "results" => EndsInGroup(messages))
CmpCounts ==
    /\ ~seen.overtaken => token_cache + Slack >= Tokens(messages)
    /\ ctxTurn.pc = "llm" => request.tokens >= Tokens(messages) + FixedOverhead
CmpInv == CmpTypes /\ CmpGroups /\ CmpCounts

LEMMA SlackIs == Slack \in Nat /\ \A n \in TextTokens : n \in Nat /\ n > 0 /\ n <= Slack
<1>1. TextTokens \subseteq Nat /\ \A n \in TextTokens : n \in Nat /\ n > 0
  BY CompactionAssumption
<1>2. PICK largest \in TextTokens : \A n \in TextTokens : n <= largest
  BY CompactionAssumption
<1>3. \A n \in TextTokens : largest >= n
  BY <1>1, <1>2
<1>4. Slack \in TextTokens /\ \A n \in TextTokens : Slack >= n
  BY <1>3 DEF Slack, Max
<1> QED
  BY <1>1, <1>4

LEMMA EffectiveIs ==
    ASSUME streak \in Nat
    PROVE  /\ EffectiveThreshold \in Nat /\ EffectiveThreshold <= Threshold
           /\ EffectiveThreshold >= (Threshold * 60) \div 100
<1> DEFINE often == streak \div UnderestimateTrigger
           k == Min({often, 4})
<1>1. Threshold \in Nat /\ UnderestimateTrigger \in Nat /\ UnderestimateTrigger > 0
  BY CompactionAssumption
<1>2. often \in Nat
  BY <1>1
<1> HIDE DEF often
<1>3. k \in 0..4
  <2>1. {often, 4} \subseteq Nat /\ {often, 4} # {}
    BY <1>2
  <2>2. k \in {often, 4} /\ k <= 4
    BY <2>1, MinIs
  <2> HIDE DEF k
  <2> QED
    BY <1>2, <2>2
<1>4. EffectiveThreshold = (Threshold * (100 - 10 * k)) \div 100
  BY DEF EffectiveThreshold, often
<1> HIDE DEF k
<1>5. \E a \in {100, 90, 80, 70, 60} : EffectiveThreshold = (Threshold * a) \div 100
  <2>1. 100 - 10 * k \in {100, 90, 80, 70, 60}
    BY <1>3
  <2> QED
    BY <1>4, <2>1
<1> QED
  BY <1>1, <1>5

LEMMA MessageIs ==
    ASSUME NEW role \in Role, NEW n \in Nat
    PROVE  /\ Message(role, n) \in MessageType /\ Message(role, n).role = role
           /\ Message(role, n).tokens = n /\ Message(role, n).results = 0
  BY DEF Message, MessageType

LEMMA CmpInitInv == CmpInit => CmpInv
<1> SUFFICES ASSUME CmpInit PROVE CmpInv
  OBVIOUS
<1> USE DEF CmpInit
<1>1. messages = <<>> /\ messages \in Seq(MessageType) /\ Len(messages) = 0
  OBVIOUS
<1>2. CmpTypes
  BY <1>1 DEF CmpTypes
<1>3. CmpGroups
  BY <1>1 DEF CmpGroups, Blocked
<1>4. CmpCounts
  <2>1. Tokens(messages) = 0
    <3>1. PICK f : SumsUp(f, messages) /\ Tokens(messages) = f[Len(messages)]
      BY <1>1, TokensSum
    <3> QED
      BY <1>1, <3>1 DEF SumsUp
  <2> QED
    BY <2>1, SlackIs DEF CmpCounts
<1> QED
  BY <1>2, <1>3, <1>4 DEF CmpInv

(* A message of the turn's that is no result is appended, and counted.                    *)
LEMMA AppendInv ==
    ASSUME CmpInv, NEW role \in {"user", "asst", "call"}, NEW n \in TextTokens,
           Appends(Message(role, n)), token_cache' \in Nat,
           ~seen.overtaken => token_cache' + Slack >= Tokens(messages) + n,
           streak' \in Nat, UNCHANGED <<thrash, counted, request, seen>>,
           ctxTurn' \in [pc : {"idle", "build", "results"},
                         due : Int, emergency : BOOLEAN, forced : BOOLEAN],
           ctxTurn'.pc = "results" => role = "call"
    PROVE  CmpInv'
<1> DEFINE m == Message(role, n)
<1>1. n \in Nat
  BY SlackIs
<1>2. m \in MessageType /\ m.role = role /\ m.tokens = n /\ m.results = 0
  BY <1>1, MessageIs DEF Role
<1>3. messages \in Seq(MessageType) /\ messages' = Append(messages, m) /\ Blocked(messages)
  BY DEF CmpInv, CmpTypes, CmpGroups, Appends
<1> HIDE DEF m
<1>4. messages' \in Seq(MessageType) /\ Blocked(messages')
  BY <1>2, <1>3, AppendKeepsGroups
<1>5. Tokens(messages') = Tokens(messages) + n
  BY <1>2, <1>3, TokensAppend
<1>6. CmpTypes'
  BY <1>4 DEF CmpInv, CmpTypes
<1>7. CmpGroups'
  <2>1. ctxTurn'.pc = "results" => EndsInGroup(messages')
    BY <1>2, <1>3 DEF EndsInGroup
  <2> QED
    BY <1>4, <2>1 DEF CmpGroups
<1>8. CmpCounts'
  BY <1>5 DEF CmpCounts
<1> QED
  BY <1>6, <1>7, <1>8 DEF CmpInv

LEMMA CmpStepInv == CmpInv /\ [CmpNext]_cmpVars => CmpInv'
<1> SUFFICES ASSUME CmpInv, [CmpNext]_cmpVars PROVE CmpInv'
  OBVIOUS
<1>t. /\ messages \in Seq(MessageType) /\ token_cache \in Nat /\ streak \in Nat
      /\ counted \in Nat \union {NotCounted} /\ Tokens(messages) \in Nat
      /\ ctxTurn.pc \in {"idle", "build", "clip", "levels", "judge", "llm", "results"}
      /\ request.tokens \in Nat /\ FixedOverhead \in Nat /\ Blocked(messages)
  BY TokensNat, CompactionAssumption DEF CmpInv, CmpTypes, CmpGroups
<1>1. CASE UNCHANGED cmpVars
  BY <1>1 DEF cmpVars, CmpInv, CmpTypes, CmpGroups, CmpCounts
<1>2. CASE CooldownElapses
  BY <1>2 DEF CooldownElapses, CmpInv, CmpTypes, CmpGroups, CmpCounts
<1>3. CASE UserMessage
  <2>1. PICK n \in TextTokens : Appends(Message("user", n)) /\ token_cache' = token_cache + n
    BY <1>3 DEF UserMessage
  <2>2. n \in Nat /\ Slack \in Nat
    BY SlackIs
  <2>3. token_cache' \in Nat /\ (~seen.overtaken => token_cache' + Slack >= Tokens(messages) + n)
    BY <1>t, <2>1, <2>2 DEF CmpInv, CmpCounts
  <2> QED
    BY <1>3, <1>t, <2>1, <2>3, AppendInv DEF UserMessage
<1>4. CASE BuildRequest
  <2>1. seen.overtaken' = seen.overtaken /\ UNCHANGED <<messages, token_cache, streak, thrash, counted>>
    BY <1>4 DEF BuildRequest, CmpInv, CmpTypes
  <2>2. CmpTypes' /\ ctxTurn'.pc # "results" /\
        (ctxTurn'.pc = "llm" => request'.tokens >= Tokens(messages) + FixedOverhead)
    <3>1. seen' \in [requests : Nat, snapshots : Nat, overtaken : BOOLEAN]
      BY <1>4 DEF BuildRequest, CmpInv, CmpTypes
    <3>2. CASE token_cache + FixedOverhead <= EffectiveThreshold
      <4>1. /\ request' = [tokens |-> Tokens(messages) + FixedOverhead + 0,
                           warned |-> FALSE, refused |-> FALSE]
            /\ ctxTurn' = [ctxTurn EXCEPT !.pc = "llm"]
        BY <1>4, <3>2 DEF BuildRequest, RequestGoes
      <4>2. Tokens(messages) + FixedOverhead \in Nat /\ Tokens(messages) + FixedOverhead + 0 \in Nat
            /\ Tokens(messages) + FixedOverhead + 0 = Tokens(messages) + FixedOverhead
            /\ Tokens(messages) + FixedOverhead >= Tokens(messages) + FixedOverhead
        BY <1>t
      <4>3. request' \in [tokens : Nat, warned : BOOLEAN, refused : BOOLEAN]
            /\ request'.tokens >= Tokens(messages) + FixedOverhead
        BY <4>1, <4>2
      <4>4. ctxTurn' \in [pc : {"idle", "build", "clip", "levels", "judge", "llm", "results"},
                          due : Int, emergency : BOOLEAN, forced : BOOLEAN]
            /\ ctxTurn'.pc = "llm"
        BY <4>1 DEF CmpInv, CmpTypes
      <4> QED
        BY <2>1, <3>1, <4>3, <4>4 DEF CmpInv, CmpTypes
    <3>3. CASE ~(token_cache + FixedOverhead <= EffectiveThreshold)
      <4>1. /\ ctxTurn' = [ctxTurn EXCEPT !.pc = IF Refusing THEN "idle" ELSE "clip"]
            /\ request' = [request EXCEPT !.refused = Refusing]
        BY <1>4, <3>3 DEF BuildRequest
      <4>2. Refusing \in BOOLEAN
        BY DEF Refusing, Thrashing, CmpInv, CmpTypes
      <4> HIDE DEF Refusing
      <4> QED
        BY <1>t, <2>1, <3>1, <4>1, <4>2 DEF CmpInv, CmpTypes
    <3> QED
      BY <3>2, <3>3
  <2>3. CmpGroups'
    BY <1>t, <2>1, <2>2 DEF CmpGroups
  <2>4. CmpCounts'
    BY <2>1, <2>2 DEF CmpInv, CmpCounts
  <2> QED
    BY <2>2, <2>3, <2>4 DEF CmpInv
<1>5. CASE ClipResults
  <2>1. /\ messages' = Clip(messages) /\ ctxTurn' = [ctxTurn EXCEPT !.pc = "levels"]
        /\ UNCHANGED <<token_cache, streak, thrash, counted, request, seen>>
    BY <1>5 DEF ClipResults
  <2>2. messages' \in Seq(MessageType) /\ Tokens(messages') <= Tokens(messages)
    BY <1>t, <2>1, ClipLightens
  <2>3. Blocked(messages')
    BY <1>t, <2>1, ClipKeepsGroups
  <2>4. Tokens(messages') \in Nat /\ Slack \in Nat
    BY <2>2, TokensNat, SlackIs
  <2>5. CmpTypes' /\ ctxTurn'.pc = "levels"
    BY <2>1, <2>2 DEF CmpInv, CmpTypes
  <2>6. CmpCounts'
    BY <1>t, <2>1, <2>2, <2>4, <2>5 DEF CmpInv, CmpCounts
  <2> QED
    BY <2>3, <2>5, <2>6 DEF CmpInv, CmpGroups
<1>6. CASE Compress
  <2>1. PICK n \in SummaryTokens : messages' = AfterClip(messages, n)
    BY <1>6 DEF Compress
  <2>2. /\ token_cache' = Tokens(messages') /\ ctxTurn' = [ctxTurn EXCEPT !.pc = "judge"]
        /\ UNCHANGED <<streak, thrash, counted, request, seen>>
    BY <1>6 DEF Compress
  <2>3. messages' \in Seq(MessageType) /\ Blocked(messages')
    BY <1>t, <2>1, CompressionKeepsGroups
  <2>4. Tokens(messages') \in Nat /\ Slack \in Nat
    BY <2>3, TokensNat, SlackIs
  <2>5. CmpTypes' /\ ctxTurn'.pc = "judge"
    BY <2>2, <2>3, <2>4 DEF CmpInv, CmpTypes
  <2>6. CmpCounts'
    BY <2>2, <2>4, <2>5 DEF CmpCounts
  <2> QED
    BY <2>3, <2>5, <2>6 DEF CmpInv, CmpGroups
<1>7. CASE JudgeCompression
  <2>1. UNCHANGED <<messages, token_cache, streak, counted, seen>>
    BY <1>7 DEF JudgeCompression
  <2> DEFINE limit == EffectiveThreshold - FixedOverhead
             over == limit > 0 /\ Tokens(messages) > limit
             after == IF over THEN OverAgain(thrash) ELSE Succeeded(thrash)
  <2>2. /\ thrash' = after
        /\ CASE over /\ Thrashing(after) ->
                  /\ ctxTurn' = [ctxTurn EXCEPT !.pc = "idle"]
                  /\ request' = [request EXCEPT !.refused = TRUE]
             [] ~(over /\ Thrashing(after)) /\ ctxTurn.forced ->
                  /\ ctxTurn' = [ctxTurn EXCEPT !.pc = "build", !.forced = FALSE]
                  /\ UNCHANGED request
             [] OTHER -> \E injected \in {0, Remaining} : RequestGoes(messages, injected, over)
    BY <1>7 DEF JudgeCompression
  <2>3. over \in BOOLEAN /\ after \in [oversize : Nat, cooling : BOOLEAN]
    BY DEF CmpInv, CmpTypes, OverAgain, Succeeded
  <2>4. Remaining \in Nat
    <3> DEFINE T == {EffectiveThreshold - (Tokens(messages) + FixedOverhead), 0}
    <3>1. EffectiveThreshold \in Nat
      BY <1>t, EffectiveIs
    <3>2. (\E x \in T : \A y \in T : x >= y) /\ \A x \in T : (\A y \in T : x >= y) => x \in Nat
      BY <1>t, <3>1
    <3>3. Remaining = Max(T)
      BY DEF Remaining
    <3> HIDE DEF T
    <3> QED
      BY <3>2, <3>3 DEF Max
  <2> HIDE DEF over, after
  <2>5. CASE over /\ Thrashing(after)
    <3>1. /\ ctxTurn' = [ctxTurn EXCEPT !.pc = "idle"]
          /\ request' = [request EXCEPT !.refused = TRUE]
      BY <2>2, <2>5
    <3> QED
      BY <2>1, <2>2, <2>3, <3>1 DEF CmpInv, CmpTypes, CmpGroups, CmpCounts
  <2>6. CASE ~(over /\ Thrashing(after)) /\ ctxTurn.forced
    <3>1. /\ ctxTurn' = [ctxTurn EXCEPT !.pc = "build", !.forced = FALSE]
          /\ UNCHANGED request
      BY <2>2, <2>6
    <3> QED
      BY <2>1, <2>2, <2>3, <3>1 DEF CmpInv, CmpTypes, CmpGroups, CmpCounts
  <2>7. CASE ~(over /\ Thrashing(after)) /\ ~ctxTurn.forced
    <3>1. PICK injected \in {0, Remaining} : RequestGoes(messages, injected, over)
      BY <2>2, <2>7
    <3>2. injected \in Nat
      BY <2>4
    <3>3. /\ request' = [tokens |-> Tokens(messages) + FixedOverhead + injected,
                         warned |-> over, refused |-> FALSE]
          /\ ctxTurn' = [ctxTurn EXCEPT !.pc = "llm"]
      BY <3>1 DEF RequestGoes
    <3>4. CmpTypes' /\ ctxTurn'.pc = "llm"
      <4>1. request' \in [tokens : Nat, warned : BOOLEAN, refused : BOOLEAN]
        BY <1>t, <2>3, <3>2, <3>3
      <4>2. ctxTurn' \in [pc : {"llm"}, due : Int, emergency : BOOLEAN, forced : BOOLEAN]
        BY <3>3 DEF CmpInv, CmpTypes
      <4> QED
        BY <2>1, <2>2, <2>3, <4>1, <4>2 DEF CmpInv, CmpTypes
    <3>5. CmpCounts'
      BY <1>t, <2>1, <3>2, <3>3 DEF CmpInv, CmpCounts
    <3> QED
      BY <1>t, <2>1, <3>4, <3>5 DEF CmpInv, CmpGroups
  <2> QED
    BY <2>5, <2>6, <2>7
<1>8. CASE AppendReply
  <2>1. PICK n \in TextTokens, actual \in Usages :
          \/ /\ AppendsAnswer(Message("asst", n), actual)
             /\ ctxTurn' = [ctxTurn EXCEPT !.pc = "idle"]
          \/ /\ AppendsAnswer(Message("call", n), actual)
             /\ \E k \in 1..MaxResults :
                   ctxTurn' = [ctxTurn EXCEPT !.pc = "results", !.due = k]
    BY <1>8 DEF AppendReply
  <2>2. ctxTurn.pc = "llm" /\ UNCHANGED <<thrash, counted, request, seen>>
    BY <1>8 DEF AppendReply
  <2>3. n \in Nat /\ n > 0 /\ n <= Slack /\ Slack \in Nat /\ actual \in Nat
    BY <1>t, SlackIs DEF Usages
  <2>4. actual = 0 \/ actual >= Tokens(messages) + FixedOverhead
    BY <1>t, <2>2 DEF Usages, CmpInv, CmpCounts
  <2>5. PICK role \in {"asst", "call"} : /\ AppendsAnswer(Message(role, n), actual)
                                         /\ ctxTurn'.pc = "results" => role = "call"
    BY <2>1 DEF CmpInv, CmpTypes
  <2>6. ctxTurn' \in [pc : {"idle", "build", "results"},
                      due : Int, emergency : BOOLEAN, forced : BOOLEAN]
    <3>1. ctxTurn \in [pc : {"llm"}, due : Int, emergency : BOOLEAN, forced : BOOLEAN]
      BY <2>2 DEF CmpInv, CmpTypes
    <3>2. CASE ctxTurn' = [ctxTurn EXCEPT !.pc = "idle"]
      BY <3>1, <3>2
    <3>3. ASSUME NEW k \in 1..MaxResults, ctxTurn' = [ctxTurn EXCEPT !.pc = "results", !.due = k]
          PROVE  ctxTurn' \in [pc : {"results"}, due : Int, emergency : BOOLEAN, forced : BOOLEAN]
      <4> DEFINE I == Int
      <4>1. k \in I /\ ctxTurn \in [pc : {"llm"}, due : I, emergency : BOOLEAN, forced : BOOLEAN]
        BY <3>1
      <4> HIDE DEF I
      <4>2. ctxTurn' \in [pc : {"results"}, due : I, emergency : BOOLEAN, forced : BOOLEAN]
        BY <3>3, <4>1
      <4> QED
        BY <4>2 DEF I
    <3> QED
      BY <2>1, <3>2, <3>3
  <2>7. Message(role, n).tokens = n
    BY <2>3 DEF Message
  <2> DEFINE cache == token_cache + n
             counts == Max({actual - FixedOverhead, 0})
  <2>8. /\ Appends(Message(role, n)) /\ token_cache' = Calibrated(cache, actual)
        /\ streak' \in {streak, streak + 1, 0}
    BY <2>5, <2>7 DEF AppendsAnswer
  <2>9. counts \in Nat /\ counts >= actual - FixedOverhead
    <3> DEFINE T == {actual - FixedOverhead, 0}
    <3>1. /\ \E x \in T : \A y \in T : x >= y
          /\ \A x \in T : (\A y \in T : x >= y) => x \in Nat /\ x >= actual - FixedOverhead
      BY <1>t, <2>3
    <3>2. counts = Max(T)
      OBVIOUS
    <3> HIDE DEF T, counts
    <3> QED
      BY <3>1, <3>2 DEF Max
  <2>10. token_cache' = cache \/ (token_cache' = (cache + counts) \div 2 /\ actual # 0)
    BY <2>8 DEF Calibrated
  <2> HIDE DEF counts
  <2>11. token_cache' \in Nat /\ (~seen.overtaken => token_cache' + Slack >= Tokens(messages) + n)
    <3>1. ~seen.overtaken => token_cache + Slack >= Tokens(messages)
      BY DEF CmpInv, CmpCounts
    <3>2. CASE token_cache' = cache
      BY <1>t, <2>3, <3>1, <3>2
    <3>3. CASE token_cache' = (cache + counts) \div 2 /\ actual # 0
      <4>1. counts >= Tokens(messages)
        BY <1>t, <2>3, <2>4, <2>9, <3>3
      <4> QED
        BY <1>t, <2>3, <2>9, <3>1, <3>3, <4>1
    <3> QED
      BY <2>10, <3>2, <3>3
  <2> QED
    BY <1>t, <2>2, <2>5, <2>6, <2>8, <2>11, AppendInv
<1>9. CASE AppendResult
  <2> DEFINE t == [messages EXCEPT ![WaitingCall(messages)].results = @ + 1]
  <2>1. PICK n \in ResultTokens :
           messages' = Append(t, Message("tool", n)) /\ token_cache' = token_cache + n
    BY <1>9 DEF AppendResult, WaitingCall
  <2>2. ctxTurn.pc = "results" /\ UNCHANGED <<streak, thrash, counted, request, seen>>
    BY <1>9 DEF AppendResult
  <2>3. /\ ctxTurn'.pc \in {"results", "build", "idle"}
        /\ ctxTurn' \in [pc : {"results", "build", "idle"},
                         due : Int, emergency : BOOLEAN, forced : BOOLEAN]
    <3>1. PICK p \in {"results", "build", "idle"} :
             ctxTurn' = [ctxTurn EXCEPT !.due = @ - 1, !.emergency = FALSE, !.pc = p]
      <4> DEFINE q == CASE ctxTurn.due > 1 -> "results"
                        [] ctxTurn.due = 1 /\ seen.requests < MaxRequests -> "build"
                        [] OTHER -> "idle"
      <4>1. q \in {"results", "build", "idle"}
        OBVIOUS
      <4>2. ctxTurn' = [ctxTurn EXCEPT !.due = @ - 1, !.emergency = FALSE, !.pc = q]
        BY <1>9 DEF AppendResult
      <4> QED
        BY <4>1, <4>2
    <3>2. ctxTurn \in [pc : {"results"}, due : Int, emergency : BOOLEAN, forced : BOOLEAN]
      BY <2>2 DEF CmpInv, CmpTypes
    <3> DEFINE I == Int
               d == ctxTurn.due - 1
    <3>3. /\ d \in I /\ ctxTurn \in [pc : {"results"}, due : I, emergency : BOOLEAN, forced : BOOLEAN]
          /\ ctxTurn' = [ctxTurn EXCEPT !.due = d, !.emergency = FALSE, !.pc = p]
      BY <3>1, <3>2
    <3> HIDE DEF I, d
    <3>4. /\ ctxTurn'.pc = p
          /\ ctxTurn' \in [pc : {"results", "build", "idle"}, due : I,
                           emergency : BOOLEAN, forced : BOOLEAN]
      BY <3>3
    <3> QED
      BY <3>4 DEF I
  <2>4. n \in Nat
    BY CompactionAssumption
  <2> DEFINE m == Message("tool", n)
  <2>5. m \in MessageType /\ m.role = "tool" /\ m.tokens = n
    BY <2>4, MessageIs DEF Role
  <2>6. EndsInGroup(messages)
    BY <2>2 DEF CmpInv, CmpGroups
  <2> HIDE DEF m
  <2>7. /\ t \in Seq(MessageType) /\ Tokens(t) <= Tokens(messages)
        /\ Blocked(Append(t, m)) /\ EndsInGroup(Append(t, m))
    BY <1>t, <2>5, <2>6, ResultKeepsGroups
  <2> HIDE DEF t
  <2>8. messages' = Append(t, m)
    BY <2>1 DEF m
  <2>9. messages' \in Seq(MessageType) /\ Tokens(messages') = Tokens(t) + n /\ Tokens(t) \in Nat
    BY <2>5, <2>7, <2>8, TokensAppend, TokensNat
  <2>10. CmpTypes'
    BY <1>t, <2>1, <2>2, <2>3, <2>4, <2>9 DEF CmpInv, CmpTypes
  <2>11. CmpCounts'
    BY <1>t, <2>1, <2>2, <2>3, <2>4, <2>7, <2>9, SlackIs DEF CmpInv, CmpCounts
  <2> QED
    BY <2>7, <2>8, <2>10, <2>11 DEF CmpInv, CmpGroups
<1>10. CASE ContextLength
  <2>1. /\ UNCHANGED <<messages, token_cache, streak, thrash, counted, request, seen>>
        /\ ctxTurn'.pc \in {"idle", "clip"}
        /\ ctxTurn' \in [pc : {"idle", "clip"},
                         due : Int, emergency : BOOLEAN, forced : BOOLEAN]
    BY <1>10 DEF ContextLength, CmpInv, CmpTypes
  <2> QED
    BY <2>1 DEF CmpInv, CmpTypes, CmpGroups, CmpCounts
<1>11. CASE CancelTurn
  <2>1. PICK n \in TextTokens : Appends(Message("asst", n)) /\ token_cache' = token_cache + n
    BY <1>11 DEF CancelTurn
  <2>2. n \in Nat /\ Slack \in Nat
    BY SlackIs
  <2>3. token_cache' \in Nat /\ (~seen.overtaken => token_cache' + Slack >= Tokens(messages) + n)
    BY <1>t, <2>1, <2>2 DEF CmpInv, CmpCounts
  <2>4. /\ ctxTurn' \in [pc : {"idle", "build", "results"},
                         due : Int, emergency : BOOLEAN, forced : BOOLEAN]
        /\ ctxTurn'.pc = "idle" /\ UNCHANGED <<streak, thrash, counted, request, seen>>
    BY <1>11 DEF CancelTurn, CmpInv, CmpTypes
  <2> QED
    BY <1>t, <2>1, <2>3, <2>4, AppendInv
<1>12. CASE SnapshotCounts
  <2>1. /\ counted' = Tokens(messages) /\ seen' = [seen EXCEPT !.snapshots = @ + 1]
        /\ UNCHANGED <<messages, token_cache, streak, thrash, ctxTurn, request>>
    BY <1>12 DEF SnapshotCounts
  <2> QED
    BY <1>t, <2>1 DEF CmpInv, CmpTypes, CmpGroups, CmpCounts
<1>13. CASE SnapshotStores
  <2>1. /\ counted \in Nat /\ token_cache' = counted /\ counted' = NotCounted
        /\ seen' = [seen EXCEPT !.overtaken = @ \/ counted < Tokens(messages)]
        /\ UNCHANGED <<messages, streak, thrash, ctxTurn, request>>
    BY <1>13, <1>t DEF SnapshotStores
  <2>2. CmpTypes' /\ (~seen'.overtaken => counted >= Tokens(messages))
    <3> DEFINE overtakes == counted < Tokens(messages)
    <3>1. seen' = [seen EXCEPT !.overtaken = seen.overtaken \/ overtakes]
      BY <2>1
    <3>2. overtakes \in BOOLEAN /\ (~overtakes => counted >= Tokens(messages))
      BY <1>t, <2>1
    <3>3. seen \in [requests : Nat, snapshots : Nat, overtaken : BOOLEAN]
      BY DEF CmpInv, CmpTypes
    <3> HIDE DEF overtakes
    <3>4. /\ seen' \in [requests : Nat, snapshots : Nat, overtaken : BOOLEAN]
          /\ seen'.overtaken = (seen.overtaken \/ overtakes)
      BY <3>1, <3>2, <3>3
    <3> QED
      BY <2>1, <3>2, <3>4 DEF CmpInv, CmpTypes
  <2>3. CmpCounts'
    BY <1>t, <2>1, <2>2, SlackIs DEF CmpInv, CmpCounts
  <2> QED
    BY <2>1, <2>2, <2>3 DEF CmpInv, CmpGroups
<1> QED
  BY <1>1, <1>2, <1>3, <1>4, <1>5, <1>6, <1>7, <1>8, <1>9, <1>10, <1>11, <1>12, <1>13 DEF CmpNext

(* Compression takes a call and its results together or not at all, whatever the        *)
(* thresholds and the windows: ExpandToGroups (tool_group.rs) at each level, and a       *)
(* result is appended only behind its call.                                              *)
THEOREM GroupsStayWhole == CmpSpec => []GroupsWhole
<1>1. CmpInit => CmpInv
  BY CmpInitInv
<1>2. CmpInv /\ [CmpNext]_cmpVars => CmpInv'
  BY CmpStepInv
<1>3. CmpInv => GroupsWhole
  BY BlocksAreGroups DEF CmpInv, CmpTypes, CmpGroups
<1> QED
  BY <1>1, <1>2, <1>3, PTL DEF CmpSpec

(* Where the overhead leaves room under the threshold however often it was tightened,   *)
(* so that a compression is judged (with none left, the code takes every one for a       *)
(* success and sends what it has): calibrate never takes the count further below than    *)
(* the one message the provider had not yet counted.                                      *)
OverheadFits == FixedOverhead < (Threshold * 60) \div 100

LEMMA RequestFitsStep ==
    ASSUME OverheadFits, CmpInv, RequestFits, [CmpNext]_cmpVars
    PROVE  RequestFits'
<1>t. /\ CmpInv' /\ Slack \in Nat /\ FixedOverhead \in Nat /\ Threshold \in Nat
      /\ Tokens(messages) \in Nat /\ token_cache \in Nat
  BY CmpStepInv, SlackIs, TokensNat, CompactionAssumption DEF CmpInv, CmpTypes
<1>e. /\ EffectiveThreshold \in Nat /\ EffectiveThreshold <= Threshold
      /\ FixedOverhead < EffectiveThreshold
  <2>1. streak \in Nat
    BY DEF CmpInv, CmpTypes
  <2>2. /\ EffectiveThreshold \in Nat /\ EffectiveThreshold <= Threshold
        /\ EffectiveThreshold >= (Threshold * 60) \div 100
    BY <2>1, EffectiveIs
  <2>3. (Threshold * 60) \div 100 \in Int
    BY <1>t
  <2> QED
    BY <1>t, <2>2, <2>3 DEF OverheadFits
<1>1. SUFFICES ASSUME ~seen.overtaken'
               PROVE  request'.tokens > Threshold + Slack => request'.warned
  BY <1>t DEF CmpInv, CmpCounts, RequestFits, Slack
<1>2. ~seen.overtaken
  BY <1>1 DEF CmpInv, CmpTypes, CmpNext, cmpVars, CooldownElapses, UserMessage, BuildRequest,
     ClipResults, Compress, JudgeCompression, AppendReply, AppendResult, ContextLength,
     CancelTurn, SnapshotCounts, SnapshotStores
<1>3. /\ token_cache + Slack >= Tokens(messages)
      /\ request.tokens > Threshold + Slack => request.warned
  BY <1>2 DEF RequestFits, CmpInv, CmpCounts, Slack
<1>4. CASE BuildRequest
  <2>1. CASE token_cache + FixedOverhead <= EffectiveThreshold
    <3>1. request'.tokens = Tokens(messages) + FixedOverhead + 0
      BY <1>4, <2>1 DEF BuildRequest, RequestGoes
    <3> QED
      BY <1>t, <1>e, <1>3, <2>1, <3>1
  <2>2. CASE ~(token_cache + FixedOverhead <= EffectiveThreshold)
    <3>1. request' = [request EXCEPT !.refused = Refusing]
      BY <1>4, <2>2 DEF BuildRequest
    <3> QED
      BY <1>3, <3>1 DEF CmpInv, CmpTypes
  <2> QED
    BY <2>1, <2>2
<1>5. CASE JudgeCompression
  <2> DEFINE limit == EffectiveThreshold - FixedOverhead
             over == limit > 0 /\ Tokens(messages) > limit
             after == IF over THEN OverAgain(thrash) ELSE Succeeded(thrash)
  <2>1. \/ request' = [request EXCEPT !.refused = TRUE]
        \/ request' = request
        \/ \E injected \in {0, Remaining} : RequestGoes(messages, injected, over)
    <3> HIDE DEF over
    <3> SUFFICES TRUE /\ (CASE over /\ Thrashing(after) ->
                  /\ ctxTurn' = [ctxTurn EXCEPT !.pc = "idle"]
                  /\ request' = [request EXCEPT !.refused = TRUE]
          [] ~(over /\ Thrashing(after)) /\ ctxTurn.forced ->
                  /\ ctxTurn' = [ctxTurn EXCEPT !.pc = "build", !.forced = FALSE]
                  /\ UNCHANGED request
          [] OTHER -> \E injected \in {0, Remaining} : RequestGoes(messages, injected, over))
      OBVIOUS
    <3> QED
      BY <1>5 DEF JudgeCompression, over
  <2>2. ~over => Tokens(messages) + FixedOverhead <= EffectiveThreshold
    BY <1>t, <1>e
  <2> HIDE DEF over, after
  <2>4. CASE request' = [request EXCEPT !.refused = TRUE]
    BY <1>3, <2>4 DEF CmpInv, CmpTypes
  <2>5. CASE request' = request
    BY <1>3, <2>5
  <2>6. ASSUME NEW injected \in {0, Remaining}, RequestGoes(messages, injected, over)
        PROVE  request'.tokens > Threshold + Slack => request'.warned
    <3>1. request'.tokens = Tokens(messages) + FixedOverhead + injected /\ request'.warned = over
      BY <2>6 DEF RequestGoes
    <3>2. ASSUME ~over PROVE injected \in Nat /\ Tokens(messages) + FixedOverhead + injected <= EffectiveThreshold
      <4> DEFINE T == {EffectiveThreshold - (Tokens(messages) + FixedOverhead), 0}
      <4>1. /\ \E x \in T : \A y \in T : x >= y
            /\ \A x \in T : x \in Nat /\ Tokens(messages) + FixedOverhead + x <= EffectiveThreshold
        BY <1>t, <1>e, <2>2, <3>2
      <4>2. Remaining = Max(T)
        BY DEF Remaining
      <4>3. 0 \in T
        OBVIOUS
      <4> HIDE DEF T
      <4>4. Remaining \in T
        BY <4>1, <4>2 DEF Max
      <4> QED
        BY <4>1, <4>3, <4>4
    <3> QED
      BY <1>t, <1>e, <3>1, <3>2
  <2> QED
    BY <2>1, <2>4, <2>5, <2>6
<1>6. CASE UNCHANGED request
  BY <1>3, <1>6
<1> QED
  BY <1>4, <1>5, <1>6 DEF CmpNext, cmpVars, CooldownElapses, UserMessage, ClipResults, Compress,
     AppendReply, AppendResult, ContextLength, CancelTurn, SnapshotCounts, SnapshotStores

THEOREM RequestsFit == ASSUME OverheadFits PROVE CmpSpec => []RequestFits
<1>1. CmpInit => CmpInv
  BY CmpInitInv
<1>2. CmpInv /\ [CmpNext]_cmpVars => CmpInv'
  BY CmpStepInv
<1>3. CmpInit => RequestFits
  <2> SUFFICES ASSUME CmpInit PROVE RequestFits
    OBVIOUS
  <2>1. CmpInv /\ request = [tokens |-> 0, warned |-> FALSE, refused |-> FALSE] /\ ~seen.overtaken
    BY CmpInitInv DEF CmpInit
  <2>2. 0 <= Threshold + Slack
    BY SlackIs, CompactionAssumption
  <2> QED
    BY <2>1, <2>2, SlackIs, CompactionAssumption DEF RequestFits, CmpInv, CmpCounts, Slack
<1>4. CmpInv /\ RequestFits /\ [CmpNext]_cmpVars => RequestFits'
  BY RequestFitsStep
<1> QED
  BY <1>1, <1>2, <1>3, <1>4, PTL DEF CmpSpec

(* A call is given no more results than one message may ask for: counted with those that *)
(* are still due, and kept by every level of compression.                                *)
Given(msgs) == \A i \in 1..Len(msgs) : msgs[i].results <= MaxResults
CmpBounds ==
    /\ Given(messages) /\ ctxTurn.due \in 0..MaxResults
    /\ ctxTurn.pc = "results" =>
          ctxTurn.due >= 1 /\ messages[WaitingCall(messages)].results + ctxTurn.due <= MaxResults

LEMMA KeepGiven ==
    ASSUME NEW msgs \in Seq(MessageType), Given(msgs), NEW dropped
    PROVE  Keep(msgs, dropped) \in Seq(MessageType) /\ Given(Keep(msgs, dropped))
<1> DEFINE kept == Keep(msgs, dropped)
<1>1. kept \in Seq(MessageType) /\ \E pos : KeptPlaces(pos, msgs, dropped, kept)
  BY KeepHasPlaces
<1> HIDE DEF kept
<1>2. PICK pos : KeptPlaces(pos, msgs, dropped, kept)
  BY <1>1
<1>3. ASSUME NEW p \in 1..Len(kept) PROVE kept[p].results <= MaxResults
  <2>1. PICK n \in 1..Len(msgs) : kept[p] = msgs[n]
    BY <1>1, <1>2, PlacesAreTaken
  <2> QED
    BY <2>1 DEF Given
<1>4. Given(kept)
  BY <1>3 DEF Given
<1> QED
  BY <1>1, <1>4 DEF kept

LEMMA SummarizeGiven ==
    ASSUME NEW msgs \in Seq(MessageType), Given(msgs), NEW n \in SummaryTokens
    PROVE  Given(Summarize(msgs, n))
<1> DEFINE D == ExpandToGroups(msgs, Lightest(msgs))
           first == Min(D)
           summary == Message("asst", n)
           t == [msgs EXCEPT ![first] = summary]
           E == D \ {first}
<1>1. CASE D = {}
  BY <1>1 DEF Summarize
<1>2. CASE D # {}
  <2>1. Summarize(msgs, n) = Keep(t, E)
    BY <1>2 DEF Summarize
  <2>2. summary \in MessageType /\ summary.results = 0 /\ MaxResults \in Nat
    BY MessageIs, CompactionAssumption DEF Role
  <2>5. first \in 1..Len(msgs)
    <3>1. Lightest(msgs) \subseteq 1..Len(msgs)
      BY DEF Lightest
    <3>2. D \subseteq 1..Len(msgs)
      BY <3>1, ExpandedIsWithin
    <3> HIDE DEF D
    <3>3. D \subseteq Nat
      BY <3>2
    <3>4. first \in D
      BY <1>2, <3>3, MinIs
    <3> QED
      BY <3>2, <3>4
  <2> HIDE DEF D, first, summary
  <2>3. /\ t \in Seq(MessageType) /\ Len(t) = Len(msgs)
        /\ \A i \in 1..Len(msgs) : t[i] = msgs[i] \/ t[i] = summary
    BY <2>2, <2>5
  <2> HIDE DEF t, E
  <2>4. Given(t)
    BY <2>2, <2>3 DEF Given
  <2> QED
    BY <2>1, <2>3, <2>4, KeepGiven
<1> QED
  BY <1>1, <1>2

LEMMA CompressionGiven ==
    ASSUME NEW msgs \in Seq(MessageType), Blocked(msgs), Given(msgs), NEW n \in SummaryTokens
    PROVE  Given(AfterClip(msgs, n))
<1> DEFINE l2 == Summarize(msgs, n)
           l3 == Roll(l2)
<1>1. l2 \in Seq(MessageType) /\ Given(l2)
  BY SummarizeKeepsGroups, SummarizeGiven
<1> HIDE DEF l2
<1>2. l3 \in Seq(MessageType) /\ Given(l3)
  BY <1>1, KeepGiven DEF Roll
<1> HIDE DEF l3
<1>3. Given(HardTruncate(l3))
  BY <1>2, KeepGiven DEF HardTruncate
<1>4. AfterClip(msgs, n) \in {msgs, l2, l3, HardTruncate(l3)}
  <2>1. AfterClip(msgs, n) = CASE Fits(msgs) -> msgs [] ~Fits(msgs) /\ Fits(l2) -> l2
                               [] OTHER -> IF Fits(l3) THEN l3 ELSE HardTruncate(l3)
    BY DEF AfterClip, l2, l3
  <2> QED
    BY <2>1
<1> QED
  BY <1>1, <1>2, <1>3, <1>4

LEMMA AppendGiven ==
    ASSUME NEW msgs \in Seq(MessageType), Given(msgs), NEW m \in MessageType, m.results <= MaxResults
    PROVE  Given(Append(msgs, m))
<1> DEFINE t == Append(msgs, m)
<1>1. Len(t) = Len(msgs) + 1 /\ Len(msgs) \in Nat /\ t[Len(msgs) + 1] = m
      /\ \A i \in 1..Len(msgs) : t[i] = msgs[i]
  OBVIOUS
<1> HIDE DEF t
<1>2. ASSUME NEW i \in 1..Len(t) PROVE t[i].results <= MaxResults
  <2>1. i \in 1..Len(msgs) \/ i = Len(msgs) + 1
    BY <1>1
  <2> QED
    BY <1>1, <2>1 DEF Given
<1> QED
  BY <1>2 DEF Given, t

LEMMA CmpStepBounds ==
    ASSUME CmpInv, CmpBounds, [CmpNext]_cmpVars
    PROVE  CmpBounds'
<1>t. /\ messages \in Seq(MessageType) /\ Blocked(messages) /\ Given(messages)
      /\ MaxResults \in Nat /\ ctxTurn.due \in 0..MaxResults
      /\ ctxTurn \in [pc : {"idle", "build", "clip", "levels", "judge", "llm", "results"},
                      due : Int, emergency : BOOLEAN, forced : BOOLEAN]
  BY CompactionAssumption DEF CmpInv, CmpTypes, CmpGroups, CmpBounds
<1>n. CmpInv'
  BY CmpStepInv
<1>1. CASE UNCHANGED cmpVars
  BY <1>1 DEF cmpVars, CmpBounds
<1>2. ASSUME UNCHANGED messages, ctxTurn'.due = ctxTurn.due, ctxTurn'.pc # "results"
      PROVE  CmpBounds'
  BY <1>2, <1>t DEF CmpBounds
<1>3. ASSUME NEW role \in {"user", "asst", "call"}, NEW n \in TextTokens, Appends(Message(role, n))
      PROVE  Given(messages') /\ messages'[Len(messages')] = Message(role, n)
  <2> DEFINE m == Message(role, n)
  <2>1. m \in MessageType /\ m.results = 0
    BY SlackIs, MessageIs DEF Role
  <2> HIDE DEF m
  <2>2. messages' = Append(messages, m)
    BY <1>3 DEF Appends, m
  <2>3. Given(messages')
    BY <1>t, <2>1, <2>2, AppendGiven
  <2>4. messages'[Len(messages')] = m
    BY <1>t, <2>1, <2>2
  <2> QED
    BY <2>3, <2>4 DEF m
<1>4. CASE CooldownElapses \/ SnapshotCounts \/ SnapshotStores
  BY <1>4, <1>t DEF CooldownElapses, SnapshotCounts, SnapshotStores, CmpBounds
<1>5. CASE UserMessage
  <2>1. PICK n \in TextTokens : Appends(Message("user", n))
    BY <1>5 DEF UserMessage
  <2>2. Given(messages')
    BY <1>3, <2>1
  <2>3. ctxTurn'.due = 0 /\ ctxTurn'.pc = "build"
    BY <1>5 DEF UserMessage
  <2> QED
    BY <1>t, <2>2, <2>3 DEF CmpBounds
<1>6. CASE BuildRequest
  <2>1. ctxTurn' \in {[ctxTurn EXCEPT !.pc = p] : p \in {"llm", "idle", "clip"}} /\ UNCHANGED messages
    BY <1>6 DEF BuildRequest, RequestGoes
  <2> QED
    BY <1>2, <1>t, <2>1
<1>7. CASE ClipResults
  <2>1. messages' = Clip(messages) /\ ctxTurn' = [ctxTurn EXCEPT !.pc = "levels"]
    BY <1>7 DEF ClipResults
  <2>2. SameShape(messages, messages')
    BY <1>t, <2>1, ClipLightens
  <2>3. Given(messages')
    BY <1>t, <2>2 DEF SameShape, Given
  <2> QED
    BY <1>t, <2>1, <2>3 DEF CmpBounds
<1>8. CASE Compress
  <2>1. PICK n \in SummaryTokens : messages' = AfterClip(messages, n)
    BY <1>8 DEF Compress
  <2>2. ctxTurn' = [ctxTurn EXCEPT !.pc = "judge"]
    BY <1>8 DEF Compress
  <2>3. Given(messages')
    BY <1>t, <2>1, CompressionGiven
  <2> QED
    BY <1>t, <2>2, <2>3 DEF CmpBounds
<1>9. CASE JudgeCompression
  <2>1. UNCHANGED messages /\ ctxTurn'.due = ctxTurn.due /\ ctxTurn'.pc # "results"
    <3> DEFINE limit == EffectiveThreshold - FixedOverhead
               over == limit > 0 /\ Tokens(messages) > limit
               after == IF over THEN OverAgain(thrash) ELSE Succeeded(thrash)
    <3>1. /\ UNCHANGED messages
          /\ CASE over /\ Thrashing(after) ->
                  /\ ctxTurn' = [ctxTurn EXCEPT !.pc = "idle"]
                  /\ request' = [request EXCEPT !.refused = TRUE]
               [] ~(over /\ Thrashing(after)) /\ ctxTurn.forced ->
                  /\ ctxTurn' = [ctxTurn EXCEPT !.pc = "build", !.forced = FALSE]
                  /\ UNCHANGED request
               [] OTHER -> \E injected \in {0, Remaining} : RequestGoes(messages, injected, over)
      BY <1>9 DEF JudgeCompression
    <3> HIDE DEF over, after
    <3>2. \/ ctxTurn' = [ctxTurn EXCEPT !.pc = "idle"]
          \/ ctxTurn' = [ctxTurn EXCEPT !.pc = "build", !.forced = FALSE]
          \/ ctxTurn' = [ctxTurn EXCEPT !.pc = "llm"]
      BY <3>1 DEF RequestGoes
    <3> QED
      BY <1>t, <3>1, <3>2
  <2> QED
    BY <1>2, <2>1
<1>10. CASE AppendReply
  <2>1. PICK n \in TextTokens, actual \in Usages :
          \/ /\ AppendsAnswer(Message("asst", n), actual)
             /\ ctxTurn' = [ctxTurn EXCEPT !.pc = "idle"]
          \/ /\ AppendsAnswer(Message("call", n), actual)
             /\ \E k \in 1..MaxResults :
                   ctxTurn' = [ctxTurn EXCEPT !.pc = "results", !.due = k]
    BY <1>10 DEF AppendReply
  <2>2. CASE /\ AppendsAnswer(Message("asst", n), actual)
             /\ ctxTurn' = [ctxTurn EXCEPT !.pc = "idle"]
    <3>1. Appends(Message("asst", n))
      BY <2>2 DEF AppendsAnswer
    <3>2. Given(messages')
      BY <1>3, <3>1
    <3> QED
      BY <1>t, <2>2, <3>2 DEF CmpBounds
  <2>3. ASSUME AppendsAnswer(Message("call", n), actual), NEW k \in 1..MaxResults,
               ctxTurn' = [ctxTurn EXCEPT !.pc = "results", !.due = k]
        PROVE  CmpBounds'
    <3>1. Appends(Message("call", n))
      BY <2>3 DEF AppendsAnswer
    <3>2. Given(messages') /\ messages'[Len(messages')] = Message("call", n)
      BY <1>3, <3>1
    <3>3. ctxTurn'.due = k /\ ctxTurn'.pc = "results"
      BY <1>t, <2>3
    <3>4. Message("call", n).role = "call" /\ Message("call", n).results = 0
      BY SlackIs, MessageIs DEF Role
    <3>5. messages' \in Seq(MessageType) /\ Blocked(messages') /\ EndsInGroup(messages')
      BY <1>n, <3>3 DEF CmpInv, CmpTypes, CmpGroups
    <3>6. /\ WaitingCall(messages') \in 1..Len(messages')
          /\ \A j \in (WaitingCall(messages') + 1)..Len(messages') : messages'[j].role = "tool"
      BY <3>5, CallerWaits
    <3>7. WaitingCall(messages') = Len(messages')
      <4> DEFINE c == WaitingCall(messages')
                 N == Len(messages')
      <4>1. N \in Nat /\ c \in 1..N /\ messages'[N].role # "tool"
            /\ \A j \in (c + 1)..N : messages'[j].role = "tool"
        BY <3>2, <3>4, <3>5, <3>6
      <4> HIDE DEF c, N
      <4>2. c = N
        BY <4>1
      <4> QED
        BY <4>2 DEF c, N
    <3>8. messages'[WaitingCall(messages')].results = 0
      BY <3>2, <3>4, <3>7
    <3>9. k \in 0..MaxResults /\ k >= 1 /\ 0 + k <= MaxResults
      BY <1>t
    <3> QED
      BY <3>2, <3>3, <3>8, <3>9 DEF CmpBounds
  <2> QED
    BY <2>1, <2>2, <2>3
<1>11. CASE AppendResult
  <2> DEFINE c == WaitingCall(messages)
             t == [messages EXCEPT ![c].results = @ + 1]
             r == messages[c].results
  <2>1. PICK n \in ResultTokens : messages' = Append(t, Message("tool", n))
    BY <1>11 DEF AppendResult, WaitingCall
  <2> DEFINE m == Message("tool", n)
  <2>2. m \in MessageType /\ m.role = "tool" /\ m.results = 0
    <3>1. n \in Nat
      BY CompactionAssumption
    <3> QED
      BY <3>1, MessageIs DEF Role
  <2>3. ctxTurn.pc = "results" /\ ctxTurn.due >= 1 /\ EndsInGroup(messages)
    BY <1>11 DEF AppendResult, CmpInv, CmpGroups, CmpBounds
  <2>4. /\ c \in 1..Len(messages) /\ messages[c].role = "call"
        /\ \A k \in (c + 1)..Len(messages) : messages[k].role = "tool"
    BY <1>t, <2>3, CallerWaits
  <2>5. messages[c] \in MessageType /\ r \in Nat
    <3>1. messages[c] \in MessageType
      BY <1>t, <2>4
    <3> QED
      BY <3>1 DEF MessageType
  <2>6. r + ctxTurn.due <= MaxResults
    BY <2>3 DEF CmpBounds
  <2> HIDE DEF c, m
  <2>7. /\ t \in Seq(MessageType) /\ Len(t) = Len(messages) /\ t[c].results = r + 1 /\ t[c].role = "call"
        /\ \A i \in 1..Len(messages) : i # c => t[i] = messages[i]
    <3>1. [messages[c] EXCEPT !.results = @ + 1] \in MessageType
      BY <2>5 DEF MessageType
    <3> QED
      BY <1>t, <2>4, <2>5, <3>1 DEF MessageType
  <2> HIDE DEF t
  <2>8. Given(t)
    <3>1. r + 1 <= MaxResults
      BY <1>t, <2>3, <2>5, <2>6
    <3> HIDE DEF r
    <3>2. ASSUME NEW i \in 1..Len(t) PROVE t[i].results <= MaxResults
      BY <1>t, <2>7, <3>1 DEF Given
    <3> QED
      BY <3>2 DEF Given
  <2>9. messages' = Append(t, m)
    BY <2>1 DEF m
  <2>10. Given(messages')
    BY <1>t, <2>2, <2>7, <2>8, <2>9, AppendGiven
  <2>11. /\ ctxTurn'.due = ctxTurn.due - 1 /\ (ctxTurn'.pc = "results" => ctxTurn.due > 1)
    <3> DEFINE q == CASE ctxTurn.due > 1 -> "results"
                      [] ctxTurn.due = 1 /\ seen.requests < MaxRequests -> "build"
                      [] OTHER -> "idle"
               d == ctxTurn.due - 1
    <3>1. ctxTurn' = [ctxTurn EXCEPT !.due = d, !.emergency = FALSE, !.pc = q]
      BY <1>11 DEF AppendResult
    <3>2. q = "results" => ctxTurn.due > 1
      OBVIOUS
    <3> HIDE DEF q, d
    <3>3. ctxTurn'.due = d /\ ctxTurn'.pc = q
      BY <1>t, <3>1
    <3> QED
      BY <3>2, <3>3 DEF d
  <2>12. ASSUME ctxTurn'.pc = "results" PROVE WaitingCall(messages') = c
    <3>1. messages' \in Seq(MessageType) /\ Blocked(messages') /\ EndsInGroup(messages')
      BY <1>n, <2>12 DEF CmpInv, CmpTypes, CmpGroups
    <3> DEFINE e == WaitingCall(messages')
               N == Len(messages)
    <3>2. /\ e \in 1..Len(messages') /\ messages'[e].role = "call"
          /\ \A j \in (e + 1)..Len(messages') : messages'[j].role = "tool"
      BY <3>1, CallerWaits
    <3> HIDE DEF e
    <3>3. /\ N \in Nat /\ Len(messages') = N + 1 /\ messages'[N + 1] = m
          /\ \A i \in 1..N : messages'[i] = t[i]
      BY <1>t, <2>2, <2>7, <2>9
    <3> HIDE DEF N
    <3>4. c \in 1..N /\ messages'[c].role = "call" /\ messages'[N + 1].role = "tool"
      BY <2>2, <2>4, <2>7, <3>3 DEF N
    <3>5. \A i \in (c + 1)..N : messages'[i].role = "tool"
      BY <2>4, <2>7, <3>3, <3>4 DEF N
    <3>6. e = c
      BY <3>2, <3>3, <3>4, <3>5
    <3> QED
      BY <3>6 DEF e
  <2>13. messages'[c].results = r + 1
    BY <1>t, <2>2, <2>4, <2>7, <2>9
  <2>14. /\ ctxTurn'.due \in 0..MaxResults
         /\ ctxTurn.due > 1 => ctxTurn'.due >= 1 /\ r + 1 + ctxTurn'.due <= MaxResults
    <3>1. \A a, d, e \in Nat : d >= 1 /\ a + d <= MaxResults /\ e = d - 1 =>
             e \in 0..MaxResults /\ (d > 1 => e >= 1 /\ a + 1 + e <= MaxResults)
      BY <1>t
    <3>2. ctxTurn.due \in Nat /\ ctxTurn'.due \in Nat
      BY <1>t, <2>3, <2>11
    <3> QED
      BY <2>3, <2>5, <2>6, <2>11, <3>1, <3>2
  <2>15. ASSUME ctxTurn'.pc = "results"
         PROVE  ctxTurn'.due >= 1 /\ messages'[WaitingCall(messages')].results + ctxTurn'.due <= MaxResults
    BY <2>11, <2>12, <2>13, <2>14, <2>15
  <2> QED
    BY <2>10, <2>14, <2>15 DEF CmpBounds
<1>12. CASE ContextLength
  <2>1. /\ UNCHANGED messages
        /\ \/ ctxTurn' = [ctxTurn EXCEPT !.pc = "idle"]
           \/ ctxTurn' = [ctxTurn EXCEPT !.pc = "clip", !.emergency = TRUE, !.forced = TRUE]
    BY <1>12 DEF ContextLength
  <2> QED
    BY <1>2, <1>t, <2>1
<1>13. CASE CancelTurn
  <2>1. PICK n \in TextTokens : Appends(Message("asst", n))
    BY <1>13 DEF CancelTurn
  <2>2. Given(messages')
    BY <1>3, <2>1
  <2>3. ctxTurn' = [ctxTurn EXCEPT !.pc = "idle"]
    BY <1>13 DEF CancelTurn
  <2> QED
    BY <1>t, <2>2, <2>3 DEF CmpBounds
<1> QED
  BY <1>1, <1>4, <1>5, <1>6, <1>7, <1>8, <1>9, <1>10, <1>11, <1>12, <1>13 DEF CmpNext

(* The context's variables keep their types, and no call is given more results than      *)
(* it asked for: append and compress (minicoding-context, manager.rs).                    *)
THEOREM ContextTyped == CmpSpec => []CmpTypeOK
<1>1. CmpInit => CmpInv /\ CmpBounds
  <2>1. CmpInit => messages = <<>> /\ ctxTurn.due = 0 /\ ctxTurn.pc = "idle"
    BY DEF CmpInit
  <2>2. MaxResults \in Nat
    BY CompactionAssumption
  <2> QED
    BY <2>1, <2>2, CmpInitInv DEF CmpBounds, Given
<1>2. CmpInv /\ CmpBounds /\ [CmpNext]_cmpVars => CmpInv' /\ CmpBounds'
  BY CmpStepInv, CmpStepBounds
<1>3. CmpInv /\ CmpBounds => CmpTypeOK
  <2> SUFFICES ASSUME CmpInv, CmpBounds PROVE CmpTypeOK
    OBVIOUS
  <2> DEFINE Counted == [role : Role, tokens : Nat, results : 0..MaxResults]
  <2>1. messages \in Seq(MessageType) /\ Given(messages) /\ MaxResults \in Nat
    BY CompactionAssumption DEF CmpInv, CmpTypes, CmpBounds
  <2>2. ASSUME NEW i \in 1..Len(messages) PROVE messages[i] \in Counted
    <3>1. messages[i] \in MessageType /\ messages[i].results <= MaxResults
      BY <2>1 DEF Given
    <3>2. messages[i].results \in 0..MaxResults
      BY <2>1, <3>1 DEF MessageType
    <3> QED
      BY <3>1, <3>2 DEF MessageType
  <2> HIDE DEF Counted
  <2>3. messages \in Seq(Counted)
    BY <2>1, <2>2
  <2>4. ctxTurn \in [pc : {"idle", "build", "clip", "levels", "judge", "llm", "results"},
                     due : 0..MaxResults, emergency : BOOLEAN, forced : BOOLEAN]
    <3>1. /\ ctxTurn \in [pc : {"idle", "build", "clip", "levels", "judge", "llm", "results"},
                          due : Int, emergency : BOOLEAN, forced : BOOLEAN]
          /\ ctxTurn.due \in 0..MaxResults
      BY DEF CmpInv, CmpTypes, CmpBounds
    <3> QED
      BY <3>1
  <2> QED
    BY <2>3, <2>4 DEF Counted, Role, CmpInv, CmpTypes, CmpTypeOK
<1> QED
  BY <1>1, <1>2, <1>3, PTL DEF CmpSpec

--------------------------------------------------------------------------------
(* An answer on its way.  What is gathered is a beginning of what is said,  *)
(* and the bytes between the two take it, frame by frame, to the whole.     *)
Comment == <<[kind |-> "comment"]>>
Arguments == Seq([of : Nat, part : Nat])
FrameItem == [kind : {"text"}, text : Nat]
        \union [kind : {"use"}, index : Nat, id : Nat, args : Arguments]
        \union [kind : {"usage"}, input : Nat, output : Nat]
        \union [kind : {"stop", "[DONE]", "comment"}]
Byte == [half : 0..2, items : Seq(FrameItem)]
Parts == {"opening", "body", "usage", "sentinel", "message_stop", "complete"}
UseSaid == [index : Nat, args : Arguments]
Said == [texts : Nat, blocks : Nat, uses : Seq(UseSaid), noise : Nat, part : Parts]
CallTables == UNION {[D -> [id : Nat, args : Arguments]] : D \in SUBSET Nat}
Gathered == [texts : Seq(Nat), calls : CallTables, usage : Nat \X Nat, next : Nat]
ReaderType == [buffer : Seq(Byte), done : BOOLEAN, pull : BOOLEAN]
WireType == [bytes : Seq(Byte), end : {"open", "closed", "broken"}]

Count(t) == [n \in 1..t |-> n]
ArgsOf(k) == {<<>>, <<Part(k, 1)>>, Whole(k)}

(* What a provider may have said: its calls have growing numbers, of a form that is its own. *)
UsesNumbered(x) ==
    /\ \A k, l \in 1..Len(x.uses) : k < l => x.uses[k].index < x.uses[l].index
    /\ provider # "anthropic" => \A k \in 1..Len(x.uses) : x.uses[k].index = k - 1
    /\ provider = "anthropic" => \A k \in 1..Len(x.uses) : x.uses[k].index < x.blocks
Argued(x) ==
    /\ \A k \in 1..Len(x.uses) : x.uses[k].args \in ArgsOf(k)
    /\ provider = "ollama" \/ x.part \notin {"opening", "body"} =>
         \A k \in 1..Len(x.uses) : x.uses[k].args \in {<<>>, Whole(k)}
SaidOK(x) == x \in Said /\ UsesNumbered(x) /\ Argued(x)

SpentSoFar(part) ==
    CASE provider = "anthropic" /\ part = "opening" -> <<0, 0>>
      [] provider = "anthropic" /\ part = "body" -> <<3, 1>>
      [] provider = "openai" /\ part \notin {"sentinel", "complete"} -> <<0, 0>>
      [] provider = "ollama" /\ part # "complete" -> <<0, 0>>
      [] OTHER -> Spent

(* The first m calls of x are gathered; g is a beginning of x; g is all of x. *)
Begun(x, g, m) ==
    /\ DOMAIN g.calls = {x.uses[k].index : k \in 1..m}
    /\ \A k \in 1..m : /\ g.calls[x.uses[k].index].id = k
                       /\ g.calls[x.uses[k].index].args \in ArgsOf(k)
Below(x, g) ==
    /\ \E t \in 0..x.texts : g.texts = Count(t)
    /\ \E m \in 0..Len(x.uses) : Begun(x, g, m)
HoldsUses(x, g) ==
    /\ Begun(x, g, Len(x.uses))
    /\ \A k \in 1..Len(x.uses) : g.calls[x.uses[k].index].args = x.uses[k].args
Tells(x, g) ==
    /\ g.texts = Count(x.texts) /\ HoldsUses(x, g)
    /\ g.usage = SpentSoFar(x.part)
    /\ provider = "ollama" => g.next = Len(x.uses)
SaysOn(x, y) ==
    /\ x.texts <= y.texts /\ Len(x.uses) <= Len(y.uses)
    /\ \A k \in 1..Len(x.uses) : x.uses[k].index = y.uses[k].index

LEMMA SaidFields ==
    ASSUME NEW x \in Said
    PROVE  /\ x.texts \in Nat /\ x.blocks \in Nat /\ x.noise \in Nat /\ x.part \in Parts
           /\ x.uses \in Seq(UseSaid) /\ Len(x.uses) \in Nat
           /\ \A k \in 1..Len(x.uses) : /\ x.uses[k] \in UseSaid
                                        /\ x.uses[k].index \in Nat /\ x.uses[k].args \in Arguments
<1>1. /\ x.texts \in Nat /\ x.blocks \in Nat /\ x.noise \in Nat /\ x.part \in Parts
      /\ x.uses \in Seq(UseSaid)
  BY DEF Said
<1>2. Len(x.uses) \in Nat /\ \A k \in 1..Len(x.uses) : x.uses[k] \in UseSaid
  BY <1>1, InSeq
<1> QED
  BY <1>1, <1>2 DEF UseSaid

LEMMA GatheredFields ==
    ASSUME NEW g \in Gathered
    PROVE  /\ g.texts \in Seq(Nat) /\ g.calls \in CallTables /\ g.usage \in Nat \X Nat /\ g.next \in Nat
           /\ DOMAIN g.calls \subseteq Nat
           /\ \A i \in DOMAIN g.calls : /\ g.calls[i] \in [id : Nat, args : Arguments]
                                        /\ g.calls[i].id \in Nat /\ g.calls[i].args \in Arguments
           /\ g.calls = [i \in DOMAIN g.calls |-> g.calls[i]]
<1>1. /\ g.texts \in Seq(Nat) /\ g.calls \in CallTables /\ g.usage \in Nat \X Nat /\ g.next \in Nat
  BY DEF Gathered
<1>2. PICK D \in SUBSET Nat : g.calls \in [D -> [id : Nat, args : Arguments]]
  BY <1>1 DEF CallTables
<1>3. DOMAIN g.calls = D /\ g.calls = [i \in D |-> g.calls[i]]
      /\ \A i \in D : g.calls[i] \in [id : Nat, args : Arguments]
  BY <1>2
<1> QED
  BY <1>1, <1>3

LEMMA CallsAre ==
    ASSUME NEW c, c = [i \in DOMAIN c |-> c[i]], DOMAIN c \subseteq Nat,
           \A i \in DOMAIN c : c[i] \in [id : Nat, args : Arguments]
    PROVE  c \in CallTables
<1>1. c \in [DOMAIN c -> [id : Nat, args : Arguments]]
  OBVIOUS
<1> QED
  BY <1>1 DEF CallTables

(* What has been gathered stays a beginning when more is said. *)
LEMMA BelowGrows ==
    ASSUME NEW x \in Said, NEW y \in Said, SaysOn(x, y), NEW g, Below(x, g)
    PROVE  Below(y, g)
<1>1. x.texts \in Nat /\ y.texts \in Nat /\ Len(x.uses) \in Nat /\ Len(y.uses) \in Nat
  BY SaidFields
<1>2. PICK t \in 0..x.texts : g.texts = Count(t)
  BY DEF Below
<1>3. t \in 0..y.texts
  BY <1>1 DEF SaysOn
<1>4. PICK m \in 0..Len(x.uses) : Begun(x, g, m)
  BY DEF Below
<1>5. m \in 0..Len(y.uses) /\ \A k \in 1..m : k \in 1..Len(x.uses) /\ x.uses[k].index = y.uses[k].index
  BY <1>1 DEF SaysOn
<1>6. {x.uses[k].index : k \in 1..m} = {y.uses[k].index : k \in 1..m}
  BY <1>5
<1>7. Begun(y, g, m)
  BY <1>4, <1>5, <1>6 DEF Begun
<1> QED
  BY <1>2, <1>3, <1>5, <1>7 DEF Below

LEMMA TellsBelow == ASSUME NEW x \in Said, NEW g, Tells(x, g) PROVE Below(x, g)
<1>1. x.texts \in Nat /\ Len(x.uses) \in Nat
  BY SaidFields
<1>2. x.texts \in 0..x.texts /\ Len(x.uses) \in 0..Len(x.uses)
  BY <1>1
<1> QED
  BY <1>2 DEF Tells, HoldsUses, Below

--------------------------------------------------------------------------------
(* The parser's items, pushed one after the other: a frame has two at most. *)
LEMMA GathersAre ==
    ASSUME NEW g, NEW items, NEW N \in 0..2, N = Len(items)
    PROVE  Gathers(g, items) = IF N = 0 THEN g
                               ELSE IF N = 1 THEN Pushed(g, items, 1)
                               ELSE Pushed(Pushed(g, items, 1), items, 2)
<1> DEFINE a == Pushed(g, items, 1)
           b == Pushed(a, items, 2)
           GathersByte(got) == got = [n \in 0..N |-> IF n = 0 THEN g ELSE Pushed(got[n - 1], items, n)]
           got == CHOOSE got : GathersByte(got)
           w == [n \in 0..N |-> IF n = 0 THEN g ELSE IF n = 1 THEN a ELSE b]
<1>1. Gathers(g, items) = got[N]
  BY DEF Gathers
<1>2. \A n \in 0..N : n = 0 \/ n = 1 \/ n = 2
  OBVIOUS
<1>3. ASSUME NEW n \in 0..N
      PROVE  w[n] = IF n = 0 THEN g ELSE Pushed(w[n - 1], items, n)
  <2>1. w[n] = (IF n = 0 THEN g ELSE IF n = 1 THEN a ELSE b)
    OBVIOUS
  <2>2. n # 0 => w[n - 1] = (IF n - 1 = 0 THEN g ELSE IF n - 1 = 1 THEN a ELSE b)
    <3>1. n # 0 => n - 1 \in 0..N
      OBVIOUS
    <3> QED
      BY <3>1
  <2> HIDE DEF w, b
  <2>3. CASE n = 0
    BY <2>1, <2>3
  <2>4. CASE n = 1
    <3>1. n - 1 = 0 /\ n # 0
      BY <2>4
    <3> QED
      BY <2>1, <2>2, <2>4, <3>1
  <2>5. CASE n = 2
    <3>1. n - 1 = 1 /\ n # 0 /\ n # 1 /\ n - 1 # 0
      BY <2>5
    <3> QED
      BY <2>1, <2>2, <2>5, <3>1 DEF b
  <2> QED
    BY <1>2, <2>3, <2>4, <2>5
<1>4. GathersByte(w)
  <2>1. w = [n \in 0..N |-> w[n]]
    OBVIOUS
  <2>2. \A n \in 0..N : w[n] = IF n = 0 THEN g ELSE Pushed(w[n - 1], items, n)
    BY <1>3
  <2> HIDE DEF w
  <2> QED
    BY <2>1, <2>2
<1>5. GathersByte(got)
  BY <1>4, Zenon
<1> HIDE DEF got
<1>6. \A n \in 0..N : got[n] = IF n = 0 THEN g ELSE Pushed(got[n - 1], items, n)
  BY <1>5, Zenon
<1>7. got[0] = g
  <2>1. 0 \in 0..N
    OBVIOUS
  <2> QED
    BY <1>6, <2>1, Zenon
<1>8. N >= 1 => got[1] = a
  <2>1. N >= 1 => 1 \in 0..N /\ 1 # 0 /\ 1 - 1 = 0
    OBVIOUS
  <2> QED
    BY <1>6, <1>7, <2>1, Zenon
<1>9. N = 2 => got[2] = b
  <2>1. N = 2 => 2 \in 0..N /\ 2 # 0 /\ 2 - 1 = 1 /\ N >= 1
    OBVIOUS
  <2> QED
    BY <1>6, <1>8, <2>1, Zenon
<1>10. N = 0 \/ N = 1 \/ N = 2
  OBVIOUS
<1> HIDE DEF a, b
<1>11. Gathers(g, items) = IF N = 0 THEN g ELSE IF N = 1 THEN a ELSE b
  <2>1. CASE N = 0
    BY <1>1, <1>7, <2>1, Zenon
  <2>2. CASE N = 1
    <3>1. N # 0 /\ N >= 1
      BY <2>2
    <3> QED
      BY <1>1, <1>8, <2>2, <3>1, Zenon
  <2>3. CASE N = 2
    <3>1. N # 0 /\ N # 1
      BY <2>3
    <3> QED
      BY <1>1, <1>9, <2>3, <3>1, Zenon
  <2> QED
    BY <1>10, <2>1, <2>2, <2>3, Zenon
<1> QED
  BY <1>11, Zenon DEF a, b

LEMMA GathersOne ==
    ASSUME NEW g, NEW i
    PROVE  Gathers(g, <<i>>) = Pushed(g, <<i>>, 1)
<1>1. 1 = Len(<<i>>) /\ 1 \in 0..2 /\ 1 # 0
  OBVIOUS
<1> QED
  BY <1>1, GathersAre, Zenon

LEMMA GathersTwo ==
    ASSUME NEW g, NEW i, NEW j
    PROVE  Gathers(g, <<i, j>>) = Pushed(Pushed(g, <<i, j>>, 1), <<i, j>>, 2)
<1>1. 2 = Len(<<i, j>>) /\ 2 \in 0..2 /\ 2 # 0 /\ 2 # 1
  OBVIOUS
<1> QED
  BY <1>1, GathersAre, Zenon

LEMMA GathersNone == ASSUME NEW g PROVE Gathers(g, <<>>) = g
<1>1. 0 = Len(<<>>) /\ 0 \in 0..2
  OBVIOUS
<1> QED
  BY <1>1, GathersAre, Zenon

LEMMA CommentIsNothing == ASSUME NEW g PROVE Gathers(g, Comment) = g
  BY GathersOne DEF Comment, Pushed

(* A part of a call is pushed: that call gets it, and no other. *)
PushedTo(g, item, r) ==
    /\ r \in Gathered
    /\ r.texts = g.texts /\ r.usage = g.usage /\ r.next = g.next
    /\ DOMAIN r.calls = DOMAIN g.calls \union {item.index}
    /\ \A i \in DOMAIN g.calls : i # item.index => r.calls[i] = g.calls[i]
    /\ item.index \in DOMAIN g.calls =>
       /\ item.id = None => r.calls[item.index].id = g.calls[item.index].id
       /\ r.calls[item.index].args = g.calls[item.index].args \o item.args
    /\ item.index \notin DOMAIN g.calls =>
       /\ r.calls[item.index].id = item.id
       /\ r.calls[item.index].args = item.args

LEMMA PushIs ==
    ASSUME NEW g \in Gathered, NEW item, item.index \in Nat, item.id \in Nat, item.args \in Arguments,
           NEW r, r = PushToolCall(g, item)
    PROVE  PushedTo(g, item, r)
<1> DEFINE i == item.index
           old == IF i \in DOMAIN g.calls THEN g.calls[i] ELSE [id |-> None, args |-> <<>>]
           new == [id |-> IF item.id = None THEN old.id ELSE item.id, args |-> old.args \o item.args]
           c == [n \in DOMAIN g.calls \union {i} |-> IF n = i THEN new ELSE g.calls[n]]
<1>1. /\ g.texts \in Seq(Nat) /\ g.calls \in CallTables /\ g.usage \in Nat \X Nat /\ g.next \in Nat
      /\ DOMAIN g.calls \subseteq Nat
      /\ \A n \in DOMAIN g.calls : /\ g.calls[n] \in [id : Nat, args : Arguments]
                                   /\ g.calls[n].id \in Nat /\ g.calls[n].args \in Arguments
  BY GatheredFields
<1>2. PushToolCall(g, item) = [g EXCEPT !.calls = c]
  BY DEF PushToolCall
<1>3. old.id \in Nat /\ old.args \in Arguments
  BY <1>1 DEF None, Arguments
<1>4. new \in [id : Nat, args : Arguments]
  <2>1. old.args \o item.args \in Arguments
    BY <1>3 DEF Arguments
  <2> QED
    BY <1>3, <2>1
<1>5. i \notin DOMAIN g.calls => new.id = item.id /\ new.args = item.args
  <2>1. i \notin DOMAIN g.calls => old = [id |-> None, args |-> <<>>]
    OBVIOUS
  <2>2. <<>> \o item.args = item.args
    BY DEF Arguments
  <2> QED
    BY <2>1, <2>2
<1>6. i \in DOMAIN g.calls => /\ item.id = None => new.id = g.calls[i].id
                              /\ new.args = g.calls[i].args \o item.args
  OBVIOUS
<1> HIDE DEF new
<1>7. /\ DOMAIN c = DOMAIN g.calls \union {i} /\ c[i] = new
      /\ \A n \in DOMAIN g.calls : n # i => c[n] = g.calls[n]
      /\ c = [n \in DOMAIN c |-> c[n]]
  OBVIOUS
<1>8. c \in CallTables
  <2>1. \A n \in DOMAIN c : c[n] \in [id : Nat, args : Arguments]
    BY <1>1, <1>4
  <2>2. DOMAIN c \subseteq Nat
    BY <1>1
  <2> HIDE DEF c
  <2> QED
    BY <1>7, <2>1, <2>2, CallsAre
<1> HIDE DEF c
<1>9. /\ [g EXCEPT !.calls = c] \in Gathered
      /\ [g EXCEPT !.calls = c].texts = g.texts /\ [g EXCEPT !.calls = c].usage = g.usage
      /\ [g EXCEPT !.calls = c].next = g.next /\ [g EXCEPT !.calls = c].calls = c
  BY <1>1, <1>8 DEF Gathered
<1> QED
  BY <1>2, <1>5, <1>6, <1>7, <1>9 DEF PushedTo

LEMMA PushedText ==
    ASSUME NEW g, NEW items, NEW pos, NEW n, items[pos] = Text(n)
    PROVE  Pushed(g, items, pos) = [g EXCEPT !.texts = Append(@, n)]
<1>1. items[pos].kind = "text" /\ items[pos].text = n
  BY DEF Text
<1> QED
  BY <1>1 DEF Pushed

LEMMA PushedStop ==
    ASSUME NEW g, NEW items, NEW pos, items[pos].kind \in {"stop", "[DONE]"}
    PROVE  Pushed(g, items, pos) = g
  BY DEF Pushed

LEMMA PushedUsage ==
    ASSUME NEW g, NEW items, NEW pos, NEW a, NEW b, items[pos] = Usage(a, b)
    PROVE  Pushed(g, items, pos) = [g EXCEPT !.usage = MergeIncremental(@, <<a, b>>)]
<1>1. items[pos].kind = "usage" /\ items[pos].input = a /\ items[pos].output = b
  BY DEF Usage
<1> QED
  BY <1>1 DEF Pushed

LEMMA PushedUse ==
    ASSUME NEW g, NEW items, NEW pos, NEW i, NEW id, NEW a, items[pos] = Use(i, id, a),
           provider # "ollama"
    PROVE  Pushed(g, items, pos) = PushToolCall(g, Use(i, id, a))
<1>1. items[pos].kind = "use"
  BY DEF Use
<1> QED
  BY <1>1 DEF Pushed

LEMMA GatheredChanges ==
    ASSUME NEW g \in Gathered
    PROVE  /\ \A n \in Nat : /\ [g EXCEPT !.next = n] \in Gathered /\ [g EXCEPT !.next = n].next = n
                            /\ [g EXCEPT !.next = n].texts = g.texts
                            /\ [g EXCEPT !.next = n].calls = g.calls
                            /\ [g EXCEPT !.next = n].usage = g.usage
           /\ \A u \in Nat \X Nat : /\ [g EXCEPT !.usage = u] \in Gathered
                                    /\ [g EXCEPT !.usage = u].usage = u
                                    /\ [g EXCEPT !.usage = u].texts = g.texts
                                    /\ [g EXCEPT !.usage = u].calls = g.calls
                                    /\ [g EXCEPT !.usage = u].next = g.next
  BY DEF Gathered

LEMMA PushedCall ==
    ASSUME NEW g, NEW items, NEW pos, NEW i, NEW id, NEW a, items[pos] = Use(i, id, a),
           provider = "ollama", NEW p, p = PushToolCall(g, Use(g.next, g.next + 1, a))
    PROVE  Pushed(g, items, pos) = [p EXCEPT !.next = p.next + 1]
<1>1. items[pos].kind = "use"
  BY DEF Use
<1>2. \A u, v : [Use(i, id, a) EXCEPT !.index = u, !.id = v] = Use(u, v, a)
  <2> TAKE u, v
  <2>1. [Use(i, id, a) EXCEPT !.index = u] = Use(u, id, a)
    BY DEF Use
  <2>2. [Use(u, id, a) EXCEPT !.id = v] = Use(u, v, a)
    BY DEF Use
  <2> QED
    BY <2>1, <2>2
<1> HIDE DEF Use
<1>3. NumberedOn(g, items[pos], pos) = Use(g.next, g.next + 1, a)
  BY <1>2 DEF NumberedOn
<1> QED
  BY <1>1, <1>3 DEF Pushed

LEMMA UseFields ==
    ASSUME NEW i, NEW id, NEW a
    PROVE  /\ Use(i, id, a).index = i /\ Use(i, id, a).id = id /\ Use(i, id, a).args = a
           /\ Use(i, id, a).kind = "use"
           /\ i \in Nat /\ id \in Nat /\ a \in Arguments => Use(i, id, a) \in FrameItem
<1>1. i \in Nat /\ id \in Nat /\ a \in Arguments =>
        Use(i, id, a) \in [kind : {"use"}, index : Nat, id : Nat, args : Arguments]
  BY DEF Use
<1> QED
  BY <1>1 DEF Use, FrameItem

LEMMA PartsAre ==
    ASSUME NEW k \in Nat
    PROVE  /\ <<>> \in Arguments /\ <<Part(k, 1)>> \in Arguments /\ Whole(k) \in Arguments
           /\ <<Part(k, 2)>> \in Arguments
           /\ <<Part(k, 1)>> \o <<Part(k, 2)>> = Whole(k)
           /\ Len(<<Part(k, 1)>>) = 1 /\ Len(Whole(k)) = 2 /\ <<Part(k, 1)>> # <<>>
           /\ <<Part(k, 1)>> # Whole(k) /\ Whole(k) # <<>>
<1>1. Part(k, 1) \in [of : Nat, part : Nat] /\ Part(k, 2) \in [of : Nat, part : Nat]
  BY DEF Part
<1> HIDE DEF Part
<1>2. /\ Len(<<Part(k, 1), Part(k, 2)>>) = 2 /\ Len(<<Part(k, 1)>>) = 1
      /\ <<Part(k, 1)>> \o <<Part(k, 2)>> = <<Part(k, 1), Part(k, 2)>>
  <2> DEFINE S == [of : Nat, part : Nat]
             p == Part(k, 1)
             q == Part(k, 2)
  <2>1. p \in S /\ q \in S
    BY <1>1
  <2> HIDE DEF S, p, q
  <2>2. <<p>> \in Seq(S) /\ <<q>> \in Seq(S) /\ <<p, q>> \in Seq(S)
    BY <2>1
  <2>3. Append(<<p>>, q) = <<p>> \o <<q>>
    BY <2>1, <2>2, AppendIsConcat
  <2>4. Len(<<p, q>>) = 2 /\ Len(<<p>>) = 1 /\ <<p>>[1] = p /\ <<p, q>>[1] = p /\ <<p, q>>[2] = q
    OBVIOUS
  <2>5. Append(<<p>>, q) = <<p, q>>
    <3>1. /\ Append(<<p>>, q) \in Seq(S) /\ Len(Append(<<p>>, q)) = 2
          /\ Append(<<p>>, q)[1] = p /\ Append(<<p>>, q)[2] = q
      BY <2>1, <2>2, <2>4, AppendProperties
    <3>2. \A i \in 1..Len(<<p, q>>) : <<p, q>>[i] = Append(<<p>>, q)[i]
      BY <2>4, <3>1
    <3> QED
      BY <2>2, <2>4, <3>1, <3>2, SeqEqual
  <2> QED
    BY <2>3, <2>4, <2>5 DEF p, q
<1>3. <<>> \in Arguments /\ <<Part(k, 1)>> \in Arguments /\ <<Part(k, 1), Part(k, 2)>> \in Arguments
      /\ <<Part(k, 2)>> \in Arguments
  BY <1>1 DEF Arguments
<1> QED
  BY <1>2, <1>3 DEF Whole

LEMMA ArgsAre == ASSUME NEW k \in Nat, NEW a \in ArgsOf(k) PROVE a \in Arguments
  BY PartsAre DEF ArgsOf

(* A call is opened: it is the last one, and its number is a new one. *)
LEMMA HoldsOpened ==
    ASSUME NEW x \in Said, NEW y \in Said, NEW g \in Gathered, HoldsUses(x, g),
           NEW i \in Nat, NEW a \in ArgsOf(Len(x.uses) + 1),
           \A k \in 1..Len(x.uses) : x.uses[k].index # i,
           y.uses = Append(x.uses, [index |-> i, args |-> a]),
           NEW r, r = PushToolCall(g, Use(i, Len(x.uses) + 1, a))
    PROVE  /\ r \in Gathered /\ HoldsUses(y, r)
           /\ r.texts = g.texts /\ r.usage = g.usage /\ r.next = g.next
<1> DEFINE N == Len(x.uses)
           item == Use(i, N + 1, a)
<1>1. N \in Nat /\ x.uses \in Seq(UseSaid)
  BY SaidFields
<1>2. a \in Arguments
  BY <1>1, ArgsAre
<1>3. item.index = i /\ item.id = N + 1 /\ item.args = a /\ N + 1 \in Nat
  BY <1>1, UseFields
<1>4. [index |-> i, args |-> a] \in UseSaid
  BY <1>2 DEF UseSaid
<1>5. /\ Len(y.uses) = N + 1 /\ y.uses[N + 1] = [index |-> i, args |-> a]
      /\ \A k \in 1..N : y.uses[k] = x.uses[k]
  BY <1>1, <1>4
<1>6. y.uses[N + 1].index = i /\ y.uses[N + 1].args = a
  BY <1>5
<1>7. i \notin DOMAIN g.calls /\ DOMAIN g.calls = {x.uses[k].index : k \in 1..N}
  BY DEF HoldsUses, Begun
<1> HIDE DEF item
<1>8. /\ r \in Gathered /\ r.texts = g.texts /\ r.usage = g.usage /\ r.next = g.next
      /\ DOMAIN r.calls = DOMAIN g.calls \union {i}
      /\ \A n \in DOMAIN g.calls : n # i => r.calls[n] = g.calls[n]
      /\ r.calls[i].id = N + 1 /\ r.calls[i].args = a
  <2>1. r = PushToolCall(g, item) /\ item.index \in Nat /\ item.id \in Nat /\ item.args \in Arguments
    BY <1>2, <1>3 DEF item
  <2>2. PushedTo(g, item, r)
    BY <2>1, PushIs, Zenon
  <2> QED
    BY <1>3, <1>7, <2>2 DEF PushedTo
<1>9. DOMAIN r.calls = {y.uses[k].index : k \in 1..Len(y.uses)}
  <2>1. 1..(N + 1) = 1..N \union {N + 1}
    BY <1>1
  <2>2. {y.uses[k].index : k \in 1..(N + 1)} = {x.uses[k].index : k \in 1..N} \union {i}
    BY <1>5, <1>6, <2>1
  <2> QED
    BY <1>5, <1>7, <1>8, <2>2
<1>10. ASSUME NEW k \in 1..Len(y.uses)
       PROVE  /\ r.calls[y.uses[k].index].id = k
              /\ r.calls[y.uses[k].index].args \in ArgsOf(k)
              /\ r.calls[y.uses[k].index].args = y.uses[k].args
  <2>1. CASE k = N + 1
    BY <1>6, <1>8, <2>1
  <2>2. CASE k \in 1..N
    <3>1. /\ g.calls[x.uses[k].index].id = k /\ g.calls[x.uses[k].index].args \in ArgsOf(k)
          /\ g.calls[x.uses[k].index].args = x.uses[k].args
      BY <2>2 DEF HoldsUses, Begun
    <3>2. x.uses[k].index \in DOMAIN g.calls /\ x.uses[k].index # i /\ y.uses[k] = x.uses[k]
      BY <1>5, <1>7, <2>2
    <3> QED
      BY <1>8, <3>1, <3>2
  <2> QED
    BY <1>1, <1>5, <2>1, <2>2
<1> QED
  BY <1>8, <1>9, <1>10 DEF HoldsUses, Begun

(* The next part of a call's argument goes to that call. *)
SaysPart(x, y, g, k, a) ==
    /\ x \in Said /\ y \in Said /\ g \in Gathered /\ HoldsUses(x, g) /\ UsesNumbered(x)
    /\ k \in 1..Len(x.uses) /\ a \in Arguments /\ Len(y.uses) = Len(x.uses)
    /\ \A l \in 1..Len(x.uses) : y.uses[l].index = x.uses[l].index
    /\ \A l \in 1..Len(x.uses) : l # k => y.uses[l].args = x.uses[l].args
    /\ y.uses[k].args = x.uses[k].args \o a /\ y.uses[k].args \in ArgsOf(k)
HeldBy(y, g, r) ==
    /\ r \in Gathered /\ HoldsUses(y, r)
    /\ r.texts = g.texts /\ r.usage = g.usage /\ r.next = g.next

LEMMA HoldsPart ==
    ASSUME NEW x, NEW y, NEW g, NEW k, NEW a, SaysPart(x, y, g, k, a),
           NEW r, r = PushToolCall(g, Use(x.uses[k].index, None, a))
    PROVE  HeldBy(y, g, r)
<1> DEFINE N == Len(x.uses)
           i == x.uses[k].index
           item == Use(i, None, a)
<1> USE DEF SaysPart
<1>1. N \in Nat /\ i \in Nat
  BY SaidFields
<1>2. item.index = i /\ item.id = None /\ item.args = a /\ None \in Nat
  BY UseFields DEF None
<1>3. /\ DOMAIN g.calls = {x.uses[l].index : l \in 1..N}
      /\ \A l \in 1..N : /\ g.calls[x.uses[l].index].id = l
                         /\ g.calls[x.uses[l].index].args \in ArgsOf(l)
                         /\ g.calls[x.uses[l].index].args = x.uses[l].args
  BY DEF HoldsUses, Begun
<1> HIDE DEF item
<1>4. /\ r \in Gathered /\ r.texts = g.texts /\ r.usage = g.usage /\ r.next = g.next
      /\ DOMAIN r.calls = DOMAIN g.calls \union {i}
      /\ \A n \in DOMAIN g.calls : n # i => r.calls[n] = g.calls[n]
      /\ r.calls[i].id = g.calls[i].id /\ r.calls[i].args = g.calls[i].args \o a
  <2>1. r = PushToolCall(g, item) /\ item.index \in Nat /\ item.id \in Nat /\ item.args \in Arguments
    BY <1>1, <1>2 DEF item
  <2>2. i \in DOMAIN g.calls
    BY <1>3
  <2>3. PushedTo(g, item, r)
    BY <2>1, PushIs, Zenon
  <2> QED
    BY <1>2, <2>2, <2>3 DEF PushedTo
<1>5. \A l \in 1..N : l # k => x.uses[l].index # i
  <2> TAKE l \in 1..N
  <2>1. l < k \/ k < l \/ l = k
    BY <1>1
  <2>2. x.uses[l].index \in Nat
    BY SaidFields
  <2> QED
    BY <1>1, <2>1, <2>2 DEF UsesNumbered
<1>6. DOMAIN r.calls = {y.uses[l].index : l \in 1..Len(y.uses)}
  <2>1. i \in DOMAIN g.calls
    BY <1>3
  <2>2. DOMAIN r.calls = DOMAIN g.calls
    BY <1>4, <2>1
  <2>3. {y.uses[l].index : l \in 1..Len(y.uses)} = {x.uses[l].index : l \in 1..N}
    OBVIOUS
  <2> QED
    BY <1>3, <2>2, <2>3
<1>7. ASSUME NEW l \in 1..Len(y.uses)
      PROVE  /\ r.calls[y.uses[l].index].id = l
             /\ r.calls[y.uses[l].index].args \in ArgsOf(l)
             /\ r.calls[y.uses[l].index].args = y.uses[l].args
  <2>1. CASE l = k
    BY <1>3, <1>4, <2>1
  <2>2. CASE l # k
    <3>1. y.uses[l].index = x.uses[l].index /\ x.uses[l].index # i /\ x.uses[l].index \in DOMAIN g.calls
      BY <1>3, <1>5, <2>2
    <3>2. r.calls[y.uses[l].index] = g.calls[x.uses[l].index]
      BY <1>4, <3>1
    <3>3. l \in 1..N /\ y.uses[l].args = x.uses[l].args
      BY <2>2
    <3> HIDE DEF N
    <3> QED
      BY <1>3, <3>2, <3>3
  <2> QED
    BY <2>1, <2>2
<1> QED
  BY <1>4, <1>6, <1>7 DEF HeldBy, HoldsUses, Begun

(* A frame takes what is gathered from all that was said to all that is said with it. *)
FrameOK(f, g) ==
    /\ SaidOK(f.next) /\ SaysOn(said, f.next)
    /\ Gathers(g, f.items) \in Gathered /\ Tells(f.next, Gathers(g, f.items))
    /\ f.items \in Seq(FrameItem) /\ f.items # Comment

LEMMA NotComment ==
    ASSUME NEW i, i.kind # "comment"
    PROVE  /\ <<i>> # Comment
           /\ \A j : <<i, j>> # Comment
<1>1. <<i>>[1] # Comment[1] /\ \A j : <<i, j>>[1] # Comment[1]
  BY DEF Comment
<1> QED
  BY <1>1

LEMMA CountNext ==
    ASSUME NEW t \in Nat
    PROVE  Count(t) \in Seq(Nat) /\ Len(Count(t)) = t /\ Append(Count(t), t + 1) = Count(t + 1)
<1>1. \A u \in Nat : Count(u) \in Seq(Nat) /\ Len(Count(u)) = u /\ \A n \in 1..u : Count(u)[n] = n
  BY DEF Count
<1> HIDE DEF Count
<1>2. /\ Append(Count(t), t + 1) \in Seq(Nat) /\ Len(Append(Count(t), t + 1)) = t + 1
      /\ \A n \in 1..t : Append(Count(t), t + 1)[n] = n
      /\ Append(Count(t), t + 1)[t + 1] = t + 1
  <2>1. Count(t) \in Seq(Nat) /\ Len(Count(t)) = t /\ \A n \in 1..t : Count(t)[n] = n
    BY <1>1
  <2>2. PICK c : c = Count(t)
    OBVIOUS
  <2>3. c \in Seq(Nat) /\ Len(c) = t /\ \A n \in 1..t : c[n] = n
    BY <2>1, <2>2
  <2>4. PICK d : d = Append(c, t + 1)
    OBVIOUS
  <2>5. d \in Seq(Nat) /\ Len(d) = t + 1 /\ d[t + 1] = t + 1 /\ \A n \in 1..t : d[n] = c[n]
    BY <2>3, <2>4, AppendProperties
  <2> QED
    BY <2>2, <2>3, <2>4, <2>5
<1>3. \A n \in 1..(t + 1) : Append(Count(t), t + 1)[n] = Count(t + 1)[n]
  <2> TAKE n \in 1..(t + 1)
  <2>1. t + 1 \in Nat /\ (n \in 1..t \/ n = t + 1)
    OBVIOUS
  <2>2. Append(Count(t), t + 1)[n] = n
    BY <1>2, <2>1
  <2>3. Count(t + 1)[n] = n
    BY <1>1, <2>1
  <2> QED
    BY <2>2, <2>3
<1>4. t + 1 \in Nat /\ Count(t + 1) \in Seq(Nat) /\ Len(Count(t + 1)) = t + 1
  BY <1>1
<1> QED
  BY <1>1, <1>2, <1>3, <1>4, SeqEqual

LEMMA SaidChanges ==
    ASSUME NEW x \in Said
    PROVE  /\ \A t \in Nat : /\ [x EXCEPT !.texts = t] \in Said /\ [x EXCEPT !.texts = t].texts = t
                            /\ [x EXCEPT !.texts = t].blocks = x.blocks
                            /\ [x EXCEPT !.texts = t].uses = x.uses /\ [x EXCEPT !.texts = t].part = x.part
           /\ \A b \in Nat : /\ [x EXCEPT !.blocks = b] \in Said /\ [x EXCEPT !.blocks = b].blocks = b
                            /\ [x EXCEPT !.blocks = b].texts = x.texts
                            /\ [x EXCEPT !.blocks = b].uses = x.uses /\ [x EXCEPT !.blocks = b].part = x.part
           /\ \A p \in Parts : /\ [x EXCEPT !.part = p] \in Said /\ [x EXCEPT !.part = p].part = p
                              /\ [x EXCEPT !.part = p].texts = x.texts
                              /\ [x EXCEPT !.part = p].uses = x.uses /\ [x EXCEPT !.part = p].blocks = x.blocks
           /\ \A u \in Seq(UseSaid) :
                /\ [x EXCEPT !.uses = u] \in Said /\ [x EXCEPT !.uses = u].uses = u
                /\ [x EXCEPT !.uses = u].texts = x.texts
                /\ [x EXCEPT !.uses = u].blocks = x.blocks /\ [x EXCEPT !.uses = u].part = x.part
           /\ \A n \in Nat : /\ [x EXCEPT !.noise = n] \in Said
                            /\ [x EXCEPT !.noise = n].texts = x.texts
                            /\ [x EXCEPT !.noise = n].uses = x.uses
                            /\ [x EXCEPT !.noise = n].blocks = x.blocks /\ [x EXCEPT !.noise = n].part = x.part
  BY DEF Said

LEMMA TextFrame ==
    ASSUME SaidOK(said), NEW g \in Gathered, Tells(said, g), NEW f \in SaysText,
           SpentSoFar("body") = SpentSoFar(said.part),
           provider = "ollama" \/ said.part \in {"opening", "body"}
    PROVE  FrameOK(f, g)
<1> DEFINE t == said.texts + 1
           y == [said EXCEPT !.texts = @ + 1, !.blocks = @ + 1, !.part = "body"]
           r == [g EXCEPT !.texts = Append(@, t)]
<1>1. f = Frame(<<Text(t)>>, y)
  BY DEF SaysText, If
<1>2. f.items = <<Text(t)>> /\ f.next = y
  BY <1>1 DEF Frame
<1>3. said \in Said /\ said.texts \in Nat /\ said.blocks \in Nat /\ Len(said.uses) \in Nat
      /\ \A k \in 1..Len(said.uses) : said.uses[k].index \in Nat
  BY SaidFields DEF SaidOK
<1>4. /\ y \in Said /\ y.texts = t /\ y.blocks = said.blocks + 1 /\ y.uses = said.uses
      /\ y.part = "body" /\ t \in Nat
  <2> DEFINE y1 == [said EXCEPT !.texts = t]
             y2 == [y1 EXCEPT !.blocks = said.blocks + 1]
  <2>1. t \in Nat /\ said.blocks + 1 \in Nat /\ "body" \in Parts
    BY <1>3 DEF Parts
  <2>2. /\ y1 \in Said /\ y1.texts = t /\ y1.blocks = said.blocks /\ y1.uses = said.uses
    BY <1>3, <2>1, SaidChanges
  <2>3. y = [y2 EXCEPT !.part = "body"]
    OBVIOUS
  <2> HIDE DEF y, y1
  <2>4. /\ y2 \in Said /\ y2.texts = t /\ y2.blocks = said.blocks + 1 /\ y2.uses = said.uses
    BY <2>1, <2>2, SaidChanges
  <2> HIDE DEF y2
  <2> QED
    BY <2>1, <2>3, <2>4, SaidChanges
<1>5. Gathers(g, <<Text(t)>>) = r
  <2>1. <<Text(t)>>[1] = Text(t)
    OBVIOUS
  <2> QED
    BY <2>1, PushedText, GathersOne
<1>6. r \in Gathered /\ r.texts = Append(g.texts, t) /\ r.calls = g.calls /\ r.usage = g.usage
      /\ r.next = g.next
  <2>1. Append(g.texts, t) \in Seq(Nat)
    BY <1>4, GatheredFields, AppendProperties
  <2> QED
    BY <2>1 DEF Gathered
<1> HIDE DEF y, r
<1>7. r.texts = Count(t)
  BY <1>3, <1>6, CountNext DEF Tells
<1>8. Tells(y, r)
  BY <1>4, <1>6, <1>7 DEF Tells, HoldsUses, Begun
<1>9. UsesNumbered(y)
  <2>1. \A k \in 1..Len(said.uses) : said.uses[k].index < said.blocks => said.uses[k].index < y.blocks
    BY <1>3, <1>4
  <2> QED
    BY <1>4, <2>1 DEF SaidOK, UsesNumbered
<1>10. Argued(y)
  BY <1>4 DEF SaidOK, Argued
<1>11. SaysOn(said, y)
  BY <1>3, <1>4 DEF SaysOn
<1>12. <<Text(t)>> \in Seq(FrameItem) /\ <<Text(t)>> # Comment
  <2>1. Text(t) \in FrameItem /\ Text(t).kind # "comment"
    BY <1>4 DEF Text, FrameItem
  <2> HIDE DEF t
  <2> QED
    BY <2>1, NotComment
<1> QED
  BY <1>2, <1>4, <1>5, <1>6, <1>8, <1>9, <1>10, <1>11, <1>12 DEF FrameOK, SaidOK

(* Nothing but the part changes. *)
LEMMA PartFrame ==
    ASSUME SaidOK(said), NEW g \in Gathered, Tells(said, g), NEW part \in Parts,
           part \in {"opening", "body"} \/ provider = "ollama" \/ said.part \notin {"opening", "body"}
             \/ Unfinished = {},
           NEW r \in Gathered, r.texts = g.texts, r.calls = g.calls, r.next = g.next,
           r.usage = SpentSoFar(part)
    PROVE  SaidOK(Reaches(part)) /\ SaysOn(said, Reaches(part)) /\ Tells(Reaches(part), r)
<1> DEFINE y == Reaches(part)
<1>1. said \in Said /\ said.texts \in Nat /\ said.blocks \in Nat /\ Len(said.uses) \in Nat
      /\ \A k \in 1..Len(said.uses) : said.uses[k].index \in Nat
  BY SaidFields DEF SaidOK
<1>2. /\ y \in Said /\ y.texts = said.texts /\ y.blocks = said.blocks /\ y.uses = said.uses
      /\ y.part = part
  BY <1>1 DEF Said, Reaches
<1> HIDE DEF y
<1>3. Tells(y, r)
  BY <1>2 DEF Tells, HoldsUses, Begun
<1>4. UsesNumbered(y)
  BY <1>2 DEF SaidOK, UsesNumbered
<1>5. Argued(y)
  <2>1. CASE Unfinished = {}
    <3>1. ASSUME NEW k \in 1..Len(said.uses) PROVE said.uses[k].args \in {<<>>, Whole(k)}
      <4>1. k \in Nat /\ k \in DOMAIN said.uses
        BY <1>1 DEF SaidOK, Said
      <4>2. Len(said.uses[k].args) # 1
        BY <2>1, <4>1 DEF Unfinished
      <4>3. said.uses[k].args # <<Part(k, 1)>>
        BY <4>1, <4>2, PartsAre
      <4> QED
        BY <4>3 DEF SaidOK, Argued, ArgsOf
    <3> QED
      BY <1>2, <3>1 DEF SaidOK, Argued
  <2>2. CASE part \in {"opening", "body"} \/ provider = "ollama" \/ said.part \notin {"opening", "body"}
    BY <1>2, <2>2 DEF SaidOK, Argued
  <2> QED
    BY <2>1, <2>2
<1>6. SaysOn(said, y)
  BY <1>1, <1>2 DEF SaysOn
<1> QED
  BY <1>2, <1>3, <1>4, <1>5, <1>6 DEF y, SaidOK

(* A call is opened by an item, which has its number or, of Ollama, gets it. *)
OpenedTo(y, g, r, N) ==
    /\ r \in Gathered /\ HoldsUses(y, r) /\ r.texts = g.texts /\ r.usage = g.usage
    /\ provider = "ollama" => r.next = N + 1
Opening(x, y, g, N, j, a) ==
    /\ x \in Said /\ y \in Said /\ g \in Gathered /\ HoldsUses(x, g)
    /\ N = Len(x.uses) /\ j \in Nat /\ a \in ArgsOf(N + 1)
    /\ \A k \in 1..N : x.uses[k].index # j
    /\ y.uses = Append(x.uses, [index |-> j, args |-> a])
    /\ provider = "ollama" => j = N /\ g.next = N

LEMMA OpenedBy ==
    ASSUME NEW x, NEW y, NEW g, NEW N, NEW j, NEW a, Opening(x, y, g, N, j, a),
           NEW items, NEW pos, NEW i, NEW id, items[pos] = Use(i, id, a),
           provider # "ollama" => i = j /\ id = N + 1,
           NEW r, r = Pushed(g, items, pos)
    PROVE  OpenedTo(y, g, r, N)
<1> DEFINE p == PushToolCall(g, Use(j, N + 1, a))
<1> USE DEF Opening
<1>1. N \in Nat
  BY SaidFields
<1>2. /\ p \in Gathered /\ HoldsUses(y, p)
      /\ p.texts = g.texts /\ p.usage = g.usage /\ p.next = g.next
  BY HoldsOpened
<1>3. CASE provider # "ollama"
  <2>1. r = p
    BY <1>3, PushedUse
  <2> HIDE DEF p
  <2> QED
    BY <1>2, <1>3, <2>1 DEF OpenedTo
<1>4. CASE provider = "ollama"
  <2>1. g.next = j /\ g.next + 1 = N + 1
    BY <1>4
  <2>2. p = PushToolCall(g, Use(g.next, g.next + 1, a))
    BY <2>1, Zenon
  <2> HIDE DEF p
  <2>3. r = [p EXCEPT !.next = p.next + 1]
    <3>1. Pushed(g, items, pos) = [p EXCEPT !.next = p.next + 1]
      BY <1>4, <2>2, PushedCall, SMT
    <3> QED
      BY <3>1, Zenon
  <2>4. p.next = N /\ N + 1 \in Nat
    BY <1>1, <1>2, <1>4
  <2>5. r = [p EXCEPT !.next = N + 1]
    BY <2>3, <2>4
  <2>6. /\ r \in Gathered /\ r.texts = p.texts /\ r.usage = p.usage /\ r.next = N + 1
        /\ r.calls = p.calls
    <3> DEFINE n == N + 1
    <3>1. n \in Nat /\ r = [p EXCEPT !.next = n]
      BY <2>4, <2>5
    <3> HIDE DEF n
    <3>2. p \in Gathered
      BY <1>2
    <3>3. /\ [p EXCEPT !.next = n] \in Gathered /\ [p EXCEPT !.next = n].next = n
          /\ [p EXCEPT !.next = n].texts = p.texts /\ [p EXCEPT !.next = n].calls = p.calls
          /\ [p EXCEPT !.next = n].usage = p.usage
      BY <3>1, <3>2, GatheredChanges, Zenon
    <3> QED
      BY <3>1, <3>3 DEF n
  <2>7. HoldsUses(y, r)
    BY <1>2, <2>6 DEF HoldsUses, Begun
  <2> QED
    BY <1>2, <2>6, <2>7 DEF OpenedTo
<1> QED
  BY <1>3, <1>4

LEMMA OpensIs ==
    ASSUME NEW x \in Said, x = said, NEW u \in Seq(UseSaid)
    PROVE  /\ OpensUses(u) \in Said /\ OpensUses(u).texts = x.texts
           /\ OpensUses(u).blocks = x.blocks + 1 /\ OpensUses(u).part = "body"
           /\ OpensUses(u).uses = x.uses \o u
<1>1. x.blocks + 1 \in Nat /\ "body" \in Parts /\ x.uses \in Seq(UseSaid)
  BY SaidFields DEF Parts
<1>2. x.uses \o u \in Seq(UseSaid)
  BY <1>1
<1> DEFINE y1 == [x EXCEPT !.uses = x.uses \o u]
           y2 == [y1 EXCEPT !.blocks = x.blocks + 1]
           y3 == [y2 EXCEPT !.part = "body"]
<1>3. OpensUses(u) = y3
  BY DEF OpensUses
<1>4. y1 \in Said /\ y1.uses = x.uses \o u /\ y1.texts = x.texts
  <2> DEFINE v == x.uses \o u
  <2>1. v \in Seq(UseSaid) /\ y1 = [x EXCEPT !.uses = v]
    BY <1>2
  <2> HIDE DEF v, y1
  <2>2. y1 \in Said /\ y1.uses = v /\ y1.texts = x.texts
    BY <2>1, SaidChanges
  <2> QED
    BY <2>2 DEF v
<1> HIDE DEF y1
<1>5. y2 \in Said /\ y2.uses = x.uses \o u /\ y2.texts = x.texts /\ y2.blocks = x.blocks + 1
  <2> DEFINE b == x.blocks + 1
  <2>1. b \in Nat
    BY <1>1
  <2> HIDE DEF b
  <2>2. [y1 EXCEPT !.blocks = b] \in Said /\ [y1 EXCEPT !.blocks = b].uses = y1.uses
        /\ [y1 EXCEPT !.blocks = b].texts = y1.texts /\ [y1 EXCEPT !.blocks = b].blocks = b
    BY <1>4, <2>1, SaidChanges
  <2> QED
    BY <1>4, <2>2 DEF b
<1> HIDE DEF y2
<1>6. y3 \in Said /\ y3.uses = y2.uses /\ y3.texts = y2.texts /\ y3.blocks = y2.blocks /\ y3.part = "body"
  BY <1>1, <1>5, SaidChanges
<1> QED
  BY <1>3, <1>5, <1>6

(* What a provider has said stays in order when it opens calls with the numbers that follow. *)
LEMMA OpensOK ==
    ASSUME SaidOK(said), NEW u \in Seq(UseSaid), NEW N, N = Len(said.uses),
           \A n \in 1..Len(u) : /\ u[n].args \in ArgsOf(N + n)
                                /\ provider # "anthropic" => u[n].index = N + n - 1
                                /\ provider = "ollama" => u[n].args \in {<<>>, Whole(N + n)},
           provider = "anthropic" => Len(u) = 1 /\ u[1].index = said.blocks
    PROVE  SaidOK(OpensUses(u)) /\ SaysOn(said, OpensUses(u))
<1> DEFINE y == OpensUses(u)
<1>1. /\ said \in Said /\ said.texts \in Nat /\ said.blocks \in Nat /\ N \in Nat
      /\ said.uses \in Seq(UseSaid)
      /\ \A k \in 1..N : said.uses[k].index \in Nat
  BY SaidFields DEF SaidOK
<1>2. /\ y \in Said /\ y.texts = said.texts /\ y.blocks = said.blocks + 1 /\ y.part = "body"
      /\ y.uses = said.uses \o u
  BY <1>1, OpensIs
<1> HIDE DEF y
<1>3. Len(u) \in Nat /\ \A n \in 1..Len(u) : u[n].index \in Nat
  <2>1. Len(u) \in Nat /\ \A n \in 1..Len(u) : u[n] \in UseSaid
    BY InSeq
  <2> QED
    BY <2>1 DEF UseSaid
<1>4. /\ Len(y.uses) = N + Len(u)
      /\ \A k \in 1..N : y.uses[k] = said.uses[k]
      /\ \A k \in 1..(N + Len(u)) : k \notin 1..N => k - N \in 1..Len(u) /\ y.uses[k] = u[k - N]
  BY <1>1, <1>2, <1>3
<1>5. ASSUME NEW k \in 1..Len(y.uses)
      PROVE  /\ y.uses[k].args \in ArgsOf(k)
             /\ provider = "ollama" => y.uses[k].args \in {<<>>, Whole(k)}
             /\ provider # "anthropic" => y.uses[k].index = k - 1
             /\ provider = "anthropic" => y.uses[k].index < y.blocks
  <2>1. CASE k \in 1..N
    <3>1. provider = "anthropic" => y.uses[k].index < y.blocks
      <4>1. provider = "anthropic" => said.uses[k].index < said.blocks
        BY <2>1 DEF SaidOK, UsesNumbered
      <4> QED
        BY <1>1, <1>2, <1>4, <2>1, <4>1
    <3> QED
      BY <1>4, <2>1, <3>1 DEF SaidOK, UsesNumbered, Argued
  <2>2. CASE k \notin 1..N
    <3>1. PICK n \in 1..Len(u) : n = k - N
      BY <1>4, <2>2
    <3>2. k = N + n /\ y.uses[k] = u[n]
      BY <1>1, <1>4, <2>2, <3>1
    <3>3. ASSUME provider = "anthropic" PROVE n = 1
      <4>1. Len(u) = 1
        BY <3>3
      <4> QED
        BY <4>1
    <3>4. provider = "anthropic" => y.uses[k].index < y.blocks
      BY <1>1, <1>2, <3>2, <3>3
    <3> QED
      BY <3>2, <3>4
  <2> QED
    BY <2>1, <2>2
<1>6. ASSUME NEW k \in 1..Len(y.uses), NEW l \in 1..Len(y.uses), k < l
      PROVE  y.uses[k].index < y.uses[l].index
  <2>1. k \in Nat /\ l \in Nat
    BY <1>1, <1>3, <1>4
  <2>2. CASE provider # "anthropic"
    BY <1>5, <1>6, <2>1, <2>2
  <2>3. CASE provider = "anthropic"
    <3>1. k \in 1..N
      <4>1. Len(u) = 1
        BY <2>3
      <4>2. k >= 1 /\ l <= N + 1 /\ k < l
        BY <1>1, <1>4, <1>6, <2>1, <4>1
      <4> QED
        BY <1>1, <2>1, <4>2
    <3>2. CASE l \in 1..N
      BY <1>4, <1>6, <3>1, <3>2 DEF SaidOK, UsesNumbered
    <3>3. CASE l \notin 1..N
      <4>1. l - N \in 1..1 /\ y.uses[l] = u[l - N]
        BY <1>4, <2>3, <3>3
      <4>2. l - N = 1
        BY <4>1, <1>1, <2>1
      <4>3. said.uses[k].index < said.blocks
        BY <2>3, <3>1 DEF SaidOK, UsesNumbered
      <4> QED
        BY <1>4, <2>3, <3>1, <4>1, <4>2, <4>3
    <3> QED
      BY <3>2, <3>3
  <2> QED
    BY <2>2, <2>3
<1>7. UsesNumbered(y)
  BY <1>5, <1>6 DEF UsesNumbered
<1>8. Argued(y)
  BY <1>2, <1>5 DEF Argued
<1>9. SaysOn(said, y)
  BY <1>1, <1>2, <1>3, <1>4 DEF SaysOn
<1> QED
  BY <1>2, <1>7, <1>8, <1>9 DEF y, SaidOK

LEMMA NewNumber ==
    ASSUME SaidOK(said), NEW N, N = Len(said.uses), NEW j,
           provider # "anthropic" => j = N, provider = "anthropic" => j = said.blocks
    PROVE  j \in Nat /\ \A k \in 1..N : said.uses[k].index # j /\ said.uses[k].index < j
<1>1. said.blocks \in Nat /\ N \in Nat /\ \A k \in 1..N : said.uses[k].index \in Nat
  BY SaidFields DEF SaidOK
<1>2. \A k \in 1..N : said.uses[k].index < j
  BY <1>1 DEF SaidOK, UsesNumbered
<1> QED
  BY <1>1, <1>2

LEMMA OpenFrame ==
    ASSUME SaidOK(said), NEW g \in Gathered, Tells(said, g), NEW N, N = Len(said.uses),
           NEW j, NEW a \in ArgsOf(N + 1), NEW i \in Nat, NEW id \in Nat, NEW f,
           f.items = <<Use(i, id, a)>>, f.next = OpensUses(<<[index |-> j, args |-> a]>>),
           provider # "ollama" => i = j /\ id = N + 1,
           provider # "anthropic" => j = N, provider = "anthropic" => j = said.blocks,
           provider = "ollama" => a \in {<<>>, Whole(N + 1)},
           SpentSoFar("body") = SpentSoFar(said.part)
    PROVE  FrameOK(f, g)
<1> DEFINE u == [index |-> j, args |-> a]
           y == OpensUses(<<u>>)
           item == Use(i, id, a)
           r == Pushed(g, <<item>>, 1)
<1>1. /\ said \in Said /\ said.texts \in Nat /\ N \in Nat /\ N + 1 \in Nat /\ said.uses \in Seq(UseSaid)
  BY SaidFields DEF SaidOK
<1>2. j \in Nat /\ \A k \in 1..N : said.uses[k].index # j
  BY NewNumber
<1>3. a \in Arguments
  BY <1>1, ArgsAre
<1>4. u \in UseSaid /\ u.index = j /\ u.args = a
  BY <1>2, <1>3 DEF UseSaid
<1>5. item \in FrameItem /\ item.kind # "comment"
  BY <1>3, UseFields
<1>6. f.next = y /\ f.items = <<item>>
  OBVIOUS
<1>7. Gathers(g, <<item>>) = r
  BY GathersOne
<1>8. <<item>>[1] = item
  OBVIOUS
<1> HIDE DEF u
<1>9. <<u>> \in Seq(UseSaid) /\ Len(<<u>>) = 1 /\ <<u>>[1] = u
  BY <1>4
<1>10. SaidOK(y) /\ SaysOn(said, y)
  <2>1. \A n \in 1..Len(<<u>>) : /\ <<u>>[n].args \in ArgsOf(N + n)
                                 /\ provider # "anthropic" => <<u>>[n].index = N + n - 1
                                 /\ provider = "ollama" => <<u>>[n].args \in {<<>>, Whole(N + n)}
    <3> TAKE n \in 1..Len(<<u>>)
    <3>1. n = 1 /\ N + 1 - 1 = N
      BY <1>1, <1>9
    <3> QED
      BY <1>4, <1>9, <3>1
  <2>2. provider = "anthropic" => Len(<<u>>) = 1 /\ <<u>>[1].index = said.blocks
    BY <1>4, <1>9
  <2> QED
    BY <1>9, <2>1, <2>2, OpensOK
<1>11. /\ y \in Said /\ y.texts = said.texts /\ y.part = "body" /\ y.uses = Append(said.uses, u)
  <2>1. said.uses \o <<u>> = Append(said.uses, u)
    BY <1>1, <1>4, AppendIsConcat
  <2> QED
    BY <1>1, <1>9, <2>1, OpensIs
<1> HIDE DEF y, item
<1>12. HoldsUses(said, g) /\ (provider = "ollama" => g.next = N) /\ g.texts = Count(said.texts)
       /\ g.usage = SpentSoFar("body")
  BY DEF Tells
<1>13. /\ r \in Gathered /\ HoldsUses(y, r) /\ r.texts = g.texts /\ r.usage = g.usage
       /\ provider = "ollama" => r.next = N + 1
  <2>1. <<item>>[1] = Use(i, id, a) /\ r = Pushed(g, <<item>>, 1)
    BY <1>8 DEF item
  <2>2. y.uses = Append(said.uses, [index |-> j, args |-> a])
    BY <1>11 DEF u
  <2>3. provider = "ollama" => j = N /\ g.next = N
    BY <1>12
  <2> HIDE DEF r
  <2>4. Opening(said, y, g, N, j, a)
    BY <1>1, <1>2, <1>11, <1>12, <2>2, <2>3 DEF Opening
  <2>5. OpenedTo(y, g, r, N)
    BY <2>1, <2>4, OpenedBy
  <2> QED
    BY <2>5 DEF OpenedTo
<1> HIDE DEF r
<1>14. Len(y.uses) = N + 1
  BY <1>1, <1>4, <1>11, AppendProperties
<1>15. Tells(y, r)
  BY <1>11, <1>12, <1>13, <1>14 DEF Tells
<1>16. <<item>> \in Seq(FrameItem) /\ <<item>> # Comment
  BY <1>5, NotComment
<1> QED
  BY <1>6, <1>7, <1>10, <1>13, <1>15, <1>16 DEF FrameOK

LEMMA ConcatTwo ==
    ASSUME NEW S, NEW s \in Seq(S), NEW a \in S, NEW b \in S
    PROVE  s \o <<a, b>> = Append(Append(s, a), b)
<1>1. <<a, b>> \in Seq(S) /\ Len(<<a, b>>) = 2 /\ <<a, b>>[1] = a /\ <<a, b>>[2] = b
  OBVIOUS
<1>2. /\ s \o <<a, b>> \in Seq(S) /\ Len(s \o <<a, b>>) = Len(s) + 2
      /\ \A i \in 1..Len(s) + 2 : (s \o <<a, b>>)[i] = IF i <= Len(s) THEN s[i] ELSE <<a, b>>[i - Len(s)]
  BY <1>1, ConcatProperties
<1>3. /\ Append(s, a) \in Seq(S) /\ Len(Append(s, a)) = Len(s) + 1
      /\ \A i \in 1..Len(s) : Append(s, a)[i] = s[i]
      /\ Append(s, a)[Len(s) + 1] = a /\ Len(s) \in Nat
  BY AppendProperties, InSeq
<1>4. /\ Append(Append(s, a), b) \in Seq(S) /\ Len(Append(Append(s, a), b)) = Len(s) + 1 + 1
      /\ \A i \in 1..(Len(s) + 1) : Append(Append(s, a), b)[i] = Append(s, a)[i]
      /\ Append(Append(s, a), b)[Len(s) + 1 + 1] = b
  BY <1>3, AppendProperties
<1>5. \A i \in 1..Len(s) + 2 : (s \o <<a, b>>)[i] = Append(Append(s, a), b)[i]
  <2> TAKE i \in 1..Len(s) + 2
  <2>1. CASE i \in 1..Len(s)
    BY <1>2, <1>3, <1>4, <2>1
  <2>2. CASE i = Len(s) + 1
    BY <1>1, <1>2, <1>3, <1>4, <2>2
  <2>3. CASE i = Len(s) + 2
    BY <1>1, <1>2, <1>3, <1>4, <2>3
  <2> QED
    BY <1>3, <2>1, <2>2, <2>3
<1>6. Len(s \o <<a, b>>) = Len(Append(Append(s, a), b))
  BY <1>2, <1>3, <1>4
<1> QED
  BY <1>2, <1>4, <1>5, <1>6, SeqEqual

LEMMA OpenFrames ==
    ASSUME SaidOK(said), NEW g \in Gathered, Tells(said, g), NEW N, N = Len(said.uses),
           provider # "anthropic", NEW a \in ArgsOf(N + 1), NEW b \in ArgsOf(N + 2),
           NEW i1 \in Nat, NEW i2 \in Nat, NEW id1 \in Nat, NEW id2 \in Nat, NEW f,
           f.items = <<Use(i1, id1, a), Use(i2, id2, b)>>,
           f.next = OpensUses(<<[index |-> N, args |-> a], [index |-> N + 1, args |-> b]>>),
           provider # "ollama" => i1 = N /\ id1 = N + 1 /\ i2 = N + 1 /\ id2 = N + 2,
           provider = "ollama" => a \in {<<>>, Whole(N + 1)} /\ b \in {<<>>, Whole(N + 2)},
           SpentSoFar("body") = SpentSoFar(said.part)
    PROVE  FrameOK(f, g)
<1> DEFINE u == [index |-> N, args |-> a]
           v == [index |-> N + 1, args |-> b]
           y == OpensUses(<<u, v>>)
           z == [said EXCEPT !.uses = Append(said.uses, u)]
           item1 == Use(i1, id1, a)
           item2 == Use(i2, id2, b)
           items == <<item1, item2>>
           r == Pushed(g, items, 1)
           s == Pushed(r, items, 2)
<1>1. /\ said \in Said /\ said.texts \in Nat /\ N \in Nat /\ N + 1 \in Nat /\ N + 2 \in Nat
      /\ said.uses \in Seq(UseSaid)
  BY SaidFields DEF SaidOK
<1>2. a \in Arguments /\ b \in Arguments
  BY <1>1, ArgsAre
<1>3. u \in UseSaid /\ u.index = N /\ u.args = a /\ v \in UseSaid /\ v.index = N + 1 /\ v.args = b
  BY <1>1, <1>2 DEF UseSaid
<1>4. item1 \in FrameItem /\ item1.kind # "comment" /\ item2 \in FrameItem
  BY <1>2, UseFields
<1>5. f.next = y /\ f.items = items
  OBVIOUS
<1>6. Gathers(g, items) = s
  BY GathersTwo
<1>7. items[1] = item1 /\ items[2] = item2
  OBVIOUS
<1> HIDE DEF u, v
<1>8. <<u, v>> \in Seq(UseSaid) /\ Len(<<u, v>>) = 2 /\ <<u, v>>[1] = u /\ <<u, v>>[2] = v
  BY <1>3
<1>9. SaidOK(y) /\ SaysOn(said, y)
  <2>1. \A n \in 1..Len(<<u, v>>) : /\ <<u, v>>[n].args \in ArgsOf(N + n)
                                    /\ provider # "anthropic" => <<u, v>>[n].index = N + n - 1
                                    /\ provider = "ollama" => <<u, v>>[n].args \in {<<>>, Whole(N + n)}
    <3> TAKE n \in 1..Len(<<u, v>>)
    <3>1. n \in 1..2
      BY <1>8
    <3>2. CASE n = 1
      <4>1. N + n = N + 1 /\ N + n - 1 = N
        BY <1>1, <3>2
      <4> QED
        BY <1>3, <1>8, <3>2, <4>1
    <3>3. CASE n = 2
      <4>1. N + n = N + 2 /\ N + n - 1 = N + 1
        BY <1>1, <3>3
      <4> QED
        BY <1>3, <1>8, <3>3, <4>1
    <3> QED
      BY <3>1, <3>2, <3>3
  <2> QED
    BY <1>8, <2>1, OpensOK
<1>10. /\ y \in Said /\ y.texts = said.texts /\ y.part = "body"
       /\ y.uses = Append(Append(said.uses, u), v)
  <2>1. said.uses \o <<u, v>> = Append(Append(said.uses, u), v)
    BY <1>1, <1>3, ConcatTwo
  <2> QED
    BY <1>1, <1>8, <2>1, OpensIs
<1>11. z \in Said /\ z.uses = Append(said.uses, u) /\ Len(z.uses) = N + 1 /\ z.uses[N + 1] = u
       /\ \A k \in 1..N : z.uses[k] = said.uses[k]
  <2> DEFINE w == Append(said.uses, u)
  <2>1. w \in Seq(UseSaid) /\ Len(w) = N + 1 /\ w[N + 1] = u /\ \A k \in 1..N : w[k] = said.uses[k]
    BY <1>1, <1>3, AppendProperties
  <2>2. z = [said EXCEPT !.uses = w]
    OBVIOUS
  <2> HIDE DEF w, z
  <2>3. z \in Said /\ z.uses = w
    BY <1>1, <2>1, <2>2, SaidChanges
  <2>4. z.uses = Append(said.uses, u)
    BY <2>3 DEF w
  <2> QED
    BY <2>1, <2>3, <2>4
<1> HIDE DEF y, item1, item2, z
<1>12. HoldsUses(said, g) /\ (provider = "ollama" => g.next = N) /\ g.texts = Count(said.texts)
       /\ g.usage = SpentSoFar("body")
  BY DEF Tells
<1>13. OpenedTo(z, g, r, N)
  <2>1. items[1] = Use(i1, id1, a) /\ r = Pushed(g, items, 1)
    BY <1>7 DEF item1
  <2>2. z.uses = Append(said.uses, [index |-> N, args |-> a])
    BY <1>11 DEF u
  <2>3. provider = "ollama" => N = N /\ g.next = N
    BY <1>12
  <2>4. \A k \in 1..N : said.uses[k].index # N
    BY <1>1, NewNumber
  <2>5. Opening(said, z, g, N, N, a)
    BY <1>1, <1>11, <1>12, <2>2, <2>3, <2>4 DEF Opening
  <2>6. provider # "ollama" => i1 = N /\ id1 = N + 1
    OBVIOUS
  <2> HIDE DEF r, items
  <2> QED
    BY <2>1, <2>5, <2>6, OpenedBy
<1>14. OpenedTo(y, r, s, N + 1)
  <2>1. items[2] = Use(i2, id2, b) /\ s = Pushed(r, items, 2)
    BY <1>7 DEF item2
  <2>2. y.uses = Append(z.uses, [index |-> N + 1, args |-> b])
    BY <1>10, <1>11 DEF v
  <2> HIDE DEF r, s, items
  <2>3. r \in Gathered /\ HoldsUses(z, r) /\ (provider = "ollama" => N + 1 = N + 1 /\ r.next = N + 1)
    BY <1>13 DEF OpenedTo
  <2>4. \A k \in 1..(N + 1) : z.uses[k].index # N + 1
    <3> TAKE k \in 1..(N + 1)
    <3>1. CASE k = N + 1
      BY <1>1, <1>3, <1>11, <3>1
    <3>2. CASE k \in 1..N
      <4>1. said.uses[k].index = k - 1
        BY <3>2 DEF SaidOK, UsesNumbered
      <4> QED
        BY <1>1, <1>11, <3>2, <4>1
    <3> QED
      BY <1>1, <3>1, <3>2
  <2> DEFINE M == N + 1
  <2>5. M = Len(z.uses) /\ M \in Nat /\ b \in ArgsOf(M + 1)
    <3>1. M + 1 = N + 2
      BY <1>1
    <3> QED
      BY <1>1, <1>11, <3>1
  <2>6. /\ \A k \in 1..M : z.uses[k].index # M
        /\ y.uses = Append(z.uses, [index |-> M, args |-> b])
        /\ provider = "ollama" => M = M /\ r.next = M
    BY <2>2, <2>3, <2>4
  <2>7. provider # "ollama" => i2 = M /\ id2 = M + 1
    BY <1>1
  <2> HIDE DEF M
  <2>8. Opening(z, y, r, M, M, b)
    BY <1>10, <1>11, <2>3, <2>5, <2>6 DEF Opening
  <2>9. OpenedTo(y, r, s, M)
    BY <2>1, <2>7, <2>8, OpenedBy
  <2> QED
    BY <2>9 DEF M
<1> HIDE DEF r, s
<1>15. /\ s \in Gathered /\ HoldsUses(y, s) /\ s.texts = g.texts /\ s.usage = g.usage
       /\ provider = "ollama" => s.next = Len(y.uses)
  <2>1. Len(y.uses) = N + 1 + 1
    BY <1>1, <1>3, <1>10, AppendProperties
  <2> QED
    BY <1>13, <1>14, <2>1 DEF OpenedTo
<1>16. Tells(y, s)
  BY <1>10, <1>12, <1>15 DEF Tells
<1>17. items \in Seq(FrameItem) /\ items # Comment
  BY <1>4, NotComment
<1> QED
  BY <1>5, <1>6, <1>9, <1>15, <1>16, <1>17 DEF FrameOK

LEMMA SayFrame ==
    ASSUME SaidOK(said), NEW g \in Gathered, Tells(said, g), NEW k \in DOMAIN said.uses,
           provider # "ollama", said.part \in {"opening", "body"}, Len(said.uses[k].args) < 2,
           NEW i, i = said.uses[k].index, NEW f,
           f.items = <<Use(i, None, NextPart(k))>>, f.next = Saying(k)
    PROVE  FrameOK(f, g)
<1> DEFINE N == Len(said.uses)
           a == NextPart(k)
           b == said.uses[k].args \o a
           w == [said.uses EXCEPT ![k] = [said.uses[k] EXCEPT !.args = b]]
           y == Saying(k)
           item == Use(i, None, a)
           r == Pushed(g, <<item>>, 1)
<1>1. /\ said \in Said /\ said.texts \in Nat /\ N \in Nat /\ said.uses \in Seq(UseSaid) /\ k \in 1..N
      /\ k \in Nat /\ said.uses[k] \in UseSaid /\ i \in Nat /\ said.uses[k].args \in Arguments
  <2>1. said \in Said
    BY DEF SaidOK
  <2>2. said.uses \in Seq(UseSaid) /\ N \in Nat /\ said.texts \in Nat
    BY <2>1, SaidFields
  <2>3. k \in 1..N
    BY <2>2
  <2> QED
    BY <2>1, <2>2, <2>3, SaidFields
<1>2. /\ a \in Arguments /\ b \in ArgsOf(k) /\ b \in Arguments
  <2>1. said.uses[k].args \in {<<>>, <<Part(k, 1)>>}
    <3>1. said.uses[k].args \in ArgsOf(k)
      BY <1>1 DEF SaidOK, Argued
    <3>2. Len(Whole(k)) = 2
      BY <1>1, PartsAre
    <3> QED
      BY <3>1, <3>2 DEF ArgsOf
  <2>2. CASE said.uses[k].args = <<>>
    <3>1. a = <<Part(k, 1)>>
      <4>1. Len(said.uses[k].args) + 1 = 1
        BY <2>2
      <4> QED
        BY <4>1 DEF NextPart
    <3>2. b = <<Part(k, 1)>>
      BY <1>1, <2>2, <3>1, PartsAre, ConcatEmptySeq DEF Arguments
    <3> QED
      BY <1>1, <3>1, <3>2, PartsAre DEF ArgsOf
  <2>3. CASE said.uses[k].args = <<Part(k, 1)>>
    <3>1. a = <<Part(k, 2)>>
      <4>1. Len(said.uses[k].args) + 1 = 2
        BY <1>1, <2>3, PartsAre
      <4> QED
        BY <4>1 DEF NextPart
    <3> QED
      BY <1>1, <2>3, <3>1, PartsAre DEF ArgsOf
  <2> QED
    BY <2>1, <2>2, <2>3
<1>3. y = [said EXCEPT !.uses = w]
  BY DEF Saying
<1> HIDE DEF a, b
<1>4. /\ w \in Seq(UseSaid) /\ Len(w) = N /\ w[k].args = b /\ w[k].index = i
      /\ \A l \in 1..N : l # k => w[l] = said.uses[l]
  <2> DEFINE u == [said.uses[k] EXCEPT !.args = b]
  <2>1. u \in UseSaid /\ u.args = b /\ u.index = i
    BY <1>1, <1>2 DEF UseSaid
  <2> HIDE DEF u
  <2>2. [said.uses EXCEPT ![k] = u] \in Seq(UseSaid) /\ Len([said.uses EXCEPT ![k] = u]) = N
        /\ \A l \in 1..N : [said.uses EXCEPT ![k] = u][l] = IF l = k THEN u ELSE said.uses[l]
    BY <1>1, <2>1, ExceptSeq
  <2>3. w = [said.uses EXCEPT ![k] = u]
    BY DEF u
  <2> HIDE DEF w
  <2> QED
    BY <1>1, <2>1, <2>2, <2>3
<1> HIDE DEF w, y
<1>5. /\ y \in Said /\ y.uses = w /\ y.texts = said.texts /\ y.blocks = said.blocks
      /\ y.part = said.part
  BY <1>1, <1>3, <1>4, SaidChanges
<1>6. /\ Len(y.uses) = N
      /\ \A l \in 1..N : y.uses[l].index = said.uses[l].index
      /\ \A l \in 1..N : l # k => y.uses[l].args = said.uses[l].args
      /\ y.uses[k].args = b
  BY <1>4, <1>5
<1>7. UsesNumbered(y)
  BY <1>1, <1>5, <1>6 DEF SaidOK, UsesNumbered
<1>8. Argued(y)
  <2>1. \A l \in 1..N : y.uses[l].args \in ArgsOf(l)
    <3> TAKE l \in 1..N
    <3>1. l = k \/ l # k
      OBVIOUS
    <3> QED
      BY <1>2, <1>6, <3>1 DEF SaidOK, Argued
  <2> QED
    BY <1>5, <1>6, <2>1 DEF Argued
<1>9. SaysOn(said, y)
  BY <1>1, <1>5, <1>6 DEF SaysOn
<1>10. item \in FrameItem /\ item.kind # "comment" /\ <<item>>[1] = item
  BY <1>1, <1>2, UseFields DEF None
<1>11. Gathers(g, <<item>>) = r
  BY GathersOne
<1>12. r = PushToolCall(g, Use(i, None, a))
  <2>1. <<item>>[1] = Use(i, None, a)
    BY <1>10
  <2> QED
    BY <2>1, PushedUse
<1>13. f.items = <<item>> /\ f.next = y
  BY DEF a, y
<1> HIDE DEF item, r
<1>14. HoldsUses(said, g) /\ UsesNumbered(said)
  BY DEF Tells, SaidOK
<1>15. /\ r \in Gathered /\ HoldsUses(y, r)
       /\ r.texts = g.texts /\ r.usage = g.usage /\ r.next = g.next
  <2>1. r = PushToolCall(g, Use(said.uses[k].index, None, a))
    BY <1>12
  <2>2. y.uses[k].args = said.uses[k].args \o a /\ y.uses[k].args \in ArgsOf(k)
    BY <1>2, <1>6 DEF b
  <2>3. SaysPart(said, y, g, k, a)
    BY <1>1, <1>2, <1>5, <1>6, <1>14, <2>2 DEF SaysPart
  <2>4. HeldBy(y, g, r)
    BY <2>1, <2>3, HoldsPart
  <2> QED
    BY <2>4 DEF HeldBy
<1>16. Tells(y, r)
  BY <1>5, <1>15 DEF Tells
<1>17. <<item>> \in Seq(FrameItem) /\ <<item>> # Comment
  BY <1>10, NotComment
<1> QED
  BY <1>5, <1>7, <1>8, <1>9, <1>11, <1>13, <1>15, <1>16, <1>17 DEF FrameOK, SaidOK

(* A frame without a text or a call: the parts behind the body. *)
Ending(f, g, part) ==
    /\ part \in Parts /\ f.next = Reaches(part) /\ SpentSoFar(part) \in Nat \X Nat
    /\ part = "body" \/ said.part \notin {"opening", "body"} \/ Unfinished = {}
    /\ f.items \in Seq(FrameItem) /\ f.items # Comment
    /\ Gathers(g, f.items) = [g EXCEPT !.usage = SpentSoFar(part)]

LEMMA EndFrame ==
    ASSUME SaidOK(said), NEW g \in Gathered, Tells(said, g), NEW f, NEW part, Ending(f, g, part)
    PROVE  FrameOK(f, g)
<1> USE DEF Ending
<1> DEFINE u == SpentSoFar(part)
           r == [g EXCEPT !.usage = u]
<1>1. r \in Gathered /\ r.texts = g.texts /\ r.calls = g.calls /\ r.next = g.next /\ r.usage = u
  BY GatheredChanges
<1> HIDE DEF r, u
<1>2. SaidOK(Reaches(part)) /\ SaysOn(said, Reaches(part)) /\ Tells(Reaches(part), r)
  BY <1>1, PartFrame DEF u
<1> QED
  BY <1>1, <1>2 DEF FrameOK, r, u

LEMMA UsageStays == ASSUME NEW g \in Gathered, NEW u, g.usage = u PROVE g = [g EXCEPT !.usage = u]
  BY DEF Gathered

LEMMA StopItems ==
    /\ Stop \in FrameItem /\ Stop.kind = "stop" /\ [kind |-> "[DONE]"] \in FrameItem
    /\ \A a, b \in Nat : Usage(a, b) \in FrameItem /\ Usage(a, b).kind = "usage"
  BY DEF Stop, Usage, FrameItem

LEMMA MaxOf == ASSUME NEW a \in Nat, NEW b \in Nat PROVE Max({a, b}) = IF a >= b THEN a ELSE b
  BY DEF Max

(* How usage is merged, for the numbers that the answers have. *)
LEMMA Merged ==
    /\ MergeIncremental(<<0, 0>>, <<3, 7>>) = <<3, 7>>
    /\ MergeIncremental(<<0, 0>>, <<3, 1>>) = <<3, 1>>
    /\ MergeIncremental(<<3, 1>>, <<0, 7>>) = <<3, 7>>
<1>1. Max({0, 7}) = 7 /\ Max({0, 1}) = 1 /\ Max({1, 7}) = 7
  BY MaxOf
<1> QED
  BY <1>1 DEF MergeIncremental

LEMMA OpenAiFrames ==
    ASSUME provider = "openai", SaidOK(said), NEW g \in Gathered, Tells(said, g), NEW f \in OpenAi
    PROVE  FrameOK(f, g)
<1> DEFINE N == Len(said.uses)
           first == <<Part(N + 1, 1)>>
<1>1. N \in Nat /\ said.uses \in Seq(UseSaid) /\ said.part \in Parts
  BY SaidFields DEF SaidOK
<1>2. Fresh = N + 1 /\ N + 1 - 1 = N /\ N + 1 \in Nat /\ N + 2 \in Nat /\ N + 1 + 1 = N + 2
  BY <1>1 DEF Fresh
<1>3. g.usage = SpentSoFar(said.part)
  BY DEF Tells
<1>4. /\ SpentSoFar("opening") = <<0, 0>> /\ SpentSoFar("body") = <<0, 0>>
      /\ SpentSoFar("usage") = <<0, 0>> /\ SpentSoFar("sentinel") = <<3, 7>>
      /\ SpentSoFar("complete") = <<3, 7>>
  BY DEF SpentSoFar, Spent
<1>5. CASE said.part \in {"opening", "body"}
  <2>1. \/ f \in SaysText
        \/ \E a \in {<<>>, first} : f = Frame(<<Use(N, N + 1, a)>>, OpensUses(<<[index |-> N, args |-> a]>>))
        \/ f = Frame(<<Use(N, N + 1, first), Use(N + 1, N + 2, <<>>)>>,
                     OpensUses(<<[index |-> N, args |-> first], [index |-> N + 1, args |-> <<>>]>>))
        \/ \E j \in DOMAIN said.uses : /\ Len(said.uses[j].args) < 2
                                       /\ f = Frame(<<Use(j - 1, None, NextPart(j))>>, Saying(j))
        \/ Unfinished = {} /\ f = Frame(<<Stop>>, Reaches("usage"))
    <3> DEFINE a1 == {Frame(<<Use(Fresh - 1, Fresh, a)>>, OpensUses(<<OpenedUse(Fresh, a)>>)) :
                        a \in {<<>>, FirstPart(Fresh)}}
               a2 == {Frame(<<Use(Fresh - 1, Fresh, FirstPart(Fresh)), Use(Fresh, Fresh + 1, <<>>)>>,
                            OpensUses(<<OpenedUse(Fresh, FirstPart(Fresh)), OpenedUse(Fresh + 1, <<>>)>>))}
               a3 == {Frame(<<Use(j - 1, None, NextPart(j))>>, Saying(j)) :
                        j \in {n \in DOMAIN said.uses : Len(said.uses[n].args) < 2}}
               a4 == {Frame(<<Stop>>, Reaches("usage"))}
    <3>1. OpenAi = SaysText \union If(Room > 0, a1) \union If(Room > 1, a2) \union a3
                   \union If(Unfinished = {}, a4)
      <4>1. OpenAi = OpenAiBody
        BY <1>5 DEF OpenAi
      <4> QED
        BY <4>1, Zenon DEF OpenAiBody
    <3>2. Fresh - 1 = N /\ Fresh + 1 = N + 2 /\ Fresh + 1 - 1 = N + 1
      BY <1>1, <1>2
    <3>3. f \in SaysText \/ f \in a1 \/ f \in a2 \/ f \in a3 \/ (Unfinished = {} /\ f \in a4)
      <4> HIDE DEF a1, a2, a3, a4
      <4> QED
        BY <3>1 DEF If
    <3> QED
      BY <1>2, <3>2, <3>3 DEF OpenedUse, FirstPart
  <2>2. SpentSoFar("body") = SpentSoFar(said.part)
    BY <1>4, <1>5
  <2>3. <<>> \in ArgsOf(N + 1) /\ first \in ArgsOf(N + 1) /\ <<>> \in ArgsOf(N + 2)
    BY DEF ArgsOf
  <2> HIDE DEF first
  <2>4. CASE f \in SaysText
    BY <1>5, <2>2, <2>4, TextFrame
  <2>5. ASSUME NEW a \in {<<>>, first},
               f = Frame(<<Use(N, N + 1, a)>>, OpensUses(<<[index |-> N, args |-> a]>>))
        PROVE  FrameOK(f, g)
    <3>1. f.items = <<Use(N, N + 1, a)>> /\ f.next = OpensUses(<<[index |-> N, args |-> a]>>)
      BY <2>5 DEF Frame
    <3>2. a \in ArgsOf(N + 1)
      BY <2>3
    <3> QED
      BY <1>1, <1>2, <2>2, <3>1, <3>2, OpenFrame
  <2>6. CASE f = Frame(<<Use(N, N + 1, first), Use(N + 1, N + 2, <<>>)>>,
                       OpensUses(<<[index |-> N, args |-> first], [index |-> N + 1, args |-> <<>>]>>))
    <3>1. /\ f.items = <<Use(N, N + 1, first), Use(N + 1, N + 2, <<>>)>>
          /\ f.next = OpensUses(<<[index |-> N, args |-> first], [index |-> N + 1, args |-> <<>>]>>)
      BY <2>6 DEF Frame
    <3> QED
      BY <1>1, <1>2, <2>2, <2>3, <3>1, OpenFrames
  <2>7. ASSUME NEW j \in DOMAIN said.uses, Len(said.uses[j].args) < 2,
               f = Frame(<<Use(j - 1, None, NextPart(j))>>, Saying(j))
        PROVE  FrameOK(f, g)
    <3>1. f.items = <<Use(j - 1, None, NextPart(j))>> /\ f.next = Saying(j)
      BY <2>7 DEF Frame
    <3>2. j - 1 = said.uses[j].index
      BY <1>1 DEF SaidOK, UsesNumbered
    <3> QED
      BY <1>5, <2>7, <3>1, <3>2, SayFrame
  <2>8. CASE Unfinished = {} /\ f = Frame(<<Stop>>, Reaches("usage"))
    <3>1. f.items = <<Stop>> /\ f.next = Reaches("usage")
      BY <2>8 DEF Frame
    <3>2. Gathers(g, f.items) = g
      <4>1. <<Stop>>[1] = Stop
        OBVIOUS
      <4> QED
        BY <3>1, <4>1, StopItems, PushedStop, GathersOne
    <3>3. g = [g EXCEPT !.usage = SpentSoFar("usage")]
      BY <1>3, <1>4, <2>2, UsageStays
    <3>4. f.items \in Seq(FrameItem) /\ f.items # Comment
      BY <3>1, StopItems, NotComment
    <3>8. Ending(f, g, "usage")
      BY <1>4, <2>8, <3>1, <3>2, <3>3, <3>4 DEF Ending, Parts
    <3> QED
      BY <3>8, EndFrame
  <2> QED
    BY <2>1, <2>4, <2>5, <2>6, <2>7, <2>8
<1>6. CASE said.part = "usage"
  <2>1. f = Frame(<<Usage(3, 7)>>, Reaches("sentinel"))
    BY <1>6 DEF OpenAi, Spent
  <2>2. f.items = <<Usage(3, 7)>> /\ f.next = Reaches("sentinel")
    BY <2>1 DEF Frame
  <2>3. Gathers(g, f.items) = [g EXCEPT !.usage = SpentSoFar("sentinel")]
    <3>1. <<Usage(3, 7)>>[1] = Usage(3, 7)
      OBVIOUS
    <3>2. Gathers(g, <<Usage(3, 7)>>) = [g EXCEPT !.usage = MergeIncremental(@, <<3, 7>>)]
      BY <3>1, PushedUsage, GathersOne
    <3>3. MergeIncremental(g.usage, <<3, 7>>) = SpentSoFar("sentinel")
      BY <1>3, <1>4, <1>6, Merged
    <3> QED
      BY <2>2, <3>2, <3>3
  <2>4. f.items \in Seq(FrameItem) /\ f.items # Comment
    BY <2>2, StopItems, NotComment
  <2>8. Ending(f, g, "sentinel")
    BY <1>4, <1>6, <2>2, <2>3, <2>4 DEF Ending, Parts
  <2> QED
    BY <2>8, EndFrame
<1>7. CASE said.part = "sentinel"
  <2>1. f.items = <<[kind |-> "[DONE]"]>> /\ f.next = Reaches("complete")
    BY <1>7 DEF OpenAi, Frame
  <2>2. Gathers(g, f.items) = g
    <3>1. <<[kind |-> "[DONE]"]>>[1].kind = "[DONE]"
      OBVIOUS
    <3> QED
      BY <2>1, <3>1, PushedStop, GathersOne
  <2>3. g = [g EXCEPT !.usage = SpentSoFar("complete")]
    BY <1>3, <1>4, <1>7, UsageStays
  <2>4. f.items \in Seq(FrameItem) /\ f.items # Comment
    <3>1. [kind |-> "[DONE]"].kind # "comment"
      OBVIOUS
    <3> QED
      BY <2>1, <3>1, StopItems, NotComment
  <2>8. Ending(f, g, "complete")
    BY <1>4, <1>7, <2>1, <2>2, <2>3, <2>4 DEF Ending, Parts
  <2> QED
    BY <2>8, EndFrame
<1>8. CASE said.part \notin {"opening", "body", "usage", "sentinel"}
  BY <1>8 DEF OpenAi
<1> QED
  BY <1>5, <1>6, <1>7, <1>8

LEMMA AnthropicFrames ==
    ASSUME provider = "anthropic", SaidOK(said), NEW g \in Gathered, Tells(said, g), NEW f \in Anthropic
    PROVE  FrameOK(f, g)
<1> DEFINE N == Len(said.uses)
           b == said.blocks
<1>1. N \in Nat /\ said.uses \in Seq(UseSaid) /\ said.part \in Parts /\ b \in Nat
  BY SaidFields DEF SaidOK
<1>2. Fresh = N + 1 /\ N + 1 \in Nat
  BY <1>1 DEF Fresh
<1>3. g.usage = SpentSoFar(said.part)
  BY DEF Tells
<1>4. /\ SpentSoFar("opening") = <<0, 0>> /\ SpentSoFar("body") = <<3, 1>>
      /\ SpentSoFar("message_stop") = <<3, 7>> /\ SpentSoFar("complete") = <<3, 7>>
  BY DEF SpentSoFar, Spent
<1>5. CASE said.part = "opening"
  <2>1. f = Frame(<<Usage(3, 1)>>, Reaches("body"))
    BY <1>5 DEF Anthropic, Spent
  <2>2. f.items = <<Usage(3, 1)>> /\ f.next = Reaches("body")
    BY <2>1 DEF Frame
  <2>3. Gathers(g, f.items) = [g EXCEPT !.usage = SpentSoFar("body")]
    <3>1. <<Usage(3, 1)>>[1] = Usage(3, 1)
      OBVIOUS
    <3>2. Gathers(g, <<Usage(3, 1)>>) = [g EXCEPT !.usage = MergeIncremental(@, <<3, 1>>)]
      BY <3>1, PushedUsage, GathersOne
    <3>3. MergeIncremental(g.usage, <<3, 1>>) = SpentSoFar("body")
      BY <1>3, <1>4, <1>5, Merged
    <3> QED
      BY <2>2, <3>2, <3>3
  <2>4. f.items \in Seq(FrameItem) /\ f.items # Comment
    BY <2>2, StopItems, NotComment
  <2>5. Ending(f, g, "body")
    BY <1>4, <2>2, <2>3, <2>4 DEF Ending, Parts
  <2> QED
    BY <2>5, EndFrame
<1>6. CASE said.part = "body"
  <2> DEFINE a1 == {Frame(<<Use(b - 1, None, NextPart(N))>>, Saying(N))}
             a2 == {Frame(<<Use(b, Fresh, <<>>)>>, OpensUses(<<[index |-> b, args |-> <<>>]>>))}
             a3 == {Frame(<<Stop, Usage(0, Spent[2])>>, Reaches("message_stop"))}
             inUse == N > 0 /\ said.uses[N].index = b - 1 /\ Len(said.uses[N].args) < 2
  <2>1. Anthropic = If(inUse, a1) \union If(Unfinished = {}, SaysText \union If(Room > 0, a2) \union a3)
    <3>1. Anthropic = AnthropicBody
      BY <1>6 DEF Anthropic
    <3> QED
      BY <3>1, Zenon DEF AnthropicBody
  <2>2. \/ inUse /\ f \in a1
        \/ f \in SaysText
        \/ f \in a2
        \/ Unfinished = {} /\ f \in a3
    <3> HIDE DEF a1, a2, a3, inUse
    <3> QED
      BY <2>1 DEF If
  <2>3. SpentSoFar("body") = SpentSoFar(said.part)
    BY <1>6
  <2>4. CASE inUse /\ f \in a1
    <3>1. f.items = <<Use(b - 1, None, NextPart(N))>> /\ f.next = Saying(N)
      BY <2>4 DEF Frame
    <3>2. N \in DOMAIN said.uses /\ b - 1 = said.uses[N].index /\ Len(said.uses[N].args) < 2
      BY <1>1, <2>4
    <3> QED
      BY <1>6, <3>1, <3>2, SayFrame
  <2>5. CASE f \in SaysText
    BY <1>6, <2>3, <2>5, TextFrame
  <2>6. CASE f \in a2
    <3>1. f.items = <<Use(b, N + 1, <<>>)>> /\ f.next = OpensUses(<<[index |-> b, args |-> <<>>]>>)
      BY <1>2, <2>6 DEF Frame
    <3>2. <<>> \in ArgsOf(N + 1)
      BY DEF ArgsOf
    <3> QED
      BY <1>1, <1>2, <2>3, <3>1, <3>2, OpenFrame
  <2>7. CASE Unfinished = {} /\ f \in a3
    <3>1. f.items = <<Stop, Usage(0, 7)>> /\ f.next = Reaches("message_stop")
      BY <2>7 DEF Frame, Spent
    <3>2. Gathers(g, f.items) = [g EXCEPT !.usage = SpentSoFar("message_stop")]
      <4> DEFINE items == <<Stop, Usage(0, 7)>>
      <4>1. items[1] = Stop /\ items[2] = Usage(0, 7)
        OBVIOUS
      <4>2. Gathers(g, items) = Pushed(Pushed(g, items, 1), items, 2)
        BY GathersTwo
      <4> HIDE DEF items
      <4>3. Pushed(g, items, 1) = g
        BY <4>1, StopItems, PushedStop
      <4>4. Pushed(g, items, 2) = [g EXCEPT !.usage = MergeIncremental(@, <<0, 7>>)]
        BY <4>1, PushedUsage
      <4>5. MergeIncremental(g.usage, <<0, 7>>) = SpentSoFar("message_stop")
        BY <1>3, <1>4, <1>6, Merged
      <4> QED
        BY <3>1, <4>2, <4>3, <4>4, <4>5 DEF items
    <3>3. f.items \in Seq(FrameItem) /\ f.items # Comment
      <4>1. <<Stop, Usage(0, 7)>> # Comment
        BY StopItems, NotComment
      <4>2. Stop \in FrameItem /\ Usage(0, 7) \in FrameItem
        BY StopItems
      <4> QED
        BY <3>1, <4>1, <4>2
    <3>4. Ending(f, g, "message_stop")
      BY <1>4, <2>7, <3>1, <3>2, <3>3 DEF Ending, Parts
    <3> QED
      BY <3>4, EndFrame
  <2> QED
    BY <2>2, <2>4, <2>5, <2>6, <2>7
<1>7. CASE said.part = "message_stop"
  <2>1. f.items = <<>> /\ f.next = Reaches("complete")
    BY <1>7 DEF Anthropic, Frame
  <2>2. Gathers(g, f.items) = g
    BY <2>1, GathersNone
  <2>3. g = [g EXCEPT !.usage = SpentSoFar("complete")]
    BY <1>3, <1>4, <1>7, UsageStays
  <2>4. f.items \in Seq(FrameItem) /\ f.items # Comment
    BY <2>1 DEF Comment
  <2>5. Ending(f, g, "complete")
    BY <1>4, <1>7, <2>1, <2>2, <2>3, <2>4 DEF Ending, Parts
  <2> QED
    BY <2>5, EndFrame
<1>8. CASE said.part \notin {"opening", "body", "message_stop"}
  BY <1>8 DEF Anthropic
<1> QED
  BY <1>5, <1>6, <1>7, <1>8

LEMMA OllamaFrames ==
    ASSUME provider = "ollama", SaidOK(said), NEW g \in Gathered, Tells(said, g), NEW f \in Ollama
    PROVE  FrameOK(f, g)
<1> DEFINE N == Len(said.uses)
           use(k) == Use(None, None, Whole(k))
           opened(k) == OpenedUse(k, Whole(k))
           a1(m) == Frame([n \in 1..m |-> use([l \in 1..m |-> Fresh + l - 1][n])],
                          OpensUses([n \in 1..m |-> opened([l \in 1..m |-> Fresh + l - 1][n])]))
           a2 == Frame(<<Stop, Usage(3, 7)>>, Reaches("complete"))
<1>1. N \in Nat /\ said.uses \in Seq(UseSaid) /\ said.part \in Parts
  BY SaidFields DEF SaidOK
<1>2. Fresh = N + 1 /\ N + 1 \in Nat /\ N + 2 \in Nat /\ Fresh + 1 - 1 = N + 1 /\ Fresh + 2 - 1 = N + 2
  BY <1>1 DEF Fresh
<1>3. g.usage = SpentSoFar(said.part)
  BY DEF Tells
<1>4. /\ SpentSoFar("opening") = <<0, 0>> /\ SpentSoFar("body") = <<0, 0>>
      /\ SpentSoFar("complete") = <<3, 7>>
  BY DEF SpentSoFar, Spent
<1>5. said.part \in {"opening", "body"}
  BY DEF Ollama, If
<1>6. \/ f \in SaysText
      \/ \E m \in 1..2 : f = a1(m)
      \/ f = a2
  BY <1>5 DEF Ollama, If, Spent
<1>7. SpentSoFar("body") = SpentSoFar(said.part)
  BY <1>4, <1>5
<1>8. CASE f \in SaysText
  BY <1>7, <1>8, TextFrame
<1>9. /\ Whole(N + 1) \in ArgsOf(N + 1) /\ Whole(N + 2) \in ArgsOf(N + 2) /\ None \in Nat
      /\ opened(N + 1) = [index |-> N, args |-> Whole(N + 1)]
      /\ opened(N + 2) = [index |-> N + 1, args |-> Whole(N + 2)]
  <2>1. N + 1 - 1 = N /\ N + 2 - 1 = N + 1
    BY <1>1
  <2> QED
    BY <2>1 DEF ArgsOf, None, OpenedUse
<1> HIDE DEF use, opened
<1>10. CASE f = a1(1)
  <2>1. /\ [n \in 1..1 |-> use([l \in 1..1 |-> Fresh + l - 1][n])] = <<use(N + 1)>>
        /\ [n \in 1..1 |-> opened([l \in 1..1 |-> Fresh + l - 1][n])] = <<opened(N + 1)>>
    <3>1. \A n \in 1..1 : n = 1 /\ [l \in 1..1 |-> Fresh + l - 1][n] = N + 1
      BY <1>2
    <3> QED
      BY <3>1
  <2>2. f.items = <<Use(None, None, Whole(N + 1))>>
        /\ f.next = OpensUses(<<[index |-> N, args |-> Whole(N + 1)]>>)
    <3>1. f = Frame(<<use(N + 1)>>, OpensUses(<<opened(N + 1)>>))
      BY <1>10, <2>1
    <3> QED
      BY <1>9, <3>1 DEF Frame, use
  <2> QED
    BY <1>1, <1>2, <1>7, <1>9, <2>2, OpenFrame
<1>11. CASE f = a1(2)
  <2>1. /\ [n \in 1..2 |-> use([l \in 1..2 |-> Fresh + l - 1][n])] = <<use(N + 1), use(N + 2)>>
        /\ [n \in 1..2 |-> opened([l \in 1..2 |-> Fresh + l - 1][n])] = <<opened(N + 1), opened(N + 2)>>
    <3>1. [l \in 1..2 |-> Fresh + l - 1][1] = N + 1 /\ [l \in 1..2 |-> Fresh + l - 1][2] = N + 2
      BY <1>2
    <3>2. 1..2 = {1, 2}
      OBVIOUS
    <3> QED
      BY <3>1, <3>2
  <2>2. /\ f.items = <<Use(None, None, Whole(N + 1)), Use(None, None, Whole(N + 2))>>
        /\ f.next = OpensUses(<<[index |-> N, args |-> Whole(N + 1)],
                                [index |-> N + 1, args |-> Whole(N + 2)]>>)
    <3>1. f = Frame(<<use(N + 1), use(N + 2)>>, OpensUses(<<opened(N + 1), opened(N + 2)>>))
      BY <1>11, <2>1
    <3> QED
      BY <1>9, <3>1 DEF Frame, use
  <2> QED
    BY <1>1, <1>2, <1>7, <1>9, <2>2, OpenFrames
<1>12. CASE f = a2
  <2>1. f.items = <<Stop, Usage(3, 7)>> /\ f.next = Reaches("complete")
    BY <1>12 DEF Frame
  <2>2. Gathers(g, f.items) = [g EXCEPT !.usage = SpentSoFar("complete")]
    <3> DEFINE items == <<Stop, Usage(3, 7)>>
    <3>1. items[1] = Stop /\ items[2] = Usage(3, 7)
      OBVIOUS
    <3>2. Gathers(g, items) = Pushed(Pushed(g, items, 1), items, 2)
      BY GathersTwo
    <3> HIDE DEF items
    <3>3. Pushed(g, items, 1) = g
      BY <3>1, StopItems, PushedStop
    <3>4. Pushed(g, items, 2) = [g EXCEPT !.usage = MergeIncremental(@, <<3, 7>>)]
      BY <3>1, PushedUsage
    <3>5. MergeIncremental(g.usage, <<3, 7>>) = SpentSoFar("complete")
      BY <1>3, <1>4, <1>5, Merged
    <3> QED
      BY <2>1, <3>2, <3>3, <3>4, <3>5 DEF items
  <2>3. f.items \in Seq(FrameItem) /\ f.items # Comment
    <3>1. <<Stop, Usage(3, 7)>> # Comment
      BY StopItems, NotComment
    <3>2. Stop \in FrameItem /\ Usage(3, 7) \in FrameItem
      BY StopItems
    <3> QED
      BY <2>1, <3>1, <3>2
  <2>4. SaidOK(Reaches("complete")) /\ SaysOn(said, Reaches("complete"))
        /\ Tells(Reaches("complete"), Gathers(g, f.items)) /\ Gathers(g, f.items) \in Gathered
    <3> DEFINE u == SpentSoFar("complete")
               r == [g EXCEPT !.usage = u]
    <3>1. u \in Nat \X Nat
      BY <1>4
    <3>2. r \in Gathered /\ r.texts = g.texts /\ r.calls = g.calls /\ r.next = g.next /\ r.usage = u
      BY <3>1, GatheredChanges
    <3> HIDE DEF r, u
    <3>3. "complete" \in Parts
      BY DEF Parts
    <3>4. SaidOK(Reaches("complete")) /\ SaysOn(said, Reaches("complete")) /\ Tells(Reaches("complete"), r)
      BY <3>2, <3>3, PartFrame DEF u
    <3> QED
      BY <2>2, <3>2, <3>4 DEF r, u
  <2> QED
    BY <2>1, <2>3, <2>4 DEF FrameOK
<1>13. \A m \in 1..2 : m = 1 \/ m = 2
  OBVIOUS
<1> QED
  BY <1>6, <1>8, <1>10, <1>11, <1>12, <1>13

LEMMA FramesTell ==
    ASSUME provider \in {"openai", "anthropic", "ollama"}, SaidOK(said), NEW g \in Gathered,
           Tells(said, g), NEW f \in Frames
    PROVE  FrameOK(f, g)
  BY OpenAiFrames, AnthropicFrames, OllamaFrames DEF Frames

--------------------------------------------------------------------------------
(* The bytes on their way: taken one after the other they bring what is       *)
(* gathered, g, to e, and all that is gathered between is a beginning of x.   *)
Step(g, b) == IF b.half = 2 THEN Gathers(g, b.items) ELSE g
GathersByte(x, g, b, r) ==
    /\ r = Step(g, b) /\ r \in Gathered /\ Below(x, r)
    /\ Len(g.texts) <= Len(r.texts)
History(h, p, x) ==
    /\ h \in [0..Len(p) -> Gathered] /\ Below(x, h[0])
    /\ \A j \in 1..Len(p) : GathersByte(x, h[j - 1], p[j], h[j])
Flow(p, x, g, e) ==
    p \in Seq(Byte) /\ \E h : History(h, p, x) /\ h[0] = g /\ h[Len(p)] = e

LEMMA FlowNone ==
    ASSUME NEW x, NEW g \in Gathered, Below(x, g)
    PROVE  Flow(<<>>, x, g, g)
<1> DEFINE h == [j \in 0..0 |-> g]
<1>1. h \in [0..0 -> Gathered] /\ h[0] = g
  OBVIOUS
<1> HIDE DEF h
<1>2. Len(<<>>) = 0 /\ <<>> \in Seq(Byte) /\ 1..0 = {}
  OBVIOUS
<1>3. History(h, <<>>, x)
  BY <1>1, <1>2 DEF History
<1> QED
  BY <1>1, <1>2, <1>3 DEF Flow

LEMMA FlowEnds ==
    ASSUME NEW p, NEW x, NEW g, NEW e, Flow(p, x, g, e)
    PROVE  /\ g \in Gathered /\ e \in Gathered /\ Below(x, g) /\ Below(x, e)
           /\ p = <<>> => e = g
<1>1. PICK h : History(h, p, x) /\ h[0] = g /\ h[Len(p)] = e
  BY DEF Flow
<1>2. p \in Seq(Byte) /\ Len(p) \in Nat
  BY InSeq DEF Flow
<1>3. 0 \in 0..Len(p) /\ Len(p) \in 0..Len(p) /\ (Len(p) = 0 \/ Len(p) \in 1..Len(p))
  BY <1>2
<1>4. g \in Gathered /\ e \in Gathered /\ Below(x, g)
  BY <1>1, <1>3 DEF History
<1>5. Below(x, e)
  BY <1>1, <1>3, <1>4 DEF History, GathersByte
<1> QED
  BY <1>1, <1>4, <1>5

LEMMA FlowNext ==
    ASSUME NEW p, NEW x, NEW g, NEW e, Flow(p, x, g, e), NEW b \in Byte, NEW r, GathersByte(x, e, b, r)
    PROVE  Flow(Append(p, b), x, g, r)
<1>1. PICK h : History(h, p, x) /\ h[0] = g /\ h[Len(p)] = e
  BY DEF Flow
<1> DEFINE N == Len(p)
           q == Append(p, b)
           k == [j \in 0..(N + 1) |-> IF j = N + 1 THEN r ELSE h[j]]
<1>2. p \in Seq(Byte) /\ N \in Nat
  BY InSeq DEF Flow
<1>3. q \in Seq(Byte) /\ Len(q) = N + 1 /\ q[N + 1] = b /\ \A j \in 1..N : q[j] = p[j]
  BY <1>2, AppendProperties
<1>4. k[N + 1] = r /\ \A j \in 0..N : k[j] = h[j]
  BY <1>2
<1>5. k \in [0..(N + 1) -> Gathered]
  BY <1>1, <1>2 DEF History, GathersByte
<1> HIDE DEF k, q
<1>6. ASSUME NEW j \in 1..(N + 1) PROVE GathersByte(x, k[j - 1], q[j], k[j])
  <2>1. CASE j = N + 1
    <3>1. k[j - 1] = e /\ k[j] = r /\ q[j] = b
      BY <1>1, <1>2, <1>3, <1>4, <2>1
    <3> QED
      BY <3>1
  <2>2. CASE j \in 1..N
    <3>1. k[j - 1] = h[j - 1] /\ k[j] = h[j] /\ q[j] = p[j]
      BY <1>2, <1>3, <1>4, <2>2
    <3> QED
      BY <1>1, <2>2, <3>1 DEF History
  <2> QED
    BY <1>2, <2>1, <2>2
<1>7. k[0] = h[0] /\ k[Len(q)] = r
  BY <1>2, <1>3, <1>4
<1>8. History(k, q, x)
  BY <1>1, <1>3, <1>5, <1>6, <1>7 DEF History
<1> QED
  BY <1>1, <1>3, <1>7, <1>8 DEF Flow, q

LEMMA FlowCut ==
    ASSUME NEW p, NEW x, NEW g, NEW e, Flow(p, x, g, e), NEW n \in 0..Len(p)
    PROVE  \E f : Flow(SubSeq(p, 1, n), x, g, f) /\ Flow(SubSeq(p, n + 1, Len(p)), x, f, e)
<1>1. PICK h : History(h, p, x) /\ h[0] = g /\ h[Len(p)] = e
  BY DEF Flow
<1> DEFINE N == Len(p)
           a == SubSeq(p, 1, n)
           b == SubSeq(p, n + 1, N)
           u == [j \in 0..n |-> h[j]]
           v == [j \in 0..(N - n) |-> h[j + n]]
<1>2. p \in Seq(Byte) /\ N \in Nat /\ n \in Nat /\ n <= N
  BY InSeq DEF Flow
<1>3. a \in Seq(Byte) /\ Len(a) = n /\ \A j \in 1..n : a[j] = p[j]
  BY <1>2
<1>4. b \in Seq(Byte) /\ Len(b) = N - n /\ \A j \in 1..(N - n) : b[j] = p[j + n]
  BY <1>2
<1>5. h \in [0..N -> Gathered] /\ \A j \in 1..N : GathersByte(x, h[j - 1], p[j], h[j])
  BY <1>1 DEF History
<1>6. \A j \in 0..n : u[j] = h[j]
  OBVIOUS
<1>7. \A j \in 0..(N - n) : v[j] = h[j + n]
  OBVIOUS
<1>8. u \in [0..n -> Gathered] /\ v \in [0..(N - n) -> Gathered]
  BY <1>2, <1>5
<1>9. Below(x, h[n])
  <2>1. n = 0 \/ n \in 1..N
    BY <1>2
  <2> QED
    BY <1>1, <1>5, <2>1 DEF History, GathersByte
<1> HIDE DEF a, b, u, v
<1>10. Flow(a, x, g, h[n])
  <2>1. ASSUME NEW j \in 1..n PROVE GathersByte(x, u[j - 1], a[j], u[j])
    <3>1. j \in 1..N /\ u[j - 1] = h[j - 1] /\ u[j] = h[j] /\ a[j] = p[j]
      BY <1>2, <1>3, <1>6
    <3> QED
      BY <1>5, <3>1
  <2>2. u[0] = g /\ u[n] = h[n] /\ Below(x, u[0])
    BY <1>1, <1>2, <1>6 DEF History
  <2>3. History(u, a, x)
    BY <1>3, <1>8, <2>1, <2>2 DEF History
  <2> QED
    BY <1>3, <2>2, <2>3 DEF Flow
<1>11. Flow(b, x, h[n], e)
  <2>1. ASSUME NEW j \in 1..(N - n) PROVE GathersByte(x, v[j - 1], b[j], v[j])
    <3>1. /\ j + n \in 1..N /\ v[j - 1] = h[(j + n) - 1]
      <4>1. j + n \in 1..N /\ j - 1 \in 0..(N - n) /\ (j - 1) + n = (j + n) - 1
        BY <1>2
      <4> QED
        BY <1>7, <4>1
    <3>2. v[j] = h[j + n] /\ b[j] = p[j + n]
      BY <1>2, <1>4, <1>7
    <3> QED
      BY <1>5, <3>1, <3>2
  <2>2. v[0] = h[n] /\ v[N - n] = e
    <3>1. 0 \in 0..(N - n) /\ N - n \in 0..(N - n) /\ 0 + n = n /\ (N - n) + n = N
      BY <1>2
    <3> QED
      BY <1>1, <1>7, <3>1
  <2>3. History(v, b, x)
    BY <1>4, <1>8, <1>9, <2>1, <2>2 DEF History
  <2> QED
    BY <1>4, <2>2, <2>3 DEF Flow
<1> QED
  BY <1>10, <1>11 DEF a, b

LEMMA FlowStill ==
    ASSUME NEW p, NEW x, NEW g, NEW e, Flow(p, x, g, e),
           \A j \in 1..Len(p) : p[j].half = 2 => p[j].items = Comment
    PROVE  e = g
<1>1. PICK h : History(h, p, x) /\ h[0] = g /\ h[Len(p)] = e
  BY DEF Flow
<1> DEFINE N == Len(p)
           B == {j \in 0..N : h[j] # g}
<1>2. N \in Nat
  BY InSeq DEF Flow
<1>3. \A j \in 1..N : h[j] = h[j - 1]
  <2>1. \A f : Gathers(f, Comment) = f
    BY CommentIsNothing
  <2> QED
    BY <1>1, <2>1 DEF History, GathersByte, Step
<1>4. SUFFICES ASSUME B # {} PROVE FALSE
  <2>1. N \in 0..N
    BY <1>2
  <2> QED
    BY <1>1, <1>4, <2>1
<1>5. 0 \notin B
  BY <1>1
<1>6. PICK k \in B : k \in 1..N /\ k - 1 \in 0..N /\ k - 1 \notin B
  BY <1>2, <1>4, <1>5, FirstFailure
<1> QED
  BY <1>3, <1>6

LEMMA FlowFrame ==
    ASSUME NEW p, NEW x, NEW g, NEW e, Flow(p, x, g, e), Len(p) \in 2..3,
           p[1].half = 1, p[2].half = 2, Len(p) = 3 => p[3].half = 0
    PROVE  e = Gathers(g, p[2].items) /\ Len(g.texts) <= Len(e.texts)
<1>1. PICK h : History(h, p, x) /\ h[0] = g /\ h[Len(p)] = e
  BY DEF Flow
<1>2. GathersByte(x, h[0], p[1], h[1]) /\ GathersByte(x, h[1], p[2], h[2])
  <2>1. 1 \in 1..Len(p) /\ 2 \in 1..Len(p) /\ 1 - 1 = 0 /\ 2 - 1 = 1
    OBVIOUS
  <2> QED
    BY <1>1, <2>1 DEF History
<1>3. h[1] = g
  BY <1>1, <1>2 DEF GathersByte, Step
<1>4. h[2] = Gathers(g, p[2].items) /\ Len(g.texts) <= Len(h[2].texts)
  BY <1>2, <1>3 DEF GathersByte, Step
<1>5. CASE Len(p) = 2
  BY <1>1, <1>4, <1>5
<1>6. CASE Len(p) = 3
  <2>1. 3 \in 1..Len(p) /\ 3 - 1 = 2
    BY <1>6
  <2>2. GathersByte(x, h[2], p[3], h[3])
    BY <1>1, <2>1 DEF History
  <2>3. h[3] = h[2]
    BY <1>6, <2>2 DEF GathersByte, Step
  <2> QED
    BY <1>1, <1>4, <1>6, <2>3
<1> QED
  BY <1>5, <1>6

LEMMA FlowGrows ==
    ASSUME NEW x \in Said, NEW y \in Said, SaysOn(x, y), NEW p, NEW g, NEW e, Flow(p, x, g, e)
    PROVE  Flow(p, y, g, e)
<1>1. PICK h : History(h, p, x) /\ h[0] = g /\ h[Len(p)] = e
  BY DEF Flow
<1>2. \A f : Below(x, f) => Below(y, f)
  BY BelowGrows
<1>3. History(h, p, y)
  BY <1>1, <1>2 DEF History, GathersByte
<1> QED
  BY <1>1, <1>3 DEF Flow

(* Between the frames: the halves of a comment stand together before a mark, and  *)
(* only a provider that sends lines has marks behind marks, and it has no comment. *)
CommentHalf(n) == [half |-> n, items |-> Comment]
After(a, b) ==
    /\ a.items = Comment /\ a.half = 1 => b = CommentHalf(2)
    /\ a.items = Comment /\ a.half # 1 => b = Mark
    /\ provider # "ollama" /\ b = Mark => a # Mark
Framed(p) ==
    /\ p \in Seq(Byte)
    /\ \A j \in 1..Len(p) : /\ provider = "ollama" => p[j].items # Comment
                            /\ j = 1 => provider = "ollama" \/ p[j] # Mark
                            /\ j > 1 => After(p[j - 1], p[j])

LEMMA FramedNone == Framed(<<>>)
<1>1. <<>> \in Seq(Byte) /\ Len(<<>>) = 0 /\ 1..0 = {}
  OBVIOUS
<1> QED
  BY <1>1 DEF Framed

LEMMA FramedNext ==
    ASSUME NEW p, Framed(p), NEW b \in Byte, provider = "ollama" => b.items # Comment,
           p = <<>> => provider = "ollama" \/ b # Mark, p # <<>> => After(p[Len(p)], b)
    PROVE  Framed(Append(p, b)) /\ Len(Append(p, b)) = Len(p) + 1 /\ Append(p, b)[Len(p) + 1] = b
<1> DEFINE N == Len(p)
           q == Append(p, b)
<1>1. p \in Seq(Byte) /\ N \in Nat
  BY InSeq DEF Framed
<1>2. q \in Seq(Byte) /\ Len(q) = N + 1 /\ q[N + 1] = b /\ \A j \in 1..N : q[j] = p[j]
  BY <1>1, AppendProperties
<1>3. p = <<>> <=> N = 0
  BY <1>1
<1> HIDE DEF q
<1>4. ASSUME NEW j \in 1..(N + 1)
      PROVE  /\ provider = "ollama" => q[j].items # Comment
             /\ j = 1 => provider = "ollama" \/ q[j] # Mark
             /\ j > 1 => After(q[j - 1], q[j])
  <2>1. CASE j = N + 1
    <3>1. q[j] = b /\ (j = 1 => p = <<>>)
      BY <1>1, <1>2, <1>3, <2>1
    <3>2. j > 1 => p # <<>> /\ q[j - 1] = p[N]
      BY <1>1, <1>2, <1>3, <2>1
    <3> QED
      BY <3>1, <3>2
  <2>2. CASE j \in 1..N
    <3>1. q[j] = p[j] /\ (j > 1 => q[j - 1] = p[j - 1])
      BY <1>1, <1>2, <2>2
    <3> QED
      BY <2>2, <3>1 DEF Framed
  <2> QED
    BY <1>1, <2>1, <2>2
<1>5. Framed(q)
  BY <1>2, <1>4 DEF Framed
<1> QED
  BY <1>2, <1>5 DEF q

LEMMA FramedPrefix ==
    ASSUME NEW p, Framed(p), NEW n \in 0..Len(p)
    PROVE  Framed(SubSeq(p, 1, n))
<1> DEFINE q == SubSeq(p, 1, n)
<1>1. p \in Seq(Byte) /\ Len(p) \in Nat
  BY InSeq DEF Framed
<1>2. q \in Seq(Byte) /\ Len(q) = n /\ \A j \in 1..n : q[j] = p[j]
  BY <1>1
<1> HIDE DEF q
<1>3. ASSUME NEW j \in 1..n
      PROVE  j \in 1..Len(p) /\ q[j] = p[j] /\ (j > 1 => q[j - 1] = p[j - 1])
  BY <1>1, <1>2
<1>4. Framed(q)
  BY <1>2, <1>3 DEF Framed
<1> QED
  BY <1>4 DEF q

LEMMA FramedRest ==
    ASSUME NEW p, Framed(p), NEW n \in 1..Len(p), p[n] = Mark
    PROVE  Framed(SubSeq(p, n + 1, Len(p)))
<1> DEFINE q == SubSeq(p, n + 1, Len(p))
           N == Len(p) - n
<1>1. p \in Seq(Byte) /\ Len(p) \in Nat
  BY InSeq DEF Framed
<1>2. q \in Seq(Byte) /\ Len(q) = N /\ \A j \in 1..N : q[j] = p[j + n]
  BY <1>1
<1> HIDE DEF q
<1>3. ASSUME NEW j \in 1..N
      PROVE  /\ provider = "ollama" => q[j].items # Comment
             /\ j = 1 => provider = "ollama" \/ q[j] # Mark
             /\ j > 1 => After(q[j - 1], q[j])
  <2>1. j + n \in 1..Len(p) /\ j + n > 1 /\ q[j] = p[j + n]
    BY <1>1, <1>2
  <2>2. (provider = "ollama" => p[j + n].items # Comment) /\ After(p[(j + n) - 1], p[j + n])
    BY <2>1 DEF Framed
  <2>3. j = 1 => (j + n) - 1 = n
    BY <1>1
  <2>4. j > 1 => q[j - 1] = p[(j + n) - 1]
    <3>1. j > 1 => j - 1 \in 1..N /\ (j - 1) + n = (j + n) - 1
      BY <1>1
    <3> QED
      BY <1>2, <3>1
  <2> QED
    BY <2>1, <2>2, <2>3, <2>4 DEF After
<1>4. Framed(q)
  BY <1>2, <1>3 DEF Framed
<1> QED
  BY <1>4 DEF q

--------------------------------------------------------------------------------
(* What a provider adds to the bytes. *)
LEMMA StepsOver ==
    ASSUME NEW x, NEW g \in Gathered, Below(x, g), NEW b, b.half # 2
    PROVE  GathersByte(x, g, b, g)
<1>1. Len(g.texts) \in Nat
  BY GatheredFields, InSeq
<1> QED
  BY <1>1 DEF GathersByte, Step

LEMMA HalvesAre ==
    ASSUME NEW i \in Seq(FrameItem)
    PROVE  /\ [half |-> 1, items |-> i] \in Byte /\ [half |-> 2, items |-> i] \in Byte /\ Mark \in Byte
           /\ [half |-> 1, items |-> i] # Mark /\ [half |-> 2, items |-> i] # Mark
           /\ Mark.items # Comment /\ Mark.half = 0
           /\ Comment \in Seq(FrameItem)
<1>1. /\ [half |-> 1, items |-> i] \in Byte /\ [half |-> 2, items |-> i] \in Byte
  BY DEF Byte
<1>2. [half |-> 1, items |-> i].half = 1 /\ [half |-> 2, items |-> i].half = 2 /\ Mark.half = 0
  BY DEF Mark
<1>3. <<>> \in Seq(FrameItem) /\ Mark \in Byte
  BY DEF Mark, Byte
<1>4. [kind |-> "comment"] \in FrameItem
  BY DEF FrameItem
<1>5. Comment \in Seq(FrameItem) /\ Comment # <<>>
  BY <1>4 DEF Comment
<1>6. Mark.items = <<>>
  BY DEF Mark
<1> QED
  BY <1>1, <1>2, <1>3, <1>5, <1>6

LEMMA SendsHalves ==
    ASSUME NEW p, NEW x, NEW g, NEW e, Framed(p), Flow(p, x, g, e), NEW i \in Seq(FrameItem),
           provider = "ollama" => i # Comment, p # <<>> => p[Len(p)].items # Comment,
           NEW r, r = Gathers(e, i), r \in Gathered, Below(x, r), Len(e.texts) <= Len(r.texts)
    PROVE  /\ Framed(p \o Halves(i)) /\ Flow(p \o Halves(i), x, g, r) /\ p \o Halves(i) # <<>>
           /\ (p \o Halves(i))[Len(p \o Halves(i))] = [half |-> 2, items |-> i]
<1> DEFINE a == [half |-> 1, items |-> i]
           b == [half |-> 2, items |-> i]
           q == Append(p, a)
<1>1. p \in Seq(Byte) /\ Len(p) \in Nat
  BY InSeq DEF Framed
<1>2. a \in Byte /\ b \in Byte /\ a # Mark /\ b # Mark
  BY HalvesAre
<1>3. a.half = 1 /\ a.items = i /\ b.half = 2 /\ b.items = i /\ a.half # 2
  OBVIOUS
<1>4. p \o Halves(i) = Append(q, b)
  BY <1>1, <1>2, ConcatTwo DEF Halves
<1>5. i = Comment => b = CommentHalf(2)
  BY DEF CommentHalf
<1> HIDE DEF a, b
<1>6. p # <<>> => After(p[Len(p)], a)
  BY <1>2 DEF After
<1>7. Framed(q) /\ Len(q) = Len(p) + 1 /\ q[Len(p) + 1] = a
  BY <1>2, <1>3, <1>6, FramedNext
<1>8. q \in Seq(Byte)
  BY <1>7 DEF Framed
<1>9. q # <<>> /\ q[Len(q)] = a
  <2>1. q # <<>>
    BY <1>1, <1>2, AppendProperties
  <2> HIDE DEF q
  <2> QED
    BY <1>7, <2>1
<1> HIDE DEF q
<1>10. After(a, b)
  BY <1>2, <1>3, <1>5 DEF After
<1>11. Framed(Append(q, b)) /\ Len(Append(q, b)) = Len(q) + 1 /\ Append(q, b)[Len(q) + 1] = b
  BY <1>2, <1>3, <1>7, <1>9, <1>10, FramedNext
<1>12. e \in Gathered /\ Below(x, e)
  BY FlowEnds
<1>13. GathersByte(x, e, a, e)
  BY <1>3, <1>12, StepsOver
<1>14. Flow(q, x, g, e)
  BY <1>2, <1>13, FlowNext DEF q
<1>15. GathersByte(x, e, b, r)
  BY <1>3 DEF GathersByte, Step
<1>16. Flow(Append(q, b), x, g, r)
  BY <1>2, <1>14, <1>15, FlowNext
<1>17. Append(q, b) # <<>>
  BY <1>2, <1>8, AppendProperties
<1> QED
  BY <1>4, <1>11, <1>16, <1>17 DEF b

LEMMA SendsMark ==
    ASSUME NEW p, NEW x, NEW g, NEW e, Framed(p), Flow(p, x, g, e),
           p = <<>> => provider = "ollama", p # <<>> => After(p[Len(p)], Mark)
    PROVE  /\ Framed(p \o <<Mark>>) /\ Flow(p \o <<Mark>>, x, g, e)
           /\ (p \o <<Mark>>)[Len(p \o <<Mark>>)].items # Comment
<1>1. p \in Seq(Byte) /\ Len(p) \in Nat
  BY InSeq DEF Framed
<1>2. Mark \in Byte /\ Mark.items # Comment /\ Mark.half # 2
  <2>1. <<>> \in Seq(FrameItem)
    OBVIOUS
  <2>2. Mark \in Byte /\ Mark.items # Comment /\ Mark.half = 0
    BY <2>1, HalvesAre
  <2> QED
    BY <2>2
<1>3. p \o <<Mark>> = Append(p, Mark)
  BY <1>1, <1>2, AppendIsConcat
<1>4. Framed(Append(p, Mark)) /\ Len(Append(p, Mark)) = Len(p) + 1 /\ Append(p, Mark)[Len(p) + 1] = Mark
  BY <1>2, FramedNext
<1>5. e \in Gathered /\ Below(x, e)
  BY FlowEnds
<1>6. GathersByte(x, e, Mark, e)
  BY <1>2, <1>5, StepsOver
<1>7. Flow(Append(p, Mark), x, g, e)
  BY <1>2, <1>6, FlowNext
<1> QED
  BY <1>2, <1>3, <1>4, <1>7

--------------------------------------------------------------------------------
(* What is read and what is on its way, p, tells of all that is said when no byte *)
(* of it has been lost: the connection stands, or was closed behind the last one. *)
NothingLost(x, end) == end = "open" \/ (end = "closed" /\ x.part = "complete")
Carries(p, x, g, end) ==
    /\ Framed(p)
    /\ end = "open" /\ p # <<>> => p[Len(p)].items # Comment
    /\ \E e : Flow(p, x, g, e) /\ (NothingLost(x, end) => Tells(x, e))
Story(r, w, x, g) ==
    /\ r \in ReaderType /\ w \in WireType /\ SaidOK(x)
    /\ r.done => w.bytes = <<>> /\ w.end = "closed"
    /\ r.pull => provider = "ollama"
    /\ Carries(r.buffer \o w.bytes, x, g, w.end)

LEMMA StoryBegins ==
    ASSUME provider \in {"openai", "anthropic", "ollama"}
    PROVE  Story(NothingRead, [bytes |-> <<>>, end |-> "open"], NothingSaid, NoneGathered)
<1> DEFINE w == [bytes |-> <<>>, end |-> "open"]
           x == NothingSaid
           g == NoneGathered
<1>1. NothingRead \in ReaderType /\ NothingRead.buffer = <<>> /\ NothingRead.done = FALSE
      /\ NothingRead.pull = FALSE
  BY DEF NothingRead, ReaderType
<1>2. w \in WireType /\ w.bytes = <<>> /\ w.end = "open"
  BY DEF WireType
<1>3. /\ x \in Said /\ x.texts = 0 /\ x.uses = <<>> /\ Len(x.uses) = 0 /\ x.part = "opening"
  BY DEF NothingSaid, Said, Parts
<1>4. /\ g.texts = <<>> /\ g.calls = <<>> /\ g.usage = <<0, 0>> /\ g.next = 0
  BY DEF NoneGathered
<1>5. g.calls \in CallTables /\ DOMAIN g.calls = {}
  <2>1. <<>> \in [{} -> [id : Nat, args : Arguments]] /\ DOMAIN <<>> = {}
    OBVIOUS
  <2>2. {} \in SUBSET Nat
    OBVIOUS
  <2> QED
    BY <1>4, <2>1, <2>2 DEF CallTables
<1>6. g \in Gathered
  <2>1. <<>> \in Seq(Nat) /\ <<0, 0>> \in Nat \X Nat
    OBVIOUS
  <2> QED
    BY <1>4, <1>5, <2>1 DEF NoneGathered, Gathered
<1> HIDE DEF w, x, g
<1>7. SaidOK(x)
  BY <1>3 DEF SaidOK, UsesNumbered, Argued
<1>8. Count(0) = <<>>
  <2>1. Len(Count(0)) = 0 /\ Count(0) \in Seq(Nat)
    BY CountNext
  <2> QED
    BY <2>1
<1>9. Begun(x, g, 0)
  BY <1>3, <1>5 DEF Begun
<1>10. Tells(x, g)
  <2>1. SpentSoFar("opening") = <<0, 0>>
    BY DEF SpentSoFar
  <2>2. HoldsUses(x, g)
    BY <1>3, <1>9 DEF HoldsUses
  <2> QED
    BY <1>3, <1>4, <1>8, <2>1, <2>2 DEF Tells
<1>11. Flow(<<>>, x, g, g)
  BY <1>3, <1>6, <1>10, TellsBelow, FlowNone
<1>12. Carries(<<>>, x, g, "open")
  BY <1>10, <1>11, FramedNone DEF Carries
<1>13. <<>> \o <<>> = <<>>
  OBVIOUS
<1> QED
  BY <1>1, <1>2, <1>7, <1>12, <1>13 DEF Story, w, x, g

LEMMA ReaderFields ==
    ASSUME NEW r \in ReaderType
    PROVE  /\ r.buffer \in Seq(Byte) /\ r.done \in BOOLEAN /\ r.pull \in BOOLEAN
           /\ \A b \in Seq(Byte) : /\ [r EXCEPT !.buffer = b] \in ReaderType
                                   /\ [r EXCEPT !.buffer = b].buffer = b
                                   /\ [r EXCEPT !.buffer = b].done = r.done
                                   /\ [r EXCEPT !.buffer = b].pull = r.pull
           /\ \A b \in BOOLEAN : /\ [r EXCEPT !.pull = b] \in ReaderType
                                 /\ [r EXCEPT !.pull = b].buffer = r.buffer
                                 /\ [r EXCEPT !.pull = b].done = r.done
                                 /\ [r EXCEPT !.pull = b].pull = b
           /\ \A b \in BOOLEAN : /\ [r EXCEPT !.done = b] \in ReaderType
                                 /\ [r EXCEPT !.done = b].buffer = r.buffer
                                 /\ [r EXCEPT !.done = b].done = b
                                 /\ [r EXCEPT !.done = b].pull = r.pull
  BY DEF ReaderType

LEMMA WireFields ==
    ASSUME NEW w \in WireType
    PROVE  /\ w.bytes \in Seq(Byte) /\ w.end \in {"open", "closed", "broken"}
           /\ \A b \in Seq(Byte) : /\ [w EXCEPT !.bytes = b] \in WireType
                                   /\ [w EXCEPT !.bytes = b].bytes = b
                                   /\ [w EXCEPT !.bytes = b].end = w.end
  BY DEF WireType

LEMMA Joined ==
    ASSUME NEW a \in Seq(Byte), NEW b \in Seq(Byte), NEW c \in Seq(Byte)
    PROVE  /\ (a \o b) \o c = a \o (b \o c)
           /\ a \o b \in Seq(Byte) /\ b \o c \in Seq(Byte)
<1>1. (a \o b) \o c = a \o (b \o c)
  BY ConcatAssociative
<1> QED
  BY <1>1, ConcatProperties

LEMMA SpokenOn ==
    ASSUME NEW r, NEW w, NEW x, NEW g, Story(r, w, x, g), w.end = "open",
           NEW s \in Seq(Byte), NEW y, SaidOK(y), Carries((r.buffer \o w.bytes) \o s, y, g, "open")
    PROVE  Story(r, [w EXCEPT !.bytes = w.bytes \o s], y, g)
<1> DEFINE b == w.bytes \o s
           v == [w EXCEPT !.bytes = b]
<1>1. r.buffer \in Seq(Byte) /\ w.bytes \in Seq(Byte)
  BY ReaderFields, WireFields DEF Story
<1>2. b \in Seq(Byte) /\ r.buffer \o b = (r.buffer \o w.bytes) \o s
  BY <1>1, Joined
<1> HIDE DEF b
<1>3. v \in WireType /\ v.bytes = b /\ v.end = "open"
  BY <1>2, WireFields DEF Story
<1>4. ~r.done
  BY DEF Story
<1> HIDE DEF v
<1>5. Story(r, v, y, g)
  BY <1>2, <1>3, <1>4 DEF Story
<1> QED
  BY <1>5 DEF v, b

(* A frame is sent: what carried the answer carries the longer one. *)
LEMMA CarriesHalves ==
    ASSUME NEW p, NEW x \in Said, NEW y \in Said, NEW g, NEW e, NEW k, NEW i \in Seq(FrameItem),
           Framed(p), p # <<>> => p[Len(p)].items # Comment, Flow(p, x, g, e), Tells(x, e),
           SaysOn(x, y), k = Gathers(e, i), k \in Gathered, Tells(y, k),
           provider = "ollama" => i # Comment
    PROVE  /\ Framed(p \o Halves(i)) /\ Flow(p \o Halves(i), y, g, k) /\ p \o Halves(i) # <<>>
           /\ (p \o Halves(i))[Len(p \o Halves(i))] = [half |-> 2, items |-> i]
<1>1. Flow(p, y, g, e)
  BY FlowGrows
<1>2. Below(y, k)
  BY TellsBelow
<1>3. Len(e.texts) <= Len(k.texts)
  <2>1. e.texts = Count(x.texts) /\ k.texts = Count(y.texts) /\ x.texts <= y.texts
    BY DEF Tells, SaysOn
  <2>2. x.texts \in Nat /\ y.texts \in Nat
    BY SaidFields
  <2>3. Len(Count(x.texts)) = x.texts /\ Len(Count(y.texts)) = y.texts
    BY <2>2, CountNext
  <2> QED
    BY <2>1, <2>3
<1> QED
  BY <1>1, <1>2, <1>3, SendsHalves

LEMMA CarriesMark ==
    ASSUME NEW p, NEW x, NEW g, NEW e, NEW i \in Seq(FrameItem),
           Framed(p), Flow(p, x, g, e), Tells(x, e), p # <<>>, p[Len(p)] = [half |-> 2, items |-> i]
    PROVE  Carries(p \o <<Mark>>, x, g, "open")
<1>1. After(p[Len(p)], Mark)
  <2>1. [half |-> 2, items |-> i] # Mark
    BY HalvesAre
  <2>2. [half |-> 2, items |-> i].half = 2
    OBVIOUS
  <2> QED
    BY <2>1, <2>2 DEF After
<1>2. /\ Framed(p \o <<Mark>>) /\ Flow(p \o <<Mark>>, x, g, e)
      /\ (p \o <<Mark>>)[Len(p \o <<Mark>>)].items # Comment
  BY <1>1, SendsMark
<1> QED
  BY <1>2 DEF Carries

LEMMA Standing ==
    ASSUME NEW p, NEW x, NEW g, Carries(p, x, g, "open")
    PROVE  /\ Framed(p)
           /\ p # <<>> => p[Len(p)].items # Comment
           /\ \E e : Flow(p, x, g, e) /\ Tells(x, e)
<1>1. PICK e : Flow(p, x, g, e) /\ (NothingLost(x, "open") => Tells(x, e))
  BY Zenon DEF Carries
<1>2. NothingLost(x, "open")
  BY DEF NothingLost
<1>3. Framed(p) /\ ("open" = "open" /\ p # <<>> => p[Len(p)].items # Comment)
  BY Zenon DEF Carries
<1> QED
  BY <1>1, <1>2, <1>3

LEMMA SentBytes ==
    ASSUME NEW i \in Seq(FrameItem), NEW mark \in {<<Mark>>, <<>>}
    PROVE  Halves(i) \in Seq(Byte) /\ mark \in Seq(Byte)
<1>1. [half |-> 1, items |-> i] \in Byte /\ [half |-> 2, items |-> i] \in Byte /\ Mark \in Byte
  BY HalvesAre
<1>2. Halves(i) \in Seq(Byte)
  BY <1>1 DEF Halves
<1>3. <<Mark>> \in Seq(Byte) /\ <<>> \in Seq(Byte)
  BY <1>1
<1> QED
  BY <1>2, <1>3

LEMMA StorySends ==
    ASSUME provider \in {"openai", "anthropic", "ollama"},
           NEW r, NEW w, NEW g, Story(r, w, said, g), w.end = "open", NEW f \in Frames,
           NEW mark \in {<<Mark>>, <<>>}
    PROVE  Story(r, [w EXCEPT !.bytes = @ \o Halves(f.items) \o mark], f.next, g)
<1>0. PICK p, y, i : p = r.buffer \o w.bytes /\ y = f.next /\ i = f.items
  OBVIOUS
<1>1. r.buffer \in Seq(Byte) /\ w.bytes \in Seq(Byte) /\ SaidOK(said) /\ p \in Seq(Byte)
  BY <1>0, ReaderFields, WireFields, Joined DEF Story
<1>2. Carries(p, said, g, "open")
  BY <1>0 DEF Story
<1>3. Framed(p) /\ (p # <<>> => p[Len(p)].items # Comment)
  BY <1>2, Standing
<1>4. PICK e : Flow(p, said, g, e) /\ Tells(said, e)
  BY <1>2, Standing
<1>5. e \in Gathered
  BY <1>4, FlowEnds
<1>6. FrameOK(f, e)
  BY <1>1, <1>4, <1>5, FramesTell
<1>7. PICK k : k = Gathers(e, i)
  OBVIOUS
<1>8. /\ SaidOK(y) /\ SaysOn(said, y) /\ k \in Gathered /\ Tells(y, k) /\ i \in Seq(FrameItem) /\ i # Comment
  BY <1>0, <1>6, <1>7 DEF FrameOK
<1>9. said \in Said /\ y \in Said
  BY <1>1, <1>8 DEF SaidOK
<1>10. PICK q : q = p \o Halves(i)
  OBVIOUS
<1>11. /\ Framed(q) /\ Flow(q, y, g, k) /\ q # <<>> /\ q[Len(q)] = [half |-> 2, items |-> i]
  BY <1>3, <1>4, <1>7, <1>8, <1>9, <1>10, CarriesHalves
<1>12. Halves(i) \in Seq(Byte) /\ mark \in Seq(Byte)
  BY <1>8, SentBytes
<1>13. Carries(q \o mark, y, g, "open")
  <2>1. CASE mark = <<>>
    <3>1. q \in Seq(Byte)
      BY <1>11 DEF Framed
    <3>2. q \o mark = q
      BY <2>1, <3>1, ConcatEmptySeq
    <3>3. q[Len(q)].items # Comment
      BY <1>8, <1>11
    <3> QED
      BY <1>8, <1>11, <3>2, <3>3 DEF Carries
  <2>2. CASE mark = <<Mark>>
    BY <1>8, <1>11, <2>2, CarriesMark
  <2> QED
    BY <2>1, <2>2
<1>14. PICK s : s = Halves(i) \o mark
  OBVIOUS
<1>15. q \o mark = p \o s /\ s \in Seq(Byte) /\ (w.bytes \o Halves(i)) \o mark = w.bytes \o s
  BY <1>1, <1>10, <1>12, <1>14, Joined
<1>16. Story(r, [w EXCEPT !.bytes = w.bytes \o s], y, g)
  BY <1>0, <1>8, <1>13, <1>15, SpokenOn
<1>17. [w EXCEPT !.bytes = @ \o Halves(f.items) \o mark] = [w EXCEPT !.bytes = w.bytes \o s]
  BY <1>0, <1>15
<1> QED
  BY <1>0, <1>16, <1>17

LEMMA NoiseIsNothing ==
    ASSUME NEW x, SaidOK(x), NEW y, y = [x EXCEPT !.noise = @ + 1]
    PROVE  /\ x \in Said /\ y \in Said /\ SaidOK(y) /\ SaysOn(x, y) /\ y.part = x.part
           /\ \A e : Tells(x, e) => Tells(y, e)
<1>1. x \in Said /\ x.texts \in Nat /\ x.noise \in Nat /\ Len(x.uses) \in Nat
  BY SaidFields DEF SaidOK
<1>2. /\ y \in Said /\ y.texts = x.texts /\ y.blocks = x.blocks /\ y.uses = x.uses /\ y.part = x.part
  <2>1. x.noise + 1 \in Nat
    BY <1>1
  <2> QED
    BY <1>1, <2>1, SaidChanges
<1>3. SaidOK(y)
  BY <1>2 DEF SaidOK, UsesNumbered, Argued
<1>4. SaysOn(x, y)
  BY <1>1, <1>2 DEF SaysOn
<1>5. \A e : Tells(x, e) => Tells(y, e)
  BY <1>2 DEF Tells, HoldsUses, Begun
<1> QED
  BY <1>1, <1>2, <1>3, <1>4, <1>5

LEMMA CarriesIdle ==
    ASSUME NEW p, NEW x, NEW g, NEW e, Framed(p), p # <<>> => p[Len(p)].items # Comment,
           Flow(p, x, g, e), Tells(x, e)
    PROVE  Carries(p \o Idle, x, g, "open") /\ Idle \in Seq(Byte)
<1>1. <<>> \in Seq(FrameItem) /\ Len(<<>>) = 0
  OBVIOUS
<1>2. Comment \in Seq(FrameItem) /\ Mark \in Byte
  BY <1>1, HalvesAre
<1>3. CASE provider = "ollama"
  <2>1. Idle = <<Mark>>
    BY <1>3 DEF Idle
  <2>2. p # <<>> => After(p[Len(p)], Mark)
    BY <1>3 DEF After
  <2>3. /\ Framed(p \o <<Mark>>) /\ Flow(p \o <<Mark>>, x, g, e)
        /\ (p \o <<Mark>>)[Len(p \o <<Mark>>)].items # Comment
    BY <1>3, <2>2, SendsMark
  <2>4. Carries(p \o <<Mark>>, x, g, "open")
    BY <2>3 DEF Carries
  <2>5. <<Mark>> \in Seq(Byte)
    BY <1>2
  <2> QED
    BY <2>1, <2>4, <2>5
<1>4. CASE provider # "ollama"
  <2>1. Idle = Halves(Comment) \o <<Mark>>
    BY <1>4 DEF Idle, Comment
  <2>2. e \in Gathered /\ Below(x, e)
    BY FlowEnds
  <2>3. Gathers(e, Comment) = e /\ Len(e.texts) <= Len(e.texts)
    <3>1. Len(e.texts) \in Nat
      BY <2>2, GatheredFields, InSeq
    <3> QED
      BY <3>1, CommentIsNothing
  <2>4. PICK q : q = p \o Halves(Comment)
    OBVIOUS
  <2>5. /\ Framed(q) /\ Flow(q, x, g, e) /\ q # <<>> /\ q[Len(q)] = [half |-> 2, items |-> Comment]
    BY <1>2, <1>4, <2>2, <2>3, <2>4, SendsHalves
  <2>6. Carries(q \o <<Mark>>, x, g, "open")
    BY <1>2, <2>5, CarriesMark
  <2>7. Halves(Comment) \in Seq(Byte) /\ <<Mark>> \in Seq(Byte) /\ p \in Seq(Byte)
    BY <1>2, SentBytes DEF Framed
  <2>8. q \o <<Mark>> = p \o (Halves(Comment) \o <<Mark>>) /\ Halves(Comment) \o <<Mark>> \in Seq(Byte)
    BY <2>4, <2>7, Joined
  <2> QED
    BY <2>1, <2>6, <2>8
<1> QED
  BY <1>3, <1>4

LEMMA StoryIdles ==
    ASSUME NEW r, NEW w, NEW x, NEW g, Story(r, w, x, g), w.end = "open"
    PROVE  Story(r, [w EXCEPT !.bytes = @ \o Idle], [x EXCEPT !.noise = @ + 1], g)
<1>1. PICK p, y : p = r.buffer \o w.bytes /\ y = [x EXCEPT !.noise = @ + 1]
  OBVIOUS
<1>2. Carries(p, x, g, "open") /\ SaidOK(x)
  BY <1>1 DEF Story
<1>3. Framed(p) /\ (p # <<>> => p[Len(p)].items # Comment)
  BY <1>2, Standing
<1>4. PICK e : Flow(p, x, g, e) /\ Tells(x, e)
  BY <1>2, Standing
<1>5. x \in Said /\ y \in Said /\ SaidOK(y) /\ SaysOn(x, y) /\ Tells(y, e)
  BY <1>1, <1>2, <1>4, NoiseIsNothing
<1>6. Flow(p, y, g, e)
  BY <1>4, <1>5, FlowGrows
<1>7. Carries(p \o Idle, y, g, "open") /\ Idle \in Seq(Byte)
  BY <1>3, <1>5, <1>6, CarriesIdle
<1>8. Story(r, [w EXCEPT !.bytes = w.bytes \o Idle], y, g)
  BY <1>1, <1>5, <1>7, SpokenOn
<1> QED
  BY <1>1, <1>8

LEMMA FirstsOf ==
    ASSUME NEW a \in Seq(Byte), NEW b \in Seq(Byte), NEW n \in 0..Len(b)
    PROVE  /\ a \o SubSeq(b, 1, n) = SubSeq(a \o b, 1, Len(a) + n)
           /\ SubSeq(b, 1, n) \in Seq(Byte)
           /\ Len(a) + n \in 0..Len(a \o b)
           /\ n = Len(b) => SubSeq(b, 1, n) = b
<1> DEFINE s == SubSeq(b, 1, n)
           p == a \o b
           q == SubSeq(p, 1, Len(a) + n)
           u == a \o s
<1>1. Len(a) \in Nat /\ Len(b) \in Nat /\ n \in Nat /\ n <= Len(b)
  BY InSeq
<1>2. s \in Seq(Byte) /\ Len(s) = n /\ \A j \in 1..n : s[j] = b[j]
  BY <1>1
<1>3. /\ p \in Seq(Byte) /\ Len(p) = Len(a) + Len(b)
      /\ \A j \in 1..Len(a) + Len(b) : p[j] = IF j <= Len(a) THEN a[j] ELSE b[j - Len(a)]
  BY ConcatProperties
<1> HIDE DEF s, p
<1>4. /\ u \in Seq(Byte) /\ Len(u) = Len(a) + n
      /\ \A j \in 1..Len(a) + n : u[j] = IF j <= Len(a) THEN a[j] ELSE s[j - Len(a)]
  BY <1>2, ConcatProperties
<1>5. q \in Seq(Byte) /\ Len(q) = Len(a) + n /\ \A j \in 1..Len(a) + n : q[j] = p[j]
  BY <1>1, <1>3
<1> HIDE DEF u, q
<1>6. ASSUME NEW j \in 1..Len(a) + n PROVE u[j] = q[j]
  <2>1. j \in 1..Len(a) + Len(b) /\ (j > Len(a) => j - Len(a) \in 1..n)
    BY <1>1
  <2>2. CASE j <= Len(a)
    BY <1>3, <1>4, <1>5, <2>1, <2>2
  <2>3. CASE j > Len(a)
    <3>1. j - Len(a) \in 1..n /\ ~(j <= Len(a))
      BY <1>1, <2>1, <2>3
    <3>2. u[j] = s[j - Len(a)] /\ q[j] = p[j] /\ p[j] = b[j - Len(a)]
      BY <1>3, <1>4, <1>5, <2>1, <3>1
    <3> QED
      BY <1>2, <3>1, <3>2
  <2> QED
    BY <1>1, <2>2, <2>3
<1>7. u = q
  BY <1>4, <1>5, <1>6, SeqEqual
<1>8. n = Len(b) => s = b
  BY <1>2, SeqEqual
<1> QED
  BY <1>1, <1>2, <1>3, <1>7, <1>8 DEF s, p, u, q

LEMMA StoryEnds ==
    ASSUME NEW r, NEW w, NEW x, NEW g, Story(r, w, x, g), w.end = "open",
           NEW end \in {"closed", "broken"}, NEW n \in 0..Len(w.bytes),
           end = "closed" /\ x.part = "complete" => n = Len(w.bytes)
    PROVE  Story(r, [bytes |-> SubSeq(w.bytes, 1, n), end |-> end], x, g)
<1>1. PICK p, v, m : p = r.buffer \o w.bytes /\ v = [bytes |-> SubSeq(w.bytes, 1, n), end |-> end]
                     /\ m = Len(r.buffer) + n
  OBVIOUS
<1>2. r.buffer \in Seq(Byte) /\ w.bytes \in Seq(Byte)
  BY ReaderFields, WireFields DEF Story
<1>3. /\ r.buffer \o v.bytes = SubSeq(p, 1, m) /\ v.bytes \in Seq(Byte) /\ m \in 0..Len(p)
      /\ n = Len(w.bytes) => v.bytes = w.bytes
  BY <1>1, <1>2, FirstsOf
<1>4. v \in WireType /\ v.end = end
  BY <1>1, <1>3 DEF WireType
<1>5. Carries(p, x, g, "open")
  BY <1>1 DEF Story
<1>6. Framed(SubSeq(p, 1, m))
  BY <1>3, <1>5, Standing, FramedPrefix
<1>7. PICK e : Flow(p, x, g, e) /\ Tells(x, e)
  BY <1>5, Standing
<1>8. PICK f : Flow(SubSeq(p, 1, m), x, g, f)
  BY <1>3, <1>7, FlowCut
<1>9. Carries(SubSeq(p, 1, m), x, g, end)
  <2>1. CASE NothingLost(x, end)
    <3>1. n = Len(w.bytes)
      BY <2>1 DEF NothingLost
    <3>2. SubSeq(p, 1, m) = p
      BY <1>1, <1>3, <3>1
    <3>3. Flow(SubSeq(p, 1, m), x, g, e)
      BY <1>7, <3>2
    <3>4. end # "open"
      OBVIOUS
    <3> QED
      BY <1>6, <1>7, <3>3, <3>4 DEF Carries
  <2>2. CASE ~NothingLost(x, end)
    <3>1. end # "open"
      OBVIOUS
    <3> QED
      BY <1>6, <1>8, <2>2, <3>1 DEF Carries
  <2> QED
    BY <2>1, <2>2
<1>10. ~r.done
  BY DEF Story
<1>11. Story(r, v, x, g)
  BY <1>3, <1>4, <1>9, <1>10 DEF Story
<1> QED
  BY <1>1, <1>11

LEMMA StoryReads ==
    ASSUME NEW r, NEW w, NEW x, NEW g, Story(r, w, x, g), NEW n \in Nat, n <= Len(w.bytes), ~r.done
    PROVE  Story([r EXCEPT !.buffer = @ \o SubSeq(w.bytes, 1, n), !.pull = FALSE],
                 [w EXCEPT !.bytes = SubSeq(@, n + 1, Len(@))], x, g)
<1>1. PICK b, a, c : b = w.bytes /\ a = SubSeq(b, 1, n) /\ c = SubSeq(b, n + 1, Len(b))
  OBVIOUS
<1>2. r.buffer \in Seq(Byte) /\ b \in Seq(Byte) /\ Len(b) \in Nat
  BY <1>1, ReaderFields, WireFields, InSeq DEF Story
<1>3. a \in Seq(Byte) /\ c \in Seq(Byte)
  BY <1>1, <1>2
<1>4. a \o c = b
  <2>1. 1 \in 1..Len(b) + 1 /\ n \in (1 - 1)..Len(b) /\ Len(b) \in n..Len(b)
    BY <1>1, <1>2
  <2>2. SubSeq(b, 1, n) \o SubSeq(b, n + 1, Len(b)) = SubSeq(b, 1, Len(b))
    BY <1>2, <2>1, ConcatAdjacentSubSeq
  <2>3. SubSeq(b, 1, Len(b)) = b
    BY <1>2, SubSeqFull
  <2> QED
    BY <1>1, <2>2, <2>3
<1>5. PICK u : u = r.buffer \o a
  OBVIOUS
<1>6. u \in Seq(Byte) /\ u \o c = r.buffer \o b
  <2>1. (r.buffer \o a) \o c = r.buffer \o (a \o c) /\ r.buffer \o a \in Seq(Byte)
    BY <1>2, <1>3, Joined
  <2> QED
    BY <1>4, <1>5, <2>1
<1>7. PICK s, t, v : /\ s = [r EXCEPT !.buffer = u] /\ t = [s EXCEPT !.pull = FALSE]
                     /\ v = [w EXCEPT !.bytes = c]
  OBVIOUS
<1>8. s \in ReaderType /\ s.buffer = u /\ s.done = r.done
  BY <1>6, <1>7, ReaderFields DEF Story
<1>9. t \in ReaderType /\ t.buffer = u /\ t.done = r.done /\ t.pull = FALSE
  BY <1>7, <1>8, ReaderFields
<1>10. v \in WireType /\ v.bytes = c /\ v.end = w.end
  BY <1>3, <1>7, WireFields DEF Story
<1>11. Story(t, v, x, g)
  BY <1>1, <1>6, <1>9, <1>10 DEF Story
<1>12. /\ [r EXCEPT !.buffer = @ \o SubSeq(w.bytes, 1, n), !.pull = FALSE] = t
       /\ [w EXCEPT !.bytes = SubSeq(@, n + 1, Len(@))] = v
  BY <1>1, <1>5, <1>7
<1> QED
  BY <1>11, <1>12

LEMMA StoryReadsEnd ==
    ASSUME NEW r, NEW w, NEW x, NEW g, Story(r, w, x, g), w.bytes = <<>>, w.end = "closed"
    PROVE  Story([r EXCEPT !.done = TRUE, !.pull = FALSE], w, x, g)
<1>1. PICK s, t : s = [r EXCEPT !.done = TRUE] /\ t = [s EXCEPT !.pull = FALSE]
  OBVIOUS
<1>2. s \in ReaderType /\ s.buffer = r.buffer
  BY <1>1, ReaderFields DEF Story
<1>3. t \in ReaderType /\ t.buffer = r.buffer /\ t.pull = FALSE
  BY <1>1, <1>2, ReaderFields
<1>4. Story(t, w, x, g)
  BY <1>3 DEF Story
<1>5. [r EXCEPT !.done = TRUE, !.pull = FALSE] = t
  BY <1>1
<1> QED
  BY <1>4, <1>5

--------------------------------------------------------------------------------
LEMMA LeastIs ==
    ASSUME NEW D, D \subseteq Nat, D # {}
    PROVE  Min(D) \in D /\ \A j \in D : Min(D) <= j
<1>1. \E n \in D : \A j \in D : n <= j
  BY LeastNatural
<1> QED
  BY <1>1 DEF Min

LEMMA GreatestIs ==
    ASSUME NEW N \in Nat, NEW D, D \subseteq 1..N, D # {}
    PROVE  Max(D) \in D /\ \A j \in D : j <= Max(D)
<1> DEFINE T == {N - j : j \in D}
<1>1. T \subseteq Nat /\ T # {}
  <2>1. \A j \in D : j \in 1..N /\ N - j \in Nat
    OBVIOUS
  <2> QED
    BY <2>1
<1>2. PICK m \in T : \A t \in T : m <= t
  BY <1>1, LeastNatural
<1>3. PICK n \in D : m = N - n
  OBVIOUS
<1>4. \A j \in D : n >= j
  <2> TAKE j \in D
  <2>1. N - n <= N - j
    BY <1>2, <1>3
  <2> QED
    BY <2>1
<1>5. \E k \in D : \A j \in D : k >= j
  BY <1>4
<1>6. Max(D) \in D /\ \A j \in D : Max(D) >= j
  BY <1>5 DEF Max
<1> QED
  BY <1>6

LEMMA RestOf ==
    ASSUME NEW b \in Seq(Byte), NEW c \in Seq(Byte), NEW m \in 1..Len(b)
    PROVE  /\ SubSeq(b, m + 1, Len(b)) \in Seq(Byte)
           /\ SubSeq(b, m + 1, Len(b)) \o c = SubSeq(b \o c, m + 1, Len(b \o c))
           /\ m \in 1..Len(b \o c) /\ Len(b) <= Len(b \o c)
           /\ \A j \in 1..Len(b) : (b \o c)[j] = b[j]
<1> DEFINE s == SubSeq(b, m + 1, Len(b))
           p == b \o c
           q == SubSeq(p, m + 1, Len(p))
           u == s \o c
           K == Len(b) - m
           C == Len(c)
<1>1. Len(b) \in Nat /\ C \in Nat /\ m \in Nat /\ K \in Nat /\ Len(b) = K + m
  BY InSeq
<1>2. s \in Seq(Byte) /\ Len(s) = K /\ \A j \in 1..K : s[j] = b[j + m]
  <2>1. m \in Nat /\ m <= Len(b) /\ Len(b) \in Nat
    BY <1>1
  <2>2. s \in Seq(Byte) /\ Len(s) = Len(b) - m
    BY <2>1
  <2>3. \A j \in 1..Len(b) - m : s[j] = b[j + m]
    BY <2>1
  <2> QED
    BY <2>2, <2>3
<1>3. /\ p \in Seq(Byte) /\ Len(p) = Len(b) + C
      /\ \A j \in 1..Len(b) + C : p[j] = IF j <= Len(b) THEN b[j] ELSE c[j - Len(b)]
  BY ConcatProperties
<1> HIDE DEF s, p
<1>4. /\ u \in Seq(Byte) /\ Len(u) = K + C
      /\ \A j \in 1..K + C : u[j] = IF j <= K THEN s[j] ELSE c[j - K]
  <2>1. u \in Seq(Byte) /\ Len(u) = Len(s) + Len(c)
        /\ \A j \in 1..Len(s) + Len(c) : u[j] = IF j <= Len(s) THEN s[j] ELSE c[j - Len(s)]
    BY <1>2, ConcatProperties
  <2> HIDE DEF u, K
  <2> QED
    BY <1>2, <2>1
<1>5. q \in Seq(Byte) /\ Len(q) = K + C /\ \A j \in 1..K + C : q[j] = p[j + m]
  BY <1>1, <1>3
<1> HIDE DEF u, q, K, C
<1>6. ASSUME NEW j \in 1..K + C PROVE u[j] = q[j]
  <2>1. j + m \in 1..Len(b) + C
    BY <1>1
  <2>2. CASE j <= K
    <3>1. j \in 1..K /\ j + m <= Len(b)
      BY <1>1, <2>2
    <3>2. u[j] = s[j] /\ q[j] = p[j + m] /\ p[j + m] = b[j + m]
      BY <1>3, <1>4, <1>5, <2>1, <2>2, <3>1
    <3> QED
      BY <1>2, <3>1, <3>2
  <2>3. CASE j > K
    <3>1. ~(j <= K) /\ ~(j + m <= Len(b)) /\ (j + m) - Len(b) = j - K
      BY <1>1, <2>3
    <3>2. u[j] = c[j - K] /\ q[j] = p[j + m] /\ p[j + m] = c[(j + m) - Len(b)]
      BY <1>3, <1>4, <1>5, <2>1, <3>1
    <3> QED
      BY <3>1, <3>2
  <2> QED
    BY <1>1, <2>2, <2>3
<1>7. u = q
  BY <1>4, <1>5, <1>6, SeqEqual
<1>8. m \in 1..Len(p) /\ Len(b) <= Len(p) /\ \A j \in 1..Len(b) : p[j] = b[j]
  <2>1. \A j \in 1..Len(b) : j \in 1..Len(b) + C /\ j <= Len(b)
    BY <1>1
  <2> QED
    BY <1>1, <1>3, <2>1
<1> QED
  BY <1>2, <1>7, <1>8 DEF s, p, u, q

LEMMA CarriesRest ==
    ASSUME NEW p, NEW x, NEW g, NEW end, Carries(p, x, g, end), NEW m \in 1..Len(p), p[m] = Mark
    PROVE  \E f : /\ Flow(SubSeq(p, 1, m), x, g, f)
                  /\ Carries(SubSeq(p, m + 1, Len(p)), x, f, end)
<1>1. PICK e : Flow(p, x, g, e) /\ (NothingLost(x, end) => Tells(x, e))
  BY Zenon DEF Carries
<1>2. Framed(p) /\ p \in Seq(Byte) /\ Len(p) \in Nat
  BY InSeq DEF Carries, Framed
<1>3. PICK q : q = SubSeq(p, m + 1, Len(p))
  OBVIOUS
<1>4. Framed(q)
  BY <1>2, <1>3, FramedRest
<1>5. m \in 0..Len(p)
  BY <1>2
<1>6. PICK f : Flow(SubSeq(p, 1, m), x, g, f) /\ Flow(q, x, f, e)
  BY <1>1, <1>3, <1>5, FlowCut
<1>7. q # <<>> => p # <<>> /\ q[Len(q)] = p[Len(p)]
  <2>1. Len(q) = Len(p) - m /\ \A j \in 1..(Len(p) - m) : q[j] = p[j + m]
    BY <1>2, <1>3
  <2>2. q \in Seq(Byte)
    BY <1>4 DEF Framed
  <2>3. q # <<>> => Len(q) \in 1..(Len(p) - m) /\ Len(q) + m = Len(p)
    BY <1>2, <2>1, <2>2
  <2> QED
    BY <1>2, <2>1, <2>3
<1>8. end = "open" /\ q # <<>> => q[Len(q)].items # Comment
  BY <1>7 DEF Carries
<1>9. Carries(q, x, f, end)
  BY <1>1, <1>4, <1>6, <1>8 DEF Carries
<1> QED
  BY <1>3, <1>6, <1>9

(* Without a mark between them, a comment's halves are all there is behind its first. *)
LEMMA CommentLine ==
    ASSUME NEW p, Framed(p), NEW n \in 1..Len(p), \A j \in 1..n : p[j] # Mark,
           p[1].items = Comment
    PROVE  \A j \in 1..n : p[j].items = Comment
<1>1. p \in Seq(Byte) /\ Len(p) \in Nat
  BY InSeq DEF Framed
<1>2. CASE n = 1
  BY <1>2
<1>3. CASE n > 1
  <2>1. 1 \in 1..n /\ 2 \in 1..n /\ 2 \in 1..Len(p) /\ 2 > 1 /\ 2 - 1 = 1
    BY <1>1, <1>3
  <2>2. After(p[1], p[2])
    BY <2>1 DEF Framed
  <2>3. p[2] = CommentHalf(2)
    BY <2>1, <2>2 DEF After
  <2>4. p[2].items = Comment /\ p[2].half # 1
    BY <2>3 DEF CommentHalf
  <2>5. ~(n > 2)
    <3>1. SUFFICES ASSUME n > 2 PROVE FALSE
      OBVIOUS
    <3>2. 3 \in 1..n /\ 3 \in 1..Len(p) /\ 3 > 1 /\ 3 - 1 = 2
      BY <1>1, <3>1
    <3>3. After(p[2], p[3])
      BY <3>2 DEF Framed
    <3> QED
      BY <2>4, <3>2, <3>3 DEF After
  <2>6. \A j \in 1..n : j = 1 \/ j = 2
    BY <2>5
  <2> QED
    BY <2>4, <2>6
<1> QED
  BY <1>2, <1>3

(* A line is cut off at its mark: a frame of it is gathered, and what is no data is nothing. *)
FirstMark(b, m) ==
    m \in 1..Len(b) /\ b[m] = Mark /\ \A j \in 1..(m - 1) : b[j] # Mark

LEMMA FirstMarkIs ==
    ASSUME NEW b \in Seq(Byte), NEW D, D = {n \in DOMAIN b : b[n] = Mark}, D # {}
    PROVE  FirstMark(b, Min(D))
<1>1. Len(b) \in Nat /\ DOMAIN b = 1..Len(b)
  BY LenProperties
<1>2. D \subseteq Nat
  BY <1>1
<1>3. Min(D) \in D /\ \A j \in D : Min(D) <= j
  BY <1>2, LeastIs
<1>4. PICK m : m = Min(D)
  OBVIOUS
<1>5. m \in 1..Len(b) /\ b[m] = Mark
  BY <1>1, <1>3, <1>4
<1>6. ASSUME NEW j \in 1..(m - 1), b[j] = Mark PROVE FALSE
  <2>1. j \in 1..Len(b) /\ ~(m <= j)
    BY <1>1, <1>5
  <2>2. j \in D
    BY <1>1, <1>6, <2>1
  <2> QED
    BY <1>3, <1>4, <2>1, <2>2
<1> QED
  BY <1>4, <1>5, <1>6 DEF FirstMark

LEMMA FrameBytes ==
    ASSUME NEW b, IsFrame(b)
    PROVE  /\ Len(b) = 2 /\ b[1].half = 1 /\ b[2].half = 2 /\ b[2].items = b[1].items
<1>1. PICK i : i = b[1].items
  OBVIOUS
<1>2. b = <<[half |-> 1, items |-> i], [half |-> 2, items |-> i]>>
  BY <1>1 DEF IsFrame, Halves
<1>3. b[1] = [half |-> 1, items |-> i] /\ b[2] = [half |-> 2, items |-> i] /\ Len(b) = 2
  BY <1>2
<1> QED
  BY <1>3

LEMMA DataIs ==
    ASSUME NEW b
    PROVE  HasData(b) <=> b # <<>> /\ b[1].items # Comment
  BY DEF HasData, Comment

LEMMA PullIs ==
    ASSUME NEW r \in ReaderType, NEW b \in BOOLEAN, NEW t, t = [r EXCEPT !.pull = b]
    PROVE  t \in ReaderType /\ t.buffer = r.buffer /\ t.done = r.done /\ t.pull = b
  BY DEF ReaderType

LEMMA StoryCuts ==
    ASSUME NEW r, NEW w, NEW x, NEW g, Story(r, w, x, g), NEW m, FirstMark(r.buffer, m),
           NEW bytes, bytes = SubSeq(r.buffer, 1, m - 1),
           NEW t, t = [r EXCEPT !.buffer = SubSeq(@, m + 1, Len(@)), !.pull = bytes = <<>>]
    PROVE  /\ ~HasData(bytes) => Story(t, w, x, g)
           /\ HasData(bytes) /\ IsFrame(bytes) =>
                /\ Story(t, w, x, Gathers(g, bytes[1].items))
                /\ Len(g.texts) <= Len(Gathers(g, bytes[1].items).texts)
<1>1. PICK b, p, s, line : /\ b = r.buffer /\ p = b \o w.bytes /\ s = SubSeq(b, m + 1, Len(b))
                           /\ line = SubSeq(p, 1, m)
  OBVIOUS
<1>2. b \in Seq(Byte) /\ w.bytes \in Seq(Byte) /\ Len(b) \in Nat /\ w \in WireType /\ r \in ReaderType
  BY <1>1, ReaderFields, WireFields, InSeq DEF Story
<1>3. m \in 1..Len(b) /\ b[m] = Mark /\ \A j \in 1..(m - 1) : b[j] # Mark
  BY <1>1 DEF FirstMark
<1>4. /\ s \in Seq(Byte) /\ s \o w.bytes = SubSeq(p, m + 1, Len(p))
      /\ m \in 1..Len(p) /\ Len(b) <= Len(p) /\ \A j \in 1..Len(b) : p[j] = b[j]
  BY <1>1, <1>2, <1>3, RestOf
<1>5. Carries(p, x, g, w.end)
  BY <1>1 DEF Story
<1>6. p[m] = Mark /\ Framed(p) /\ p \in Seq(Byte) /\ Len(p) \in Nat
  BY <1>3, <1>4, <1>5, InSeq DEF Carries, Framed
<1>7. PICK f : Flow(line, x, g, f) /\ Carries(s \o w.bytes, x, f, w.end)
  BY <1>1, <1>4, <1>5, <1>6, CarriesRest
<1>8. Len(line) = m /\ \A j \in 1..m : line[j] = b[j]
  <2>1. m \in Nat /\ m <= Len(p)
    BY <1>4, <1>6
  <2>2. line = SubSeq(p, 1, m) /\ p \in Seq(Byte) /\ Len(p) \in Nat
    BY <1>1, <1>6
  <2>4. Len(SubSeq(p, 1, m)) = m
    BY <2>1, <2>2
  <2>5. \A j \in 1..m : SubSeq(p, 1, m)[j] = p[j]
    BY <2>1, <2>2
  <2>3. \A j \in 1..m : j \in 1..Len(b)
    BY <1>2, <1>3
  <2> QED
    BY <1>4, <2>2, <2>3, <2>4, <2>5
<1>9. Len(bytes) = m - 1 /\ \A j \in 1..(m - 1) : bytes[j] = b[j]
  <2>1. m - 1 \in Nat /\ m - 1 <= Len(b)
    BY <1>2, <1>3
  <2> QED
    BY <1>1, <1>2, <2>1
<1>10. bytes = <<>> => m = 1
  BY <1>3, <1>9
<1>11. Story(t, w, x, f)
  <2>1. PICK u : u = [r EXCEPT !.buffer = s]
    OBVIOUS
  <2>2. u \in ReaderType /\ u.buffer = s /\ u.done = r.done
    BY <1>2, <1>4, <2>1, ReaderFields
  <2>3. t = [u EXCEPT !.pull = (bytes = <<>>)]
    BY <1>1, <2>1
  <2>4. CASE bytes = <<>>
    <3>1. t = [u EXCEPT !.pull = TRUE]
      BY <2>3, <2>4
    <3>2. t \in ReaderType /\ t.buffer = s /\ t.done = r.done
      BY <2>2, <3>1, PullIs
    <3>3. p[1] = Mark /\ 1 \in 1..Len(p)
      BY <1>4, <1>6, <1>10, <2>4
    <3>4. provider = "ollama"
      BY <1>6, <3>3 DEF Framed
    <3> QED
      BY <1>7, <3>2, <3>4 DEF Story
  <2>5. CASE bytes # <<>>
    <3>1. t = [u EXCEPT !.pull = FALSE]
      BY <2>3, <2>5
    <3>2. t \in ReaderType /\ t.buffer = s /\ t.done = r.done /\ t.pull = FALSE
      BY <2>2, <3>1, PullIs
    <3> QED
      BY <1>7, <3>2 DEF Story
  <2> QED
    BY <2>4, <2>5
<1>12. ASSUME ~HasData(bytes) PROVE Story(t, w, x, g)
  <2>1. \A j \in 1..Len(line) : line[j].half = 2 => line[j].items = Comment
    <3>1. Mark.half = 0
      BY DEF Mark
    <3>2. CASE m = 1
      BY <1>3, <1>8, <3>1, <3>2
    <3>3. CASE m # 1
      <4>1. bytes # <<>>
        <5>1. Len(<<>>) = 0 /\ m - 1 # 0
          BY <1>3, <3>3
        <5> QED
          BY <1>9, <5>1
      <4>2. 1 \in 1..(m - 1) /\ m - 1 \in 1..Len(p)
        BY <1>3, <1>4, <1>6, <3>3
      <4>3. p[1].items = Comment
        <5>1. bytes[1].items = Comment
          BY <1>12, <4>1, DataIs
        <5>2. bytes[1] = b[1]
          BY <1>9, <4>2
        <5>3. 1 \in 1..Len(b)
          BY <1>2, <1>3
        <5>4. p[1] = b[1]
          BY <1>4, <5>3
        <5> QED
          BY <5>1, <5>2, <5>4
      <4>4. \A j \in 1..(m - 1) : p[j] = b[j] /\ p[j] # Mark
        BY <1>2, <1>3, <1>4
      <4>5. \A j \in 1..(m - 1) : p[j].items = Comment
        BY <1>6, <4>2, <4>3, <4>4, CommentLine
      <4>6. \A j \in 1..m : j = m \/ j \in 1..(m - 1)
        BY <1>3
      <4> QED
        BY <1>3, <1>8, <3>1, <4>4, <4>5, <4>6
    <3> QED
      BY <3>2, <3>3
  <2>2. f = g
    BY <1>7, <2>1, FlowStill
  <2> QED
    BY <1>11, <2>2
<1>13. ASSUME IsFrame(bytes)
       PROVE  /\ Story(t, w, x, Gathers(g, bytes[1].items))
              /\ Len(g.texts) <= Len(Gathers(g, bytes[1].items).texts)
  <2>1. Len(bytes) = 2 /\ bytes[1].half = 1 /\ bytes[2].half = 2 /\ bytes[2].items = bytes[1].items
    BY <1>13, FrameBytes
  <2>2. m = 3
    BY <1>3, <1>9, <2>1
  <2>3. line[1] = bytes[1] /\ line[2] = bytes[2] /\ line[3].half = 0
    <3>1. 1 \in 1..m /\ 2 \in 1..m /\ 3 \in 1..m /\ 1 \in 1..(m - 1) /\ 2 \in 1..(m - 1)
      BY <2>2
    <3> QED
      BY <1>3, <1>8, <1>9, <2>2, <3>1 DEF Mark
  <2>4. Len(line) \in 2..3 /\ line[1].half = 1 /\ line[2].half = 2 /\ line[2].items = bytes[1].items
    BY <1>8, <2>1, <2>2, <2>3
  <2>5. f = Gathers(g, bytes[1].items) /\ Len(g.texts) <= Len(f.texts)
    BY <1>7, <2>3, <2>4, FlowFrame
  <2> QED
    BY <1>11, <2>5
<1> QED
  BY <1>12, <1>13

(* What is left at the end: the marks around it are passed over. *)
LEMMA TrimmedIs ==
    ASSUME NEW b \in Seq(Byte)
    PROVE  \/ Trimmed(b) = <<>> /\ \A j \in 1..Len(b) : b[j] = Mark
           \/ \E a, z \in 1..Len(b) :
                 /\ a <= z /\ Trimmed(b) = SubSeq(b, a, z) /\ b[a] # Mark
                 /\ \A j \in 1..Len(b) : j < a \/ z < j => b[j] = Mark
<1>1. Len(b) \in Nat /\ DOMAIN b = 1..Len(b)
  BY LenProperties
<1>2. PICK D : D = {n \in DOMAIN b : b[n] # Mark}
  OBVIOUS
<1>3. CASE D = {}
  <2>1. Trimmed(b) = <<>>
    BY <1>2, <1>3 DEF Trimmed
  <2> QED
    BY <1>1, <1>2, <1>3, <2>1
<1>4. CASE D # {}
  <2>1. D \subseteq Nat /\ D \subseteq 1..Len(b)
    BY <1>1, <1>2
  <2>2. PICK a, z : a = Min(D) /\ z = Max(D)
    OBVIOUS
  <2>3. a \in D /\ \A j \in D : a <= j
    BY <1>4, <2>1, <2>2, LeastIs
  <2>4. z \in D /\ \A j \in D : j <= z
    BY <1>1, <1>4, <2>1, <2>2, GreatestIs
  <2>5. Trimmed(b) = SubSeq(b, a, z)
    BY <1>2, <1>4, <2>2 DEF Trimmed
  <2>6. a \in 1..Len(b) /\ z \in 1..Len(b) /\ a <= z /\ b[a] # Mark
    BY <1>1, <1>2, <2>3, <2>4
  <2>7. ASSUME NEW j \in 1..Len(b), j < a \/ z < j PROVE b[j] = Mark
    <3>1. j \notin D
      BY <2>3, <2>4, <2>6, <2>7
    <3> QED
      BY <1>1, <1>2, <3>1
  <2> QED
    BY <2>5, <2>6, <2>7
<1> QED
  BY <1>3, <1>4

LEMMA SliceIs ==
    ASSUME NEW S, NEW b \in Seq(S), NEW a \in Nat, NEW z \in Nat, 1 <= a, a <= z + 1, z <= Len(b)
    PROVE  /\ Len(SubSeq(b, a, z)) = (z - a) + 1
           /\ \A j \in 1..((z - a) + 1) : SubSeq(b, a, z)[j] = b[(j + a) - 1]
<1>1. Len(b) \in Nat
  BY InSeq
<1> QED
  BY <1>1

(* A frame that stands alone between marks. *)
LEMMA FlowAlone ==
    ASSUME NEW b, NEW x, NEW g, NEW e, Flow(b, x, g, e), NEW a \in 1..Len(b), a + 1 <= Len(b),
           b[a].half = 1, b[a + 1].half = 2,
           \A j \in 1..Len(b) : j < a \/ a + 1 < j => b[j] = Mark
    PROVE  e = Gathers(g, b[a + 1].items) /\ Len(g.texts) <= Len(e.texts)
<1>1. b \in Seq(Byte) /\ Len(b) \in Nat
  BY InSeq DEF Flow
<1>2. Mark.half = 0
  BY DEF Mark
<1>3. PICK N, u, v : N = Len(b) /\ u = SubSeq(b, 1, a - 1) /\ v = SubSeq(b, (a - 1) + 1, N)
  OBVIOUS
<1>4. a - 1 \in 0..Len(b)
  BY <1>1
<1>5. PICK f : Flow(u, x, g, f) /\ Flow(v, x, f, e)
  BY <1>3, <1>4, FlowCut
<1>6. f = g
  <2>1. Len(u) = a - 1 /\ \A j \in 1..(a - 1) : u[j] = b[j]
    BY <1>1, <1>3
  <2>2. \A j \in 1..Len(u) : u[j] = Mark
    BY <1>1, <2>1
  <2> QED
    BY <1>2, <1>5, <2>2, FlowStill
<1>7. Len(v) = (N - a) + 1 /\ \A j \in 1..((N - a) + 1) : v[j] = b[(j + a) - 1]
  <2>1. (a - 1) + 1 = a /\ 1 <= a /\ a <= N + 1 /\ N \in Nat /\ a \in Nat
    BY <1>1, <1>3
  <2> QED
    BY <1>1, <1>3, <2>1, SliceIs
<1>8. v \in Seq(Byte) /\ Len(v) \in Nat /\ Len(v) >= 2 /\ 2 \in 0..Len(v)
  <2>1. v \in Seq(Byte)
    BY <1>5 DEF Flow
  <2> QED
    BY <1>1, <1>3, <1>7, <2>1
<1>9. v[1].half = 1 /\ v[2] = b[a + 1]
  <2>1. 1 \in 1..((N - a) + 1) /\ 2 \in 1..((N - a) + 1) /\ (1 + a) - 1 = a /\ (2 + a) - 1 = a + 1
    BY <1>1, <1>3
  <2> QED
    BY <1>7, <2>1
<1>10. PICK s, t : s = SubSeq(v, 1, 2) /\ t = SubSeq(v, 3, Len(v))
  OBVIOUS
<1>11. PICK h : Flow(s, x, g, h) /\ Flow(t, x, h, e)
  <2>1. 2 + 1 = 3
    OBVIOUS
  <2> QED
    BY <1>5, <1>6, <1>8, <1>10, <2>1, FlowCut
<1>12. h = Gathers(g, b[a + 1].items) /\ Len(g.texts) <= Len(h.texts)
  <2>1. Len(s) = 2 /\ s[1] = v[1] /\ s[2] = v[2]
    BY <1>8, <1>10
  <2>2. Len(s) \in 2..3 /\ Len(s) # 3
    BY <2>1
  <2> QED
    BY <1>9, <1>11, <2>1, <2>2, FlowFrame
<1>13. e = h
  <2>1. Len(t) = (Len(v) - 3) + 1 /\ \A j \in 1..((Len(v) - 3) + 1) : t[j] = v[(j + 3) - 1]
    BY <1>8, <1>10, SliceIs
  <2>2. ASSUME NEW j \in 1..Len(t) PROVE t[j] = Mark
    <3>1. /\ j \in 1..((Len(v) - 3) + 1) /\ (j + 3) - 1 \in 1..((N - a) + 1)
          /\ ((j + 3) - 1) + a - 1 \in 1..N /\ a + 1 < ((j + 3) - 1) + a - 1
      BY <1>1, <1>3, <1>7, <2>1
    <3>2. t[j] = v[(j + 3) - 1]
      BY <2>1, <3>1
    <3>3. PICK i, k : i = (j + 3) - 1 /\ k = (i + a) - 1
      OBVIOUS
    <3>4. i \in 1..((N - a) + 1) /\ k \in 1..Len(b) /\ a + 1 < k
      BY <1>1, <1>3, <3>1, <3>3
    <3>5. t[j] = v[i] /\ v[i] = b[k]
      BY <1>7, <3>2, <3>3, <3>4
    <3> QED
      BY <3>4, <3>5
  <2> QED
    BY <1>2, <1>11, <2>2, FlowStill
<1> QED
  BY <1>12, <1>13

LEMMA BufferSet ==
    ASSUME NEW r \in ReaderType, NEW b \in Seq(Byte), NEW t, t = [r EXCEPT !.buffer = b]
    PROVE  t \in ReaderType /\ t.buffer = b /\ t.done = r.done /\ t.pull = r.pull
  BY ReaderFields

LEMMA BufferIs ==
    ASSUME NEW r, NEW w, NEW x, NEW g, Story(r, w, x, g), w.bytes = <<>>
    PROVE  Carries(r.buffer, x, g, w.end)
<1>1. r.buffer \in Seq(Byte)
  BY ReaderFields DEF Story
<1>2. r.buffer \o <<>> = r.buffer
  BY <1>1, ConcatEmptySeq
<1> QED
  BY <1>2 DEF Story

LEMMA StoryFlushes ==
    ASSUME NEW r, NEW w, NEW x, NEW g, Story(r, w, x, g), w.bytes = <<>>,
           NEW bytes, bytes = Trimmed(r.buffer),
           r.pull \/ \A j \in 1..Len(r.buffer) : r.buffer[j] # Mark
    PROVE  /\ ~HasData(bytes) => (NothingLost(x, w.end) => Tells(x, g))
           /\ HasData(bytes) /\ IsFrame(bytes) =>
                /\ Story([r EXCEPT !.buffer = <<>>], w, x, Gathers(g, bytes[1].items))
                /\ Len(g.texts) <= Len(Gathers(g, bytes[1].items).texts)
<1>1. PICK b : b = r.buffer
  OBVIOUS
<1>2. Carries(b, x, g, w.end)
  BY <1>1, BufferIs
<1>3. PICK e : Flow(b, x, g, e) /\ (NothingLost(x, w.end) => Tells(x, e))
  BY <1>2, Zenon DEF Carries
<1>4. Framed(b) /\ b \in Seq(Byte) /\ Len(b) \in Nat
  BY <1>2, InSeq DEF Carries, Framed
<1>5. Mark.half = 0
  BY DEF Mark
<1>6. ASSUME ~HasData(bytes) PROVE e = g
  <2>1. CASE \A j \in 1..Len(b) : b[j] = Mark
    BY <1>3, <1>5, <2>1, FlowStill
  <2>2. ASSUME NEW a \in 1..Len(b), NEW z \in 1..Len(b), a <= z, bytes = SubSeq(b, a, z), b[a] # Mark,
               \A j \in 1..Len(b) : j < a \/ z < j => b[j] = Mark
        PROVE  e = g
    <3>1. Len(bytes) = (z - a) + 1 /\ bytes[1] = b[a]
      <4>1. 1 <= a /\ a <= z + 1 /\ z <= Len(b) /\ a \in Nat /\ z \in Nat
        BY <1>4, <2>2
      <4>2. /\ Len(bytes) = (z - a) + 1
            /\ \A j \in 1..((z - a) + 1) : bytes[j] = b[(j + a) - 1]
        BY <1>4, <2>2, <4>1, SliceIs
      <4>3. 1 \in 1..((z - a) + 1) /\ (1 + a) - 1 = a
        BY <2>2, <4>1
      <4> QED
        BY <4>2, <4>3
    <3>2. bytes # <<>>
      <4>1. Len(<<>>) = 0 /\ (z - a) + 1 # 0
        BY <2>2
      <4> QED
        BY <3>1, <4>1
    <3>3. b[a].items = Comment
      BY <1>6, <3>1, <3>2, DataIs
    <3>4. provider # "ollama"
      BY <1>4, <3>3 DEF Framed
    <3>5. \A j \in 1..Len(b) : b[j] # Mark
      BY <1>1, <3>4 DEF Story
    <3>6. a = 1
      <4>1. a # 1 => 1 \in 1..Len(b) /\ 1 < a
        BY <1>4
      <4> QED
        BY <2>2, <3>5, <4>1
    <3>7. Len(b) \in 1..Len(b)
      BY <1>4
    <3>8. \A j \in 1..Len(b) : b[j].items = Comment
      BY <1>4, <3>3, <3>5, <3>6, <3>7, CommentLine
    <3> QED
      BY <1>3, <3>8, FlowStill
  <2>3. \/ bytes = <<>> /\ \A j \in 1..Len(b) : b[j] = Mark
        \/ \E a, z \in 1..Len(b) :
              /\ a <= z /\ bytes = SubSeq(b, a, z) /\ b[a] # Mark
              /\ \A j \in 1..Len(b) : j < a \/ z < j => b[j] = Mark
    BY <1>1, <1>4, TrimmedIs
  <2> QED
    BY <2>1, <2>2, <2>3
<1>7. ASSUME IsFrame(bytes)
      PROVE  e = Gathers(g, bytes[1].items) /\ Len(g.texts) <= Len(e.texts)
  <2>1. Len(bytes) = 2 /\ bytes[1].half = 1 /\ bytes[2].half = 2 /\ bytes[2].items = bytes[1].items
    BY <1>7, FrameBytes
  <2>2. bytes # <<>>
    <3>1. Len(<<>>) = 0
      OBVIOUS
    <3> QED
      BY <2>1, <3>1
  <2>3. PICK a \in 1..Len(b), z \in 1..Len(b) :
              /\ a <= z /\ bytes = SubSeq(b, a, z) /\ b[a] # Mark
              /\ \A j \in 1..Len(b) : j < a \/ z < j => b[j] = Mark
    BY <1>1, <1>4, <2>2, TrimmedIs
  <2>4. /\ Len(bytes) = (z - a) + 1
        /\ \A j \in 1..((z - a) + 1) : bytes[j] = b[(j + a) - 1]
    <3>1. 1 <= a /\ a <= z + 1 /\ z <= Len(b) /\ a \in Nat /\ z \in Nat
      BY <1>4, <2>3
    <3>2. bytes = SubSeq(b, a, z) /\ b \in Seq(Byte)
      BY <1>4, <2>3
    <3>3. /\ Len(SubSeq(b, a, z)) = (z - a) + 1
          /\ \A j \in 1..((z - a) + 1) : SubSeq(b, a, z)[j] = b[(j + a) - 1]
      BY <3>1, <3>2, SliceIs
    <3> QED
      BY <3>2, <3>3
  <2>5. z = a + 1 /\ a + 1 <= Len(b)
    <3>1. Len(bytes) = 2 /\ Len(bytes) = (z - a) + 1
      BY <2>1, <2>4
    <3>2. a \in Int /\ z \in Int /\ z <= Len(b)
      BY <1>4
    <3>3. 2 = (z - a) + 1
      BY <3>1
    <3>4. z = a + 1
      BY <3>2, <3>3
    <3> QED
      BY <3>2, <3>4
  <2>6. bytes[1] = b[a] /\ bytes[2] = b[a + 1]
    <3>1. 1 \in 1..((z - a) + 1) /\ 2 \in 1..((z - a) + 1) /\ (1 + a) - 1 = a /\ (2 + a) - 1 = a + 1
      BY <1>4, <2>5
    <3> QED
      BY <2>4, <3>1
  <2>7. \A j \in 1..Len(b) : j < a \/ a + 1 < j => b[j] = Mark
    BY <2>3, <2>5
  <2> QED
    BY <1>3, <2>1, <2>5, <2>6, <2>7, FlowAlone
<1>8. Story([r EXCEPT !.buffer = <<>>], w, x, e)
  <2>1. PICK t : t = [r EXCEPT !.buffer = <<>>]
    OBVIOUS
  <2>2. <<>> \in Seq(Byte) /\ <<>> \o <<>> = <<>>
    OBVIOUS
  <2>3. t \in ReaderType /\ t.buffer = <<>> /\ t.done = r.done /\ t.pull = r.pull
    <3>1. r \in ReaderType
      BY DEF Story
    <3> QED
      BY <2>1, <2>2, <3>1, BufferSet
  <2>4. e \in Gathered /\ Below(x, e)
    BY <1>3, FlowEnds
  <2>5. Flow(<<>>, x, e, e)
    BY <2>4, FlowNone
  <2>6. Carries(<<>>, x, e, w.end)
    BY <1>3, <2>5, FramedNone DEF Carries
  <2>7. t.buffer \o w.bytes = <<>>
    BY <2>2, <2>3
  <2>8. Story(t, w, x, e)
    BY <2>3, <2>6, <2>7 DEF Story
  <2> QED
    BY <2>1, <2>8
<1> QED
  BY <1>3, <1>6, <1>7, <1>8

--------------------------------------------------------------------------------
(* finalize: the calls, in the order of their growing numbers. *)
IndexOrder(D, s, m) ==
    /\ m \in Nat /\ D = {s[k] : k \in 1..m}
    /\ \A k \in 1..m : s[k] \in Nat
    /\ \A k, l \in 1..m : k < l => s[k] < s[l]

LEMMA RisingSize ==
    ASSUME NEW D, NEW s, NEW m, IndexOrder(D, s, m)
    PROVE  Cardinality(D) = m
<1> DEFINE f == [k \in 1..m |-> s[k]]
<1>1. m \in Nat /\ D = {s[k] : k \in 1..m}
  BY DEF IndexOrder
<1>2. f \in [1..m -> D]
  BY <1>1
<1>3. \A k, l \in 1..m : f[k] = f[l] => k = l
  <2> TAKE k, l \in 1..m
  <2>1. k < l \/ l < k \/ k = l
    BY <1>1
  <2>2. s[k] \in Nat /\ s[l] \in Nat /\ (k < l => s[k] < s[l]) /\ (l < k => s[l] < s[k])
    BY DEF IndexOrder
  <2> QED
    BY <2>1, <2>2
<1>4. \A t \in D : \E k \in 1..m : f[k] = t
  BY <1>1
<1>5. DOMAIN f = 1..m
  OBVIOUS
<1> HIDE DEF f
<1>6. f \in Bijection(1..m, D)
  BY <1>2, <1>3, <1>4, <1>5 DEF Bijection, Injection, Surjection, IsInjective
<1>7. ExistsBijection(1..m, D)
  BY <1>6 DEF ExistsBijection
<1> QED
  BY <1>1, <1>7, FS_CountingElements

LEMMA RankIs ==
    ASSUME NEW D, NEW s, NEW m, IndexOrder(D, s, m), NEW k \in 1..m
    PROVE  Cardinality({j \in D : j <= s[k]}) = k
<1>1. m \in Nat /\ k \in Nat /\ k <= m /\ D = {s[l] : l \in 1..m} /\ s[k] \in Nat
  BY DEF IndexOrder
<1>2. ASSUME NEW l \in 1..m PROVE s[l] \in Nat /\ (s[l] <= s[k] <=> l <= k)
  <2>1. l < k \/ k < l \/ k = l
    BY <1>1
  <2>2. s[l] \in Nat /\ (k < l => s[k] < s[l]) /\ (l < k => s[l] < s[k])
    BY DEF IndexOrder
  <2> QED
    BY <1>1, <2>1, <2>2
<1>3. PICK C : C = {j \in D : j <= s[k]}
  OBVIOUS
<1>4. \A l \in 1..k : l \in 1..m
  BY <1>1
<1>5. C = {s[l] : l \in 1..k}
  <2>1. ASSUME NEW j \in C PROVE \E l \in 1..k : j = s[l]
    <3>1. PICK l \in 1..m : j = s[l] /\ s[l] <= s[k]
      BY <1>1, <1>3, <2>1
    <3>2. l \in 1..k
      BY <1>1, <1>2, <3>1
    <3> QED
      BY <3>1, <3>2
  <2>2. ASSUME NEW l \in 1..k PROVE s[l] \in C
    <3>1. l \in 1..m /\ l <= k
      BY <1>1, <1>4
    <3> QED
      BY <1>1, <1>2, <1>3, <3>1
  <2> QED
    BY <2>1, <2>2
<1>6. IndexOrder(C, s, k)
  <2>1. \A l \in 1..k : s[l] \in Nat
    BY <1>2, <1>4
  <2>2. \A l, n \in 1..k : l < n => s[l] < s[n]
    BY <1>4 DEF IndexOrder
  <2> QED
    BY <1>1, <1>5, <2>1, <2>2 DEF IndexOrder
<1>7. Cardinality(C) = k
  BY <1>6, RisingSize
<1> QED
  BY <1>3, <1>7

LEMMA ByIndexIs ==
    ASSUME NEW c, NEW s, NEW m, IndexOrder(DOMAIN c, s, m)
    PROVE  ByIndex(c) = [k \in 1..m |-> c[s[k]]]
<1> DEFINE Is(n, i) == Cardinality({j \in DOMAIN c : j <= i}) = n
           at(n) == CHOOSE i \in DOMAIN c : Is(n, i)
<1>1. m \in Nat /\ DOMAIN c = {s[l] : l \in 1..m}
  BY DEF IndexOrder
<1>2. Cardinality(DOMAIN c) = m
  BY RisingSize
<1>3. \A k \in 1..m : Is(k, s[k])
  BY RankIs
<1>4. ByIndex(c) = [n \in 1..m |-> c[at(n)]]
  BY <1>2 DEF ByIndex
<1> HIDE DEF Is
<1>5. ASSUME NEW n \in 1..m PROVE at(n) = s[n]
  <2>1. s[n] \in DOMAIN c /\ Is(n, s[n])
    BY <1>1, <1>3
  <2>2. at(n) \in DOMAIN c /\ Is(n, at(n))
    BY <2>1
  <2> HIDE DEF at
  <2>3. PICK k \in 1..m : at(n) = s[k]
    BY <1>1, <2>2
  <2>4. Is(k, s[k]) /\ Is(n, s[k])
    BY <1>3, <2>2, <2>3
  <2>5. k = n
    BY <2>4 DEF Is
  <2> QED
    BY <2>3, <2>5
<1> QED
  BY <1>4, <1>5

LEMMA InputIs ==
    ASSUME NEW k, k \in Nat
    PROVE  /\ Input(<<>>) = <<>> /\ Input(Whole(k)) = Whole(k) /\ Input(<<Part(k, 1)>>) = Null
<1>1. Input(<<>>) = <<>>
  BY DEF Input
<1>2. Input(Whole(k)) = Whole(k)
  <2>1. PICK a : a = Whole(k)
    OBVIOUS
  <2>2. a[1].part = 1 /\ a[2].part = 2 /\ DOMAIN a = 1..2
    BY <2>1 DEF Whole, Part
  <2>3. [n \in DOMAIN a |-> a[n].part] = <<1, 2>>
    <3>1. \A n \in 1..2 : n = 1 \/ n = 2
      OBVIOUS
    <3>2. <<1, 2>> = [n \in 1..2 |-> a[n].part]
      BY <2>2, <3>1
    <3> QED
      BY <2>2, <3>2
  <2>4. Input(a) = a
    BY <2>3 DEF Input
  <2> QED
    BY <2>1, <2>4
<1>3. Input(<<Part(k, 1)>>) = Null
  <2>1. PICK a : a = <<Part(k, 1)>>
    OBVIOUS
  <2>2. DOMAIN a = 1..1 /\ a # <<>>
    BY <2>1
  <2>3. DOMAIN [n \in DOMAIN a |-> a[n].part] = 1..1 /\ DOMAIN <<1, 2>> = 1..2 /\ 2 \in 1..2 /\ 2 \notin 1..1
    BY <2>2
  <2>4. [n \in DOMAIN a |-> a[n].part] # <<1, 2>>
    BY <2>3
  <2>5. Input(a) = Null
    BY <2>2, <2>4 DEF Input
  <2> QED
    BY <2>1, <2>5
<1> QED
  BY <1>1, <1>2, <1>3

(* The message of an answer of which g is gathered. *)
LEMMA FinalizedIs ==
    ASSUME NEW x, SaidOK(x), NEW g, NEW m, m \in 0..Len(x.uses), Begun(x, g, m), NEW c, c = Finalized(g)
    PROVE  /\ c.texts = g.texts /\ c.usage = g.usage
           /\ DOMAIN c.calls = 1..m /\ Len(c.calls) = m
           /\ m = 0 => c.calls = <<>>
           /\ \A k \in 1..m : /\ c.calls[k].id = k
                              /\ c.calls[k].input = Input(g.calls[x.uses[k].index].args)
<1> DEFINE s == [k \in 1..m |-> x.uses[k].index]
<1>1. Len(x.uses) \in Nat /\ \A k \in 1..Len(x.uses) : x.uses[k].index \in Nat
  BY SaidFields DEF SaidOK
<1>2. m \in Nat /\ m <= Len(x.uses) /\ \A k \in 1..m : k \in 1..Len(x.uses) /\ s[k] = x.uses[k].index
  BY <1>1
<1>3. DOMAIN g.calls = {x.uses[k].index : k \in 1..m}
  BY DEF Begun
<1>4. DOMAIN g.calls = {s[k] : k \in 1..m}
  BY <1>2, <1>3
<1> HIDE DEF s
<1>5. \A k, l \in 1..m : k < l => s[k] < s[l]
  BY <1>2 DEF SaidOK, UsesNumbered
<1>6. IndexOrder(DOMAIN g.calls, s, m)
  BY <1>1, <1>2, <1>4, <1>5 DEF IndexOrder
<1>7. PICK o : o = ByIndex(g.calls)
  OBVIOUS
<1>8. o = [k \in 1..m |-> g.calls[s[k]]]
  BY <1>6, <1>7, ByIndexIs
<1>9. c.texts = g.texts /\ c.usage = g.usage /\ c.calls = [n \in DOMAIN o |-> CallOf(o[n])]
  BY <1>7 DEF Finalized
<1>10. DOMAIN c.calls = 1..m /\ \A k \in 1..m : c.calls[k] = CallOf(g.calls[s[k]])
  BY <1>8, <1>9
<1>11. Len(c.calls) = m
  <2>1. c.calls = [n \in 1..m |-> CallOf(o[n])]
    BY <1>8, <1>9
  <2> QED
    BY <1>2, <2>1
<1>12. \A k \in 1..m : g.calls[s[k]].id = k
  BY <1>2 DEF Begun
<1>13. ASSUME NEW k \in 1..m
       PROVE  c.calls[k].id = k /\ c.calls[k].input = Input(g.calls[x.uses[k].index].args)
  <2>1. s[k] = x.uses[k].index /\ g.calls[s[k]].id = k /\ c.calls[k] = CallOf(g.calls[s[k]])
    BY <1>2, <1>10, <1>12
  <2>2. \A a : CallOf(a).id = a.id /\ CallOf(a).input = Input(a.args)
    BY DEF CallOf
  <2>3. c.calls[k].id = g.calls[s[k]].id /\ c.calls[k].input = Input(g.calls[s[k]].args)
    BY <2>1, <2>2
  <2> QED
    BY <2>1, <2>3
<1>14. m = 0 => c.calls = <<>>
  <2>1. c.calls = [n \in 1..m |-> CallOf(o[n])]
    BY <1>8, <1>9
  <2>2. m = 0 => 1..m = {}
    OBVIOUS
  <2>3. [n \in {} |-> CallOf(o[n])] = <<>>
    OBVIOUS
  <2> QED
    BY <2>1, <2>2, <2>3
<1> QED
  BY <1>9, <1>10, <1>11, <1>13, <1>14

IsAnswer(c, x, all) ==
    /\ \A n \in DOMAIN c.texts : c.texts[n] = n
    /\ Len(c.texts) <= x.texts /\ Len(c.calls) <= Len(x.uses)
    /\ \A k \in DOMAIN c.calls :
          /\ c.calls[k].id = k
          /\ c.calls[k].input \in {Whole(k)} \union (IF all THEN {x.uses[k].args} ELSE {<<>>, Null})
    /\ all => /\ Len(c.texts) = x.texts /\ Len(c.calls) = Len(x.uses)
              /\ c.usage = Spent

LEMMA CountIs ==
    ASSUME NEW t \in Nat, NEW s, s = Count(t)
    PROVE  s \in Seq(Nat) /\ Len(s) = t /\ DOMAIN s = 1..t /\ \A n \in 1..t : s[n] = n
  BY CountNext DEF Count

LEMMA AnswersPart ==
    ASSUME NEW x, SaidOK(x), NEW g, Below(x, g), NEW c, c = Finalized(g)
    PROVE  /\ IsAnswer(c, x, FALSE) /\ c.texts = g.texts
           /\ DOMAIN g.calls = {} => c.calls = <<>>
<1>1. x.texts \in Nat /\ Len(x.uses) \in Nat
  BY SaidFields DEF SaidOK
<1>2. PICK t \in 0..x.texts : g.texts = Count(t)
  BY DEF Below
<1>3. PICK m \in 0..Len(x.uses) : Begun(x, g, m)
  BY DEF Below
<1>4. /\ c.texts = g.texts /\ c.usage = g.usage
      /\ DOMAIN c.calls = 1..m /\ Len(c.calls) = m
      /\ m = 0 => c.calls = <<>>
      /\ \A k \in 1..m : /\ c.calls[k].id = k
                         /\ c.calls[k].input = Input(g.calls[x.uses[k].index].args)
  BY <1>3, FinalizedIs
<1>5. t \in Nat /\ t <= x.texts /\ m \in Nat /\ m <= Len(x.uses)
  BY <1>1
<1>6. Len(c.texts) = t /\ DOMAIN c.texts = 1..t /\ \A n \in 1..t : c.texts[n] = n
  BY <1>2, <1>4, <1>5, CountIs
<1>7. ASSUME NEW k \in 1..m PROVE c.calls[k].input \in {Whole(k), <<>>, Null}
  <2>1. k \in Nat
    BY <1>5
  <2>2. g.calls[x.uses[k].index].args \in ArgsOf(k)
    BY <1>3 DEF Begun
  <2>3. Input(g.calls[x.uses[k].index].args) \in {Whole(k), <<>>, Null}
    BY <2>1, <2>2, InputIs DEF ArgsOf
  <2> QED
    BY <1>4, <2>3
<1>8. DOMAIN g.calls = {} => m = 0
  <2>1. DOMAIN g.calls = {x.uses[k].index : k \in 1..m}
    BY <1>3 DEF Begun
  <2>2. m # 0 => 1 \in 1..m
    BY <1>5
  <2> QED
    BY <2>1, <2>2
<1>9. IsAnswer(c, x, FALSE)
  BY <1>4, <1>5, <1>6, <1>7 DEF IsAnswer
<1> QED
  BY <1>4, <1>8, <1>9

LEMMA AnswersAll ==
    ASSUME NEW x, SaidOK(x), x.part = "complete", NEW g, Tells(x, g), NEW c, c = Finalized(g)
    PROVE  IsAnswer(c, x, TRUE) /\ c.texts = g.texts
<1> DEFINE m == Len(x.uses)
<1>1. x.texts \in Nat /\ m \in Nat /\ m \in 0..m
  BY SaidFields DEF SaidOK
<1>2. g.texts = Count(x.texts) /\ HoldsUses(x, g) /\ g.usage = SpentSoFar("complete")
  BY DEF Tells
<1>3. Begun(x, g, m) /\ \A k \in 1..m : g.calls[x.uses[k].index].args = x.uses[k].args
  BY <1>2 DEF HoldsUses
<1>4. /\ c.texts = g.texts /\ c.usage = g.usage
      /\ DOMAIN c.calls = 1..m /\ Len(c.calls) = m
      /\ \A k \in 1..m : /\ c.calls[k].id = k
                         /\ c.calls[k].input = Input(g.calls[x.uses[k].index].args)
  BY <1>1, <1>3, FinalizedIs
<1>5. Len(c.texts) = x.texts /\ DOMAIN c.texts = 1..x.texts /\ \A n \in 1..x.texts : c.texts[n] = n
  <2>1. PICK t : t = x.texts
    OBVIOUS
  <2>2. t \in Nat /\ c.texts = Count(t)
    BY <1>1, <1>2, <1>4, <2>1
  <2>3. Len(c.texts) = t /\ DOMAIN c.texts = 1..t /\ \A n \in 1..t : c.texts[n] = n
    BY <2>2, CountIs
  <2> QED
    BY <2>1, <2>3
<1>6. ASSUME NEW k \in 1..m PROVE c.calls[k].input = x.uses[k].args
  <2>1. k \in Nat
    BY <1>1
  <2>2. x.uses[k].args \in {<<>>, Whole(k)}
    BY DEF SaidOK, Argued
  <2>3. Input(x.uses[k].args) = x.uses[k].args
    BY <2>1, <2>2, InputIs
  <2> QED
    BY <1>3, <1>4, <2>3
<1>7. SpentSoFar("complete") = Spent
  BY DEF SpentSoFar
<1> HIDE DEF m
<1>8. IsAnswer(c, x, TRUE)
  BY <1>1, <1>2, <1>4, <1>5, <1>6, <1>7 DEF IsAnswer, m
<1> QED
  BY <1>4, <1>8

--------------------------------------------------------------------------------
(* Who answers does not change, and what is said of it stays true. *)
LEMMA GathersStays ==
    ASSUME provider' = provider
    PROVE  \A g, items : Gathers(g, items)' = Gathers(g, items)
<1> TAKE g, items
<1>1. \A h, n : Pushed(h, items, n)' = Pushed(h, items, n)
  BY SMT DEF Pushed
<1> DEFINE F(got) == [n \in 0..Len(items) |-> IF n = 0 THEN g ELSE Pushed(got[n - 1], items, n)]
           G(got) == [n \in 0..Len(items) |-> IF n = 0 THEN g ELSE Pushed(got[n - 1], items, n)']
<1>2. \A got : F(got) = G(got)
  BY <1>1
<1>3. Gathers(g, items) = (CHOOSE got : got = F(got))[Len(items)]
  BY Zenon DEF Gathers
<1>4. Gathers(g, items)' = (CHOOSE got : got = G(got))[Len(items)]
  BY Zenon DEF Gathers
<1> HIDE DEF F, G
<1>5. (CHOOSE got : got = F(got)) = (CHOOSE got : got = G(got))
  BY <1>2, SMT
<1> QED
  BY <1>3, <1>4, <1>5, Zenon

LEMMA FlowStays ==
    ASSUME provider' = provider
    PROVE  \A p, x, g, e : Flow(p, x, g, e)' <=> Flow(p, x, g, e)
<1>1. \A g, b : Step(g, b)' = Step(g, b)
  BY GathersStays DEF Step
<1>2. \A x, g, b, r : GathersByte(x, g, b, r)' <=> GathersByte(x, g, b, r)
  BY <1>1 DEF GathersByte
<1>3. \A h, p, x : History(h, p, x)' <=> History(h, p, x)
  BY <1>2 DEF History
<1> QED
  BY <1>3 DEF Flow

LEMMA StoryStays ==
    ASSUME provider' = provider
    PROVE  \A r, w, x, g : Story(r, w, x, g)' <=> Story(r, w, x, g)
<1>1. \A x : SaidOK(x)' <=> SaidOK(x)
  BY DEF SaidOK, UsesNumbered, Argued
<1>2. \A p : Framed(p)' <=> Framed(p)
  BY DEF Framed, After
<1>3. \A x, g : Tells(x, g)' <=> Tells(x, g)
  BY DEF Tells, SpentSoFar
<1>4. \A p, x, g, end : Carries(p, x, g, end)' <=> Carries(p, x, g, end)
  BY <1>2, <1>3, FlowStays DEF Carries
<1> QED
  BY <1>1, <1>4 DEF Story

(* The invariant. *)
HasAnswer == streaming \in {"finished", "salvaged"}
AllThere == streaming = "finished" /\ said.part = "complete" /\ wire.end = "closed"
StoryShown(r, w, x, g, s) == Story(r, w, x, g) /\ s = g.texts
StrmInv ==
    /\ provider \in {"openai", "anthropic", "ollama"}
    /\ \E t \in Nat : shown = Count(t)
    /\ streaming = "asking" => shown = <<>>
    /\ streaming = "reading" =>
         \E r, w, x, g, s : /\ r = reader /\ w = wire /\ x = said /\ g = gathered /\ s = shown
                            /\ StoryShown(r, w, x, g, s)
    /\ HasAnswer => /\ IsAnswer(reply, said, AllThere) /\ reply.texts = shown
                    /\ streaming = "salvaged" => reply.calls = <<>>

LEMMA TextsAre ==
    ASSUME NEW r, NEW w, NEW x, NEW g, Story(r, w, x, g)
    PROVE  /\ SaidOK(x) /\ Below(x, g) /\ g \in Gathered
           /\ \E t \in Nat : g.texts = Count(t)
<1>1. SaidOK(x) /\ x \in Said
  BY DEF Story, SaidOK
<1>2. Carries(r.buffer \o w.bytes, x, g, w.end)
  BY DEF Story
<1>3. PICK e : Flow(r.buffer \o w.bytes, x, g, e)
  BY <1>2, Zenon DEF Carries
<1>4. Below(x, g) /\ g \in Gathered
  BY <1>3, FlowEnds
<1>5. PICK t \in 0..x.texts : g.texts = Count(t)
  BY <1>4 DEF Below
<1>6. t \in Nat
  BY <1>1, SaidFields
<1> QED
  BY <1>1, <1>4, <1>5, <1>6

(* What is shown when more is gathered is all that is gathered. *)
LEMMA ShownGrows ==
    ASSUME NEW a, NEW b, NEW t \in Nat, NEW u \in Nat, a = Count(t), b = Count(u), Len(a) <= Len(b)
    PROVE  a \o SubSeq(b, Len(a) + 1, Len(b)) = b
<1>1. a \in Seq(Nat) /\ Len(a) = t /\ \A n \in 1..t : a[n] = n
  BY CountIs
<1>2. b \in Seq(Nat) /\ Len(b) = u /\ \A n \in 1..u : b[n] = n
  BY CountIs
<1>3. t <= u
  BY <1>1, <1>2
<1>4. a = SubSeq(b, 1, t)
  <2>1. PICK s : s = SubSeq(b, 1, t)
    OBVIOUS
  <2>2. s \in Seq(Nat) /\ Len(s) = t /\ \A n \in 1..t : s[n] = b[n]
    BY <1>2, <1>3, <2>1
  <2>3. \A n \in 1..t : a[n] = s[n]
    BY <1>1, <1>2, <1>3, <2>2
  <2>4. a = s
    BY <1>1, <2>2, <2>3, SeqEqual
  <2> QED
    BY <2>1, <2>4
<1>5. SubSeq(b, 1, t) \o SubSeq(b, t + 1, u) = SubSeq(b, 1, u)
  <2>1. 1 \in 1..Len(b) + 1 /\ t \in (1 - 1)..Len(b) /\ u \in t..Len(b)
    BY <1>2, <1>3
  <2> QED
    BY <1>2, <2>1, ConcatAdjacentSubSeq
<1>6. SubSeq(b, 1, u) = b
  BY <1>2, SubSeqFull
<1> QED
  BY <1>1, <1>2, <1>4, <1>5, <1>6

(* A step that goes on reading keeps the story. *)
LEMMA ReadsOn ==
    ASSUME StrmInv, provider' = provider, streaming' = "reading",
           Story(reader', wire', said', gathered'), shown' = gathered'.texts
    PROVE  StrmInv'
<1>1. PICK r, w, x, g, s : /\ r = reader' /\ w = wire' /\ x = said' /\ g = gathered' /\ s = shown'
  OBVIOUS
<1>2. Story(r, w, x, g) /\ s = g.texts
  BY <1>1
<1>3. Story(r, w, x, g)'
  BY <1>2, StoryStays
<1>4. StoryShown(r, w, x, g, s)'
  BY <1>2, <1>3 DEF StoryShown
<1>5. \E t \in Nat : s = Count(t)
  BY <1>2, TextsAre
<1>6. provider' \in {"openai", "anthropic", "ollama"}
  BY DEF StrmInv
<1>7. ~HasAnswer' /\ streaming' # "asking"
  BY DEF HasAnswer
<1>8. \E t \in Nat : shown' = Count(t)'
  BY <1>1, <1>5 DEF Count
<1> QED
  BY <1>1, <1>4, <1>6, <1>7, <1>8 DEF StrmInv

LEMMA StoryNow ==
    ASSUME StrmInv, streaming = "reading"
    PROVE  Story(reader, wire, said, gathered) /\ shown = gathered.texts
           /\ provider \in {"openai", "anthropic", "ollama"}
  BY DEF StrmInv, StoryShown

LEMMA AnswersNow ==
    ASSUME StrmInv, HasAnswer
    PROVE  IsAnswer(reply, said, AllThere) /\ reply.texts = shown
           /\ (streaming = "salvaged" => reply.calls = <<>>)
  BY DEF StrmInv

(* A stream that fails leaves what it gathered, when that is text and nothing else. *)
LEMMA StoryFails ==
    ASSUME StrmInv, streaming = "reading", Fails,
           UNCHANGED <<provider, said, shown>>
    PROVE  StrmInv'
<1>1. Story(reader, wire, said, gathered) /\ shown = gathered.texts
  BY StoryNow
<1>2. SaidOK(said) /\ Below(said, gathered) /\ gathered \in Gathered
  BY <1>1, TextsAre
<1>3. /\ provider' \in {"openai", "anthropic", "ollama"}
      /\ \E t \in Nat : shown' = Count(t)'
  BY DEF StrmInv, Count
<1>4. CASE streaming' = "salvaged" /\ reply' = Finalized(gathered) /\ DOMAIN gathered.calls = {}
  <2>1. /\ IsAnswer(reply', said, FALSE) /\ reply'.texts = gathered.texts /\ reply'.calls = <<>>
    BY <1>2, <1>4, AnswersPart
  <2>2. AllThere' = FALSE
    BY <1>4 DEF AllThere
  <2>3. IsAnswer(reply', said', FALSE)
    BY <2>1
  <2>4. IsAnswer(reply, said, AllThere)'
    BY <2>2, <2>3 DEF IsAnswer
  <2> QED
    BY <1>1, <1>3, <1>4, <2>1, <2>4 DEF StrmInv
<1>5. CASE streaming' = "failed"
  BY <1>3, <1>5 DEF StrmInv, HasAnswer
<1> QED
  BY <1>4, <1>5 DEF Fails

LEMMA StrmBegins == StreamsAssumption /\ StrmInit => StrmInv
<1> SUFFICES ASSUME StreamsAssumption, StrmInit PROVE StrmInv
  OBVIOUS
<1>1. provider \in {"openai", "anthropic", "ollama"} /\ streaming = "asking" /\ shown = <<>>
  BY DEF StreamsAssumption, StrmInit
<1>2. Count(0) = <<>>
  <2>1. Len(Count(0)) = 0 /\ Count(0) \in Seq(Nat)
    BY CountNext
  <2> QED
    BY <2>1
<1>3. \E t \in Nat : shown = Count(t)
  BY <1>1, <1>2
<1> QED
  BY <1>1, <1>3 DEF StrmInv, HasAnswer

LEMMA EstablishedSteps == ASSUME StrmInv, Established PROVE StrmInv'
<1>1. provider \in {"openai", "anthropic", "ollama"} /\ shown = <<>>
  BY DEF StrmInv, Established
<1>2. Story(NothingRead, [bytes |-> <<>>, end |-> "open"], NothingSaid, NoneGathered)
  BY <1>1, StoryBegins
<1>3. Story(reader', wire', said', gathered')
  BY <1>2 DEF Established
<1>4. shown' = gathered'.texts
  BY <1>1 DEF Established, NoneGathered
<1> QED
  BY <1>3, <1>4, ReadsOn DEF Established

LEMMA RefusedSteps == ASSUME StrmInv, NEW e, Refused(e) PROVE StrmInv'
<1>1. /\ provider' = provider /\ shown' = shown /\ shown = <<>>
      /\ streaming' \in {"asking", "failed"}
  BY DEF StrmInv, Refused
<1>2. \E t \in Nat : shown' = Count(t)'
  BY <1>1 DEF StrmInv, Count
<1> QED
  BY <1>1, <1>2 DEF StrmInv, HasAnswer

LEMMA ProviderSendsSteps == ASSUME StrmInv, ProviderSends PROVE StrmInv'
<1>1. Story(reader, wire, said, gathered) /\ shown = gathered.texts
      /\ provider \in {"openai", "anthropic", "ollama"}
  BY StoryNow DEF ProviderSends
<1>2. PICK f \in Frames, mark \in {<<Mark>>, <<>>} :
         said' = f.next /\ wire' = [wire EXCEPT !.bytes = @ \o Halves(f.items) \o mark]
  BY Zenon DEF ProviderSends, If
<1>3. Story(reader, [wire EXCEPT !.bytes = @ \o Halves(f.items) \o mark], f.next, gathered)
  BY <1>1, StorySends DEF ProviderSends
<1>4. Story(reader', wire', said', gathered')
  BY <1>2, <1>3 DEF ProviderSends
<1> QED
  BY <1>1, <1>4, ReadsOn DEF ProviderSends

LEMMA ProviderIdlesSteps == ASSUME StrmInv, ProviderIdles PROVE StrmInv'
<1>1. Story(reader, wire, said, gathered) /\ shown = gathered.texts
  BY StoryNow DEF ProviderIdles
<1>2. Story(reader, [wire EXCEPT !.bytes = @ \o Idle], [said EXCEPT !.noise = @ + 1], gathered)
  BY <1>1, StoryIdles DEF ProviderIdles
<1>3. Story(reader', wire', said', gathered')
  BY <1>2 DEF ProviderIdles
<1> QED
  BY <1>1, <1>3, ReadsOn DEF ProviderIdles

LEMMA ConnectionEndsSteps == ASSUME StrmInv, ConnectionEnds PROVE StrmInv'
<1>1. Story(reader, wire, said, gathered) /\ shown = gathered.texts
  BY StoryNow DEF ConnectionEnds
<1>2. PICK end \in {"closed", "broken"}, n \in 0..Len(wire.bytes) :
         /\ end = "closed" /\ said.part = "complete" => n = Len(wire.bytes)
         /\ wire' = [bytes |-> SubSeq(wire.bytes, 1, n), end |-> end]
  BY DEF ConnectionEnds
<1>3. Story(reader, [bytes |-> SubSeq(wire.bytes, 1, n), end |-> end], said, gathered)
  BY <1>1, <1>2, StoryEnds DEF ConnectionEnds
<1>4. Story(reader', wire', said', gathered')
  BY <1>2, <1>3 DEF ConnectionEnds
<1> QED
  BY <1>1, <1>4, ReadsOn DEF ConnectionEnds

LEMMA ReadSteps == ASSUME StreamsAssumption, StrmInv, NEW n \in ChunkSizes, Read(n) PROVE StrmInv'
<1>1. Story(reader, wire, said, gathered) /\ shown = gathered.texts
  BY StoryNow DEF Read
<1>2. n \in Nat /\ n <= Len(wire.bytes) /\ ~reader.done
  BY DEF StreamsAssumption, Read
<1>3. CASE Len(reader.buffer) + n > MaxBuffer
  BY <1>3, StoryFails DEF Read
<1>4. CASE ~(Len(reader.buffer) + n > MaxBuffer)
  <2>1. Story([reader EXCEPT !.buffer = @ \o SubSeq(wire.bytes, 1, n), !.pull = FALSE],
              [wire EXCEPT !.bytes = SubSeq(@, n + 1, Len(@))], said, gathered)
    BY <1>1, <1>2, StoryReads
  <2>2. Story(reader', wire', said', gathered')
    BY <1>4, <2>1 DEF Read
  <2>3. shown' = gathered'.texts /\ provider' = provider /\ streaming' = "reading"
    BY <1>1, <1>4 DEF Read
  <2> QED
    BY <2>2, <2>3, ReadsOn
<1> QED
  BY <1>3, <1>4

LEMMA ReadEndSteps == ASSUME StrmInv, ReadEnd PROVE StrmInv'
<1>1. Story(reader, wire, said, gathered) /\ shown = gathered.texts
  BY StoryNow DEF ReadEnd
<1>2. CASE wire.end = "broken"
  BY <1>2, StoryFails DEF ReadEnd
<1>3. CASE wire.end # "broken"
  <2>1. wire.end = "closed" /\ wire.bytes = <<>>
    <3>1. wire \in WireType
      BY <1>1 DEF Story
    <3> QED
      BY <1>3, <3>1, WireFields DEF ReadEnd
  <2>2. Story([reader EXCEPT !.done = TRUE, !.pull = FALSE], wire, said, gathered)
    BY <1>1, <2>1, StoryReadsEnd
  <2>3. Story(reader', wire', said', gathered')
    BY <1>3, <2>2 DEF ReadEnd
  <2>4. shown' = gathered'.texts /\ provider' = provider /\ streaming' = "reading"
    BY <1>1, <1>3 DEF ReadEnd
  <2> QED
    BY <2>3, <2>4, ReadsOn
<1> QED
  BY <1>2, <1>3

(* A payload that is a frame is gathered and shown, and one that is none is the end. *)
LEMMA HandlesSteps ==
    ASSUME StrmInv, streaming = "reading", NEW bytes, Handles(bytes), UNCHANGED <<provider, said, wire>>,
           IsFrame(bytes) => /\ Story(reader', wire, said, Gathers(gathered, bytes[1].items))
                             /\ Len(gathered.texts) <= Len(Gathers(gathered, bytes[1].items).texts)
    PROVE  StrmInv'
<1>1. Story(reader, wire, said, gathered) /\ shown = gathered.texts
  BY StoryNow
<1>2. CASE IsFrame(bytes)
  <2>1. PICK g, h : g = gathered /\ h = Gathers(gathered, bytes[1].items)
    OBVIOUS
  <2>2. /\ gathered' = h /\ streaming' = "reading"
        /\ shown' = shown \o SubSeq(h.texts, Len(g.texts) + 1, Len(h.texts))
    BY <1>2, <2>1 DEF Handles
  <2>3. Story(reader', wire', said', h) /\ Len(g.texts) <= Len(h.texts)
    BY <1>2, <2>1
  <2>4. PICK t \in Nat : g.texts = Count(t)
    BY <1>1, <2>1, TextsAre
  <2>5. PICK u \in Nat : h.texts = Count(u)
    BY <2>3, TextsAre
  <2>6. shown' = h.texts
    BY <1>1, <2>1, <2>2, <2>3, <2>4, <2>5, ShownGrows
  <2> QED
    BY <2>2, <2>3, <2>6, ReadsOn
<1>3. CASE ~IsFrame(bytes)
  BY <1>3, StoryFails DEF Handles
<1> QED
  BY <1>2, <1>3

LEMMA CutSteps == ASSUME StrmInv, Cut PROVE StrmInv'
<1>1. Story(reader, wire, said, gathered) /\ shown = gathered.texts /\ streaming = "reading"
  BY StoryNow DEF Cut
<1>2. PICK m, bytes : m = Min(FrameEnds) /\ bytes = SubSeq(reader.buffer, 1, m - 1)
  OBVIOUS
<1>3. reader' = [reader EXCEPT !.buffer = SubSeq(@, m + 1, Len(@)), !.pull = bytes = <<>>]
  BY <1>2 DEF Cut
<1>4. /\ UNCHANGED <<provider, said, wire>>
      /\ HasData(bytes) => Handles(bytes)
      /\ ~HasData(bytes) => UNCHANGED <<streaming, gathered, shown>>
  BY <1>2 DEF Cut
<1>5. reader.buffer \in Seq(Byte)
  BY <1>1, ReaderFields DEF Story
<1>6. FirstMark(reader.buffer, m)
  <2>1. FrameEnds # {} /\ FrameEnds = {n \in DOMAIN reader.buffer : reader.buffer[n] = Mark}
    BY DEF Cut, Cuts, FrameEnds
  <2> QED
    BY <1>2, <1>5, <2>1, FirstMarkIs
<1>7. /\ ~HasData(bytes) => Story(reader', wire, said, gathered)
      /\ HasData(bytes) /\ IsFrame(bytes) =>
           /\ Story(reader', wire, said, Gathers(gathered, bytes[1].items))
           /\ Len(gathered.texts) <= Len(Gathers(gathered, bytes[1].items).texts)
  <2>1. PICK r, w, x, g, t : r = reader /\ w = wire /\ x = said /\ g = gathered /\ t = reader'
    OBVIOUS
  <2>2. Story(r, w, x, g) /\ FirstMark(r.buffer, m) /\ bytes = SubSeq(r.buffer, 1, m - 1)
    BY <1>1, <1>2, <1>6, <2>1
  <2>3. t = [r EXCEPT !.buffer = SubSeq(@, m + 1, Len(@)), !.pull = bytes = <<>>]
    BY <1>3, <2>1
  <2>4. /\ ~HasData(bytes) => Story(t, w, x, g)
        /\ HasData(bytes) /\ IsFrame(bytes) =>
             /\ Story(t, w, x, Gathers(g, bytes[1].items))
             /\ Len(g.texts) <= Len(Gathers(g, bytes[1].items).texts)
    BY <2>2, <2>3, StoryCuts
  <2> QED
    BY <2>1, <2>4
<1>8. CASE HasData(bytes)
  BY <1>1, <1>4, <1>7, <1>8, HandlesSteps
<1>9. CASE ~HasData(bytes)
  <2>1. Story(reader', wire', said', gathered') /\ shown' = gathered'.texts /\ streaming' = "reading"
    BY <1>1, <1>4, <1>7, <1>9
  <2> QED
    BY <1>4, <2>1, ReadsOn
<1> QED
  BY <1>8, <1>9

LEMMA FlushSteps == ASSUME StrmInv, Flush PROVE StrmInv'
<1>1. Story(reader, wire, said, gathered) /\ shown = gathered.texts /\ streaming = "reading"
  BY StoryNow DEF Flush
<1>2. PICK bytes : bytes = Trimmed(reader.buffer)
  OBVIOUS
<1>3. reader.done /\ wire.bytes = <<>> /\ wire.end = "closed"
  BY <1>1 DEF Flush, Story
<1>4. reader.pull \/ \A j \in 1..Len(reader.buffer) : reader.buffer[j] # Mark
  <2>1. DOMAIN reader.buffer = 1..Len(reader.buffer)
    <3>1. reader.buffer \in Seq(Byte)
      BY <1>1, ReaderFields DEF Story
    <3> QED
      BY <3>1, LenProperties
  <2>2. reader.pull \/ FrameEnds = {}
    BY DEF Flush, Cuts
  <2> QED
    BY <2>1, <2>2 DEF FrameEnds
<1>5. /\ ~HasData(bytes) => (NothingLost(said, wire.end) => Tells(said, gathered))
      /\ HasData(bytes) /\ IsFrame(bytes) =>
           /\ Story([reader EXCEPT !.buffer = <<>>], wire, said, Gathers(gathered, bytes[1].items))
           /\ Len(gathered.texts) <= Len(Gathers(gathered, bytes[1].items).texts)
  BY <1>1, <1>2, <1>3, <1>4, StoryFlushes
<1>6. UNCHANGED <<provider, said, wire>>
  BY DEF Flush
<1>7. CASE HasData(bytes)
  <2>1. reader' = [reader EXCEPT !.buffer = <<>>] /\ Handles(bytes)
    BY <1>2, <1>7 DEF Flush
  <2> QED
    BY <1>1, <1>5, <1>6, <1>7, <2>1, HandlesSteps
<1>8. CASE ~HasData(bytes)
  <2>1. streaming' = "finished" /\ reply' = Finalized(gathered) /\ shown' = shown
    BY <1>2, <1>8 DEF Flush
  <2>2. SaidOK(said) /\ Below(said, gathered)
    BY <1>1, TextsAre
  <2>3. AllThere' <=> said.part = "complete"
    BY <1>3, <1>6, <2>1 DEF AllThere
  <2>4. IsAnswer(reply', said, AllThere') /\ reply'.texts = gathered.texts
    <3>1. CASE said.part = "complete"
      <4>1. NothingLost(said, wire.end)
        BY <1>3, <3>1 DEF NothingLost
      <4>2. Tells(said, gathered)
        BY <1>5, <1>8, <4>1
      <4>3. IsAnswer(reply', said, TRUE) /\ reply'.texts = gathered.texts
        BY <2>1, <2>2, <3>1, <4>2, AnswersAll
      <4>4. AllThere' = TRUE
        BY <1>3, <1>6, <2>1, <3>1 DEF AllThere
      <4> QED
        BY <4>3, <4>4
    <3>2. CASE said.part # "complete"
      <4>1. IsAnswer(reply', said, FALSE) /\ reply'.texts = gathered.texts
        BY <2>1, <2>2, AnswersPart
      <4>2. AllThere' = FALSE
        BY <1>6, <3>2 DEF AllThere
      <4> QED
        BY <4>1, <4>2
    <3> QED
      BY <3>1, <3>2
  <2>5. IsAnswer(reply, said, AllThere)'
    BY <1>6, <2>4 DEF IsAnswer
  <2>6. /\ provider' \in {"openai", "anthropic", "ollama"}
        /\ \E t \in Nat : shown' = Count(t)'
    BY <1>6, <2>1 DEF StrmInv, Count
  <2> QED
    BY <1>1, <2>1, <2>4, <2>5, <2>6 DEF StrmInv
<1> QED
  BY <1>7, <1>8

LEMMA StrmSteps ==
    ASSUME StreamsAssumption, StrmInv, [StrmNext]_strmVars
    PROVE  StrmInv'
<1>1. CASE UNCHANGED strmVars
  <2>1. /\ provider' = provider /\ streaming' = streaming /\ said' = said /\ wire' = wire
        /\ reader' = reader /\ gathered' = gathered /\ shown' = shown /\ reply' = reply
    BY <1>1 DEF strmVars
  <2>2. CASE streaming = "reading"
    BY <2>1, <2>2, StoryNow, ReadsOn
  <2>3. CASE streaming # "reading"
    <3>1. HasAnswer' <=> HasAnswer
      BY <2>1 DEF HasAnswer
    <3>2. AllThere' <=> AllThere
      BY <2>1 DEF AllThere
    <3>3. HasAnswer => IsAnswer(reply, said, AllThere)'
      BY <2>1, AnswersNow DEF IsAnswer, AllThere
    <3>4. \E t \in Nat : shown' = Count(t)'
      BY <2>1 DEF StrmInv, Count
    <3> QED
      BY <2>1, <2>3, <3>1, <3>3, <3>4, AnswersNow DEF StrmInv
  <2> QED
    BY <2>2, <2>3
<1> QED
  BY <1>1, EstablishedSteps, RefusedSteps, ProviderSendsSteps, ProviderIdlesSteps, ConnectionEndsSteps,
     CutSteps, ReadSteps, ReadEndSteps, FlushSteps DEF StrmNext

LEMMA StrmInvariant == StrmSpec => []StrmInv
  BY StreamsAssumption, StrmBegins, StrmSteps, PTL DEF StrmSpec

(* No text is shown twice or out of its place, however often the request was   *)
(* tried and however the stream was cut, and the message kept has that text.   *)
THEOREM TextsShownOnce == StrmSpec => []ShownOnce
<1>1. StrmInv => ShownOnce
  <2> SUFFICES ASSUME StrmInv PROVE ShownOnce
    OBVIOUS
  <2>1. PICK t \in Nat : shown = Count(t)
    BY DEF StrmInv
  <2>2. \A n \in DOMAIN shown : shown[n] = n
    BY <2>1, CountIs
  <2> QED
    BY <2>2, AnswersNow DEF ShownOnce, HasAnswer
<1> QED
  BY <1>1, StrmInvariant, PTL

(* Whatever the provider, the frames, the reads and the end of the connection,  *)
(* the message of a turn is what was said: see the property.                    *)
THEOREM RepliesAreWhatWasSaid == StrmSpec => []ReplyIsWhatWasSaid
<1>1. StrmInv => ReplyIsWhatWasSaid
  <2> SUFFICES ASSUME StrmInv, HasAnswer PROVE ReplyIsWhatWasSaid
    BY DEF ReplyIsWhatWasSaid, HasAnswer
  <2>1. IsAnswer(reply, said, AllThere) /\ (streaming = "salvaged" => reply.calls = <<>>)
    BY AnswersNow
  <2> QED
    BY <2>1 DEF ReplyIsWhatWasSaid, IsAnswer, AllThere
<1> QED
  BY <1>1, StrmInvariant, PTL

(* An answer has no more texts, calls and blank lines than it may have, and the reader  *)
(* no more bytes than it may hold: what is sent or read next is refused before.          *)
Within(x) == x.texts \in 0..MaxTexts /\ Len(x.uses) \in 0..MaxUses /\ x.noise \in 0..MaxNoise
StrmBounds ==
    /\ provider \in Providers /\ attempt \in 0..MaxRetries
    /\ streaming \in {"asking", "reading", "finished", "salvaged", "failed"}
    /\ Within(said) /\ wire.end \in {"open", "closed", "broken"}
    /\ Len(reader.buffer) <= MaxBuffer
    /\ reply.texts \in Seq(Nat) /\ reply.usage \in Seq(Nat)

LEMMA StreamBounds ==
    /\ MaxRetries \in Nat /\ MaxTexts \in Nat /\ MaxUses \in Nat /\ MaxNoise \in Nat
    /\ MaxBuffer \in Nat
  BY StreamsAssumption

LEMMA OpensWithin ==
    ASSUME said \in Said, Within(said), NEW u \in Seq(UseSaid), Len(u) <= Room
    PROVE  Within(OpensUses(u))
<1>1. OpensUses(u).texts = said.texts /\ OpensUses(u).uses = said.uses \o u
  BY OpensIs
<1>2. OpensUses(u).noise = said.noise
  BY DEF OpensUses, Said
<1>3. said.uses \in Seq(UseSaid) /\ Len(said.uses) \in Nat /\ Len(u) \in Nat
  BY SaidFields
<1>4. Len(said.uses \o u) = Len(said.uses) + Len(u)
  BY <1>3
<1>5. Len(said.uses) + Len(u) \in 0..MaxUses
  BY <1>3, StreamBounds DEF Room
<1> QED
  BY <1>1, <1>2, <1>4, <1>5 DEF Within

LEMMA TextWithin ==
    ASSUME said \in Said, Within(said), NEW f \in SaysText
    PROVE  Within(f.next)
<1>1. said.texts < MaxTexts
  BY DEF SaysText, If
<1> DEFINE t == said.texts + 1
<1>2. f.next = [said EXCEPT !.texts = t, !.blocks = @ + 1, !.part = "body"]
  BY DEF SaysText, If, Frame
<1>3. t \in 0..MaxTexts
  BY <1>1, StreamBounds DEF Within
<1> HIDE DEF t
<1>4. f.next.texts = t /\ f.next.uses = said.uses /\ f.next.noise = said.noise
  BY <1>2 DEF Said
<1> QED
  BY <1>3, <1>4 DEF Within

LEMMA ReachesWithin ==
    ASSUME said \in Said, Within(said), NEW part
    PROVE  Within(Reaches(part))
  BY DEF Reaches, Said, Within

LEMMA SayingWithin ==
    ASSUME said \in Said, Within(said), NEW k \in 1..Len(said.uses)
    PROVE  Within(Saying(k))
<1> DEFINE a == said.uses[k].args \o NextPart(k)
           u == [said.uses EXCEPT ![k].args = a]
<1>1. Saying(k) = [said EXCEPT !.uses = u]
  BY DEF Saying
<1>2. said.uses \in Seq(UseSaid)
  BY SaidFields
<1> HIDE DEF a
<1>3. Len(u) = Len(said.uses)
  BY <1>2
<1> HIDE DEF u
<1>4. Saying(k).texts = said.texts /\ Saying(k).uses = u /\ Saying(k).noise = said.noise
  BY <1>1 DEF Said
<1> QED
  BY <1>3, <1>4 DEF Within

LEMMA OneUse ==
    ASSUME NEW j \in Nat, NEW a \in Arguments
    PROVE  <<[index |-> j, args |-> a]>> \in Seq(UseSaid) /\ Len(<<[index |-> j, args |-> a]>>) = 1
<1> DEFINE u == [index |-> j, args |-> a]
<1>1. u \in UseSaid
  BY DEF UseSaid
<1> HIDE DEF u
<1>2. <<u>> \in Seq(UseSaid) /\ Len(<<u>>) = 1
  BY <1>1
<1> QED
  BY <1>2 DEF u

LEMMA TwoUses ==
    ASSUME NEW j \in Nat, NEW a \in Arguments, NEW k \in Nat, NEW b \in Arguments
    PROVE  LET u == <<[index |-> j, args |-> a], [index |-> k, args |-> b]>>
           IN u \in Seq(UseSaid) /\ Len(u) = 2
<1> DEFINE u == [index |-> j, args |-> a]
           v == [index |-> k, args |-> b]
<1>1. u \in UseSaid /\ v \in UseSaid
  BY DEF UseSaid
<1> HIDE DEF u, v
<1>2. <<u, v>> \in Seq(UseSaid) /\ Len(<<u, v>>) = 2
  BY <1>1
<1> QED
  BY <1>2 DEF u, v

LEMMA OpenAiWithin ==
    ASSUME said \in Said, Within(said), NEW f \in OpenAi
    PROVE  Within(f.next)
<1> DEFINE N == Len(said.uses)
<1>1. N \in Nat /\ said.uses \in Seq(UseSaid) /\ DOMAIN said.uses = 1..N
  BY SaidFields
<1>2. Fresh = N + 1 /\ Fresh \in Nat /\ Fresh - 1 \in Nat /\ Fresh + 1 - 1 \in Nat /\ Room \in Int
  BY <1>1, StreamBounds DEF Fresh, Room
<1>3. CASE said.part \in {"opening", "body"}
  <2> DEFINE a1 == {Frame(<<Use(Fresh - 1, Fresh, a)>>, OpensUses(<<OpenedUse(Fresh, a)>>)) :
                      a \in {<<>>, FirstPart(Fresh)}}
             a2 == {Frame(<<Use(Fresh - 1, Fresh, FirstPart(Fresh)), Use(Fresh, Fresh + 1, <<>>)>>,
                          OpensUses(<<OpenedUse(Fresh, FirstPart(Fresh)), OpenedUse(Fresh + 1, <<>>)>>))}
             a3 == {Frame(<<Use(j - 1, None, NextPart(j))>>, Saying(j)) :
                      j \in {n \in DOMAIN said.uses : Len(said.uses[n].args) < 2}}
             a4 == {Frame(<<Stop>>, Reaches("usage"))}
  <2>1. OpenAi = SaysText \union If(Room > 0, a1) \union If(Room > 1, a2) \union a3
                 \union If(Unfinished = {}, a4)
    <3>1. OpenAi = OpenAiBody
      BY <1>3 DEF OpenAi
    <3> QED
      BY <3>1, Zenon DEF OpenAiBody
  <2>2. \/ f \in SaysText \/ (Room > 0 /\ f \in a1) \/ (Room > 1 /\ f \in a2)
        \/ f \in a3 \/ f \in a4
    <3> HIDE DEF a1, a2, a3, a4
    <3> QED
      BY <2>1 DEF If
  <2>3. <<>> \in Arguments /\ FirstPart(Fresh) \in Arguments
    BY <1>2, PartsAre DEF FirstPart
  <2>4. CASE f \in SaysText
    BY <2>4, TextWithin
  <2>5. CASE Room > 0 /\ f \in a1
    <3>1. PICK a \in Arguments : f.next = OpensUses(<<OpenedUse(Fresh, a)>>)
      BY <2>3, <2>5 DEF Frame
    <3>2. <<OpenedUse(Fresh, a)>> \in Seq(UseSaid) /\ Len(<<OpenedUse(Fresh, a)>>) = 1
      BY <1>2, OneUse DEF OpenedUse
    <3>3. 1 <= Room
      BY <1>2, <2>5
    <3> QED
      BY <3>1, <3>2, <3>3, OpensWithin
  <2>6. CASE Room > 1 /\ f \in a2
    <3> DEFINE u == <<OpenedUse(Fresh, FirstPart(Fresh)), OpenedUse(Fresh + 1, <<>>)>>
    <3>1. f.next = OpensUses(u)
      BY <2>6 DEF Frame
    <3>2. u \in Seq(UseSaid) /\ Len(u) = 2
      BY <1>2, <2>3, TwoUses DEF OpenedUse
    <3>3. 2 <= Room
      BY <1>2, <2>6
    <3> HIDE DEF u
    <3> QED
      BY <3>1, <3>2, <3>3, OpensWithin
  <2>7. CASE f \in a3
    <3>1. PICK j \in DOMAIN said.uses : f.next = Saying(j)
      BY <2>7 DEF Frame
    <3> QED
      BY <1>1, <3>1, SayingWithin
  <2>8. CASE f \in a4
    BY <2>8, ReachesWithin DEF Frame
  <2> QED
    BY <2>2, <2>4, <2>5, <2>6, <2>7, <2>8
<1>4. CASE said.part = "usage"
  BY <1>4, ReachesWithin DEF OpenAi, Frame
<1>5. CASE said.part = "sentinel"
  BY <1>5, ReachesWithin DEF OpenAi, Frame
<1>6. CASE said.part \notin {"opening", "body", "usage", "sentinel"}
  BY <1>6 DEF OpenAi
<1> QED
  BY <1>3, <1>4, <1>5, <1>6

LEMMA AnthropicWithin ==
    ASSUME said \in Said, Within(said), NEW f \in Anthropic
    PROVE  Within(f.next)
<1> DEFINE N == Len(said.uses)
           b == said.blocks
<1>1. N \in Nat /\ said.uses \in Seq(UseSaid) /\ b \in Nat
  BY SaidFields
<1>2. CASE said.part = "body"
  <2> DEFINE a1 == {Frame(<<Use(b - 1, None, NextPart(N))>>, Saying(N))}
             a2 == {Frame(<<Use(b, Fresh, <<>>)>>, OpensUses(<<[index |-> b, args |-> <<>>]>>))}
             a3 == {Frame(<<Stop, Usage(0, Spent[2])>>, Reaches("message_stop"))}
             inUse == N > 0 /\ said.uses[N].index = b - 1 /\ Len(said.uses[N].args) < 2
  <2>1. Anthropic = If(inUse, a1) \union If(Unfinished = {}, SaysText \union If(Room > 0, a2) \union a3)
    <3>1. Anthropic = AnthropicBody
      BY <1>2 DEF Anthropic
    <3> QED
      BY <3>1, Zenon DEF AnthropicBody
  <2>2. \/ (inUse /\ f \in a1) \/ f \in SaysText \/ (Room > 0 /\ f \in a2) \/ f \in a3
    <3> HIDE DEF a1, a2, a3, inUse
    <3> QED
      BY <2>1 DEF If
  <2>3. CASE inUse /\ f \in a1
    <3>1. f.next = Saying(N) /\ N \in 1..N
      BY <1>1, <2>3 DEF Frame
    <3> QED
      BY <3>1, SayingWithin
  <2>4. CASE f \in SaysText
    BY <2>4, TextWithin
  <2>5. CASE Room > 0 /\ f \in a2
    <3> DEFINE u == <<[index |-> b, args |-> <<>>]>>
    <3>1. f.next = OpensUses(u)
      BY <2>5 DEF Frame
    <3>2. u \in Seq(UseSaid) /\ Len(u) = 1
      <4>1. <<>> \in Arguments
        BY <1>1, PartsAre
      <4> QED
        BY <1>1, <4>1, OneUse
    <3>3. 1 <= Room
      BY <1>1, <2>5, StreamBounds DEF Room
    <3> HIDE DEF u
    <3> QED
      BY <3>1, <3>2, <3>3, OpensWithin
  <2>6. CASE f \in a3
    BY <2>6, ReachesWithin DEF Frame
  <2> QED
    BY <2>2, <2>3, <2>4, <2>5, <2>6
<1>3. CASE said.part = "opening"
  BY <1>3, ReachesWithin DEF Anthropic, Frame
<1>4. CASE said.part = "message_stop"
  BY <1>4, ReachesWithin DEF Anthropic, Frame
<1>5. CASE said.part \notin {"opening", "body", "message_stop"}
  BY <1>5 DEF Anthropic
<1> QED
  BY <1>2, <1>3, <1>4, <1>5

LEMMA OllamaWithin ==
    ASSUME said \in Said, Within(said), NEW f \in Ollama
    PROVE  Within(f.next)
<1> DEFINE opened(k) == OpenedUse(k, Whole(k))
           use(k) == Use(None, None, Whole(k))
           uses(m) == [n \in 1..m |-> opened([l \in 1..m |-> Fresh + l - 1][n])]
           items(m) == [n \in 1..m |-> use([l \in 1..m |-> Fresh + l - 1][n])]
<1>1. Len(said.uses) \in Nat /\ Fresh \in Nat
  <2>1. Len(said.uses) \in Nat
    BY SaidFields
  <2> QED
    BY <2>1 DEF Fresh
<1>2. \/ f \in SaysText
      \/ \E m \in 1..2 : m <= Room /\ f.next = OpensUses(uses(m))
      \/ f.next = Reaches("complete")
  <2>1. \/ f \in SaysText
        \/ \E m \in 1..2 : m <= Room /\ f = Frame(items(m), OpensUses(uses(m)))
        \/ f = Frame(<<Stop, Usage(Spent[1], Spent[2])>>, Reaches("complete"))
    BY DEF Ollama, If
  <2> HIDE DEF uses, items
  <2> QED
    BY <2>1 DEF Frame
<1>3. ASSUME NEW m \in 1..2, m <= Room, f.next = OpensUses(uses(m))
      PROVE  Within(f.next)
  <2>1. ASSUME NEW n \in 1..m PROVE opened([l \in 1..m |-> Fresh + l - 1][n]) \in UseSaid
    <3> DEFINE k == Fresh + n - 1
    <3>1. [l \in 1..m |-> Fresh + l - 1][n] = k
      OBVIOUS
    <3>2. k \in Nat /\ k - 1 \in Nat
      BY <1>1, <1>3 DEF Fresh
    <3> HIDE DEF k
    <3>3. Whole(k) \in Arguments
      BY <3>2, PartsAre
    <3>4. opened(k) \in UseSaid
      BY <3>2, <3>3 DEF OpenedUse, UseSaid
    <3> QED
      BY <3>1, <3>4
  <2> DEFINE u == uses(m)
  <2> HIDE DEF opened
  <2>2. u \in [1..m -> UseSaid]
    BY <2>1
  <2> HIDE DEF uses, u
  <2>3. u \in Seq(UseSaid) /\ Len(u) = m
    BY <1>3, <2>2
  <2>4. Within(OpensUses(u))
    BY <1>3, <2>3, OpensWithin
  <2> QED
    BY <1>3, <2>4 DEF u
<1> QED
  BY <1>2, <1>3, TextWithin, ReachesWithin

LEMMA FramesWithin ==
    ASSUME said \in Said, Within(said), NEW f \in Frames
    PROVE  Within(f.next)
  BY OpenAiWithin, AnthropicWithin, OllamaWithin DEF Frames

(* What is answered is gathered before, so it has the types of what is gathered. *)
LEMMA FinalizedTyped ==
    ASSUME NEW g \in Gathered
    PROVE  Finalized(g).texts \in Seq(Nat) /\ Finalized(g).usage \in Seq(Nat)
<1>1. Finalized(g).texts = g.texts /\ Finalized(g).usage = g.usage
  BY DEF Finalized
<1>2. g.texts \in Seq(Nat) /\ g.usage \in Nat \X Nat
  BY GatheredFields
<1>3. g.usage \in Seq(Nat)
  <2>1. PICK i \in Nat, j \in Nat : g.usage = <<i, j>>
    BY <1>2
  <2> QED
    BY <2>1
<1> QED
  BY <1>1, <1>2, <1>3

LEMMA FailsWithin ==
    ASSUME StrmInv, StrmBounds, streaming = "reading", Fails
    PROVE  /\ attempt' \in 0..MaxRetries /\ streaming' \in {"salvaged", "failed"}
           /\ reply'.texts \in Seq(Nat) /\ reply'.usage \in Seq(Nat)
<1>1. gathered \in Gathered
  BY StoryNow, TextsAre
<1>2. Finalized(gathered).texts \in Seq(Nat) /\ Finalized(gathered).usage \in Seq(Nat)
  BY <1>1, FinalizedTyped
<1> QED
  BY <1>2 DEF Fails, StrmBounds

LEMMA HandlesWithin ==
    ASSUME StrmInv, StrmBounds, streaming = "reading", NEW bytes, Handles(bytes)
    PROVE  /\ attempt' \in 0..MaxRetries /\ streaming' \in {"reading", "salvaged", "failed"}
           /\ reply'.texts \in Seq(Nat) /\ reply'.usage \in Seq(Nat)
<1>1. CASE IsFrame(bytes)
  BY <1>1 DEF Handles, StrmBounds
<1>2. CASE ~IsFrame(bytes)
  BY <1>2, FailsWithin DEF Handles
<1> QED
  BY <1>1, <1>2

LEMMA StrmStepBounds ==
    ASSUME StrmInv, StrmBounds, [StrmNext]_strmVars
    PROVE  StrmBounds'
<1>n. 0 \in 0..MaxRetries /\ Within(NothingSaid) /\ Len(<<>>) <= MaxBuffer
  <2>1. NothingSaid.texts = 0 /\ NothingSaid.uses = <<>> /\ NothingSaid.noise = 0 /\ Len(<<>>) = 0
    BY DEF NothingSaid
  <2> QED
    BY <2>1, StreamBounds DEF Within
<1>r. ASSUME streaming = "reading"
      PROVE  /\ reader \in ReaderType /\ wire \in WireType /\ said \in Said
             /\ reader.buffer \in Seq(Byte) /\ wire.bytes \in Seq(Byte)
  <2>1. reader \in ReaderType /\ wire \in WireType /\ SaidOK(said)
    BY <1>r, StoryNow DEF Story
  <2> QED
    BY <2>1, ReaderFields, WireFields DEF SaidOK
<1>1. CASE UNCHANGED strmVars
  BY <1>1 DEF strmVars, StrmBounds, Within
<1>2. CASE Established
  BY <1>2, <1>n DEF Established, StrmBounds, NothingRead, Within
<1>3. ASSUME NEW e, Refused(e) PROVE StrmBounds'
  <2>1. attempt < MaxRetries => attempt + 1 \in 0..MaxRetries
    BY StreamBounds DEF StrmBounds
  <2>2. attempt' \in 0..MaxRetries /\ streaming' \in {"asking", "failed"}
    BY <1>3, <2>1 DEF Refused, StrmBounds
  <2> QED
    BY <1>3, <2>2 DEF Refused, StrmBounds, Within
<1>4. CASE ProviderSends
  <2>1. PICK f \in Frames, mark \in {<<Mark>>, <<>>} :
           said' = f.next /\ wire' = [wire EXCEPT !.bytes = @ \o Halves(f.items) \o mark]
    BY <1>4, Zenon DEF ProviderSends, If
  <2>2. wire'.end = wire.end
    BY <1>4, <1>r, <2>1 DEF ProviderSends, WireType
  <2>3. Within(f.next)
    BY <1>4, <1>r, FramesWithin DEF ProviderSends, StrmBounds
  <2>4. Within(said')
    BY <2>1, <2>3
  <2> QED
    BY <1>4, <2>2, <2>4 DEF ProviderSends, StrmBounds, Within
<1>5. CASE ProviderIdles
  <2>1. /\ said' = [said EXCEPT !.noise = @ + 1] /\ said.noise < MaxNoise
        /\ wire' = [wire EXCEPT !.bytes = @ \o Idle]
    BY <1>5 DEF ProviderIdles
  <2>2. wire'.end = wire.end
    BY <1>5, <1>r, <2>1 DEF ProviderIdles, WireType
  <2>3. said.noise + 1 \in 0..MaxNoise
    BY <2>1, StreamBounds DEF StrmBounds, Within
  <2>4. said'.texts = said.texts /\ said'.uses = said.uses /\ said'.noise = said.noise + 1
    BY <1>5, <1>r, <2>1 DEF ProviderIdles, Said
  <2>5. Within(said')
    BY <2>3, <2>4 DEF StrmBounds, Within
  <2> QED
    BY <1>5, <2>2, <2>5 DEF ProviderIdles, StrmBounds, Within
<1>6. CASE ConnectionEnds
  <2>1. wire'.end \in {"closed", "broken"}
    BY <1>6 DEF ConnectionEnds
  <2> QED
    BY <1>6, <2>1 DEF ConnectionEnds, StrmBounds, Within
<1>7. CASE Cut
  <2> DEFINE m == Min(FrameEnds)
             rest == SubSeq(reader.buffer, m + 1, Len(reader.buffer))
             bytes == SubSeq(reader.buffer, 1, m - 1)
  <2>1. streaming = "reading" /\ UNCHANGED <<provider, said, wire>>
    BY <1>7 DEF Cut
  <2>2. /\ reader' = [reader EXCEPT !.buffer = rest, !.pull = bytes = <<>>]
        /\ Handles(bytes) \/ UNCHANGED <<attempt, streaming, gathered, shown, reply>>
    BY <1>7 DEF Cut
  <2>3. /\ attempt' \in 0..MaxRetries /\ streaming' \in {"reading", "salvaged", "failed"}
        /\ reply'.texts \in Seq(Nat) /\ reply'.usage \in Seq(Nat)
    <3> HIDE DEF bytes
    <3> QED
      BY <2>1, <2>2, HandlesWithin DEF StrmBounds
  <2>4. m \in Nat
    <3>1. FrameEnds # {} /\ FrameEnds = {n \in DOMAIN reader.buffer : reader.buffer[n] = Mark}
      BY <1>7 DEF Cut, Cuts, FrameEnds
    <3>2. DOMAIN reader.buffer = 1..Len(reader.buffer)
      BY <1>r, <2>1, LenProperties
    <3>3. FrameEnds \subseteq Nat
      BY <3>1, <3>2
    <3> HIDE DEF FrameEnds
    <3>4. m \in FrameEnds
      BY <3>1, <3>3, MinIs
    <3> QED
      BY <3>3, <3>4
  <2>5. Len(rest) <= MaxBuffer
    <3>1. \A b \in Seq(Byte), n \in Nat : Len(SubSeq(b, n + 1, Len(b))) <= Len(b)
      OBVIOUS
    <3>2. Len(rest) <= Len(reader.buffer) /\ rest \in Seq(Byte)
      BY <1>r, <2>1, <2>4, <3>1
    <3>3. Len(reader.buffer) \in Nat /\ Len(rest) \in Nat /\ Len(reader.buffer) <= MaxBuffer
      BY <1>r, <2>1, <3>2 DEF StrmBounds
    <3> QED
      BY <3>2, <3>3, StreamBounds
  <2> HIDE DEF rest, bytes
  <2>6. reader'.buffer = rest
    BY <1>r, <2>1, <2>2 DEF ReaderType
  <2> QED
    BY <2>1, <2>3, <2>5, <2>6 DEF StrmBounds, Within
<1>8. ASSUME NEW n \in ChunkSizes, Read(n) PROVE StrmBounds'
  <2>1. streaming = "reading" /\ n <= Len(wire.bytes) /\ UNCHANGED <<provider, said, gathered, shown>>
    BY <1>8 DEF Read
  <2>2. CASE Len(reader.buffer) + n > MaxBuffer
    <3>1. Fails /\ UNCHANGED <<wire, reader>>
      BY <1>8, <2>2 DEF Read
    <3>2. /\ attempt' \in 0..MaxRetries /\ streaming' \in {"salvaged", "failed"}
          /\ reply'.texts \in Seq(Nat) /\ reply'.usage \in Seq(Nat)
      BY <2>1, <3>1, FailsWithin
    <3> QED
      BY <2>1, <3>1, <3>2 DEF StrmBounds, Within
  <2>3. CASE ~(Len(reader.buffer) + n > MaxBuffer)
    <3> DEFINE b == reader.buffer \o SubSeq(wire.bytes, 1, n)
    <3>1. /\ reader' = [reader EXCEPT !.buffer = b, !.pull = FALSE]
          /\ wire' = [wire EXCEPT !.bytes = SubSeq(@, n + 1, Len(@))]
          /\ UNCHANGED <<attempt, streaming, reply>>
      BY <1>8, <2>3 DEF Read
    <3>2. n \in Nat
      BY StreamsAssumption
    <3>3. Len(b) = Len(reader.buffer) + n
      <4>1. SubSeq(wire.bytes, 1, n) \in Seq(Byte) /\ Len(SubSeq(wire.bytes, 1, n)) = n
        BY <1>r, <2>1, <3>2
      <4> QED
        BY <1>r, <2>1, <4>1
    <3> HIDE DEF b
    <3>4. Len(b) <= MaxBuffer
      <4>1. \A a, c, d \in Nat : ~(a + c > d) => a + c <= d
        OBVIOUS
      <4>2. Len(reader.buffer) \in Nat
        BY <1>r, <2>1
      <4> QED
        BY <2>3, <3>2, <3>3, <4>1, <4>2, StreamBounds
    <3>5. reader'.buffer = b /\ wire'.end = wire.end
      BY <1>r, <2>1, <3>1 DEF ReaderType, WireType
    <3> QED
      BY <2>1, <3>1, <3>4, <3>5 DEF StrmBounds, Within
  <2> QED
    BY <2>2, <2>3
<1>9. CASE ReadEnd
  <2>1. streaming = "reading" /\ UNCHANGED <<provider, said, wire>>
    BY <1>9 DEF ReadEnd
  <2>2. CASE wire.end = "broken"
    <3>1. Fails /\ UNCHANGED reader
      BY <1>9, <2>2 DEF ReadEnd
    <3>2. /\ attempt' \in 0..MaxRetries /\ streaming' \in {"salvaged", "failed"}
          /\ reply'.texts \in Seq(Nat) /\ reply'.usage \in Seq(Nat)
      BY <2>1, <3>1, FailsWithin
    <3> QED
      BY <2>1, <3>1, <3>2 DEF StrmBounds, Within
  <2>3. CASE wire.end # "broken"
    <3>1. /\ reader' = [reader EXCEPT !.done = TRUE, !.pull = FALSE]
          /\ UNCHANGED <<attempt, streaming, reply>>
      BY <1>9, <2>3 DEF ReadEnd
    <3>2. reader'.buffer = reader.buffer
      BY <1>r, <2>1, <3>1 DEF ReaderType
    <3> QED
      BY <2>1, <3>1, <3>2 DEF StrmBounds, Within
  <2> QED
    BY <2>2, <2>3
<1>10. CASE Flush
  <2>1. streaming = "reading" /\ UNCHANGED <<provider, said, wire>>
    BY <1>10 DEF Flush
  <2>2. PICK bytes : bytes = Trimmed(reader.buffer)
    OBVIOUS
  <2>3. CASE HasData(bytes)
    <3>1. reader' = [reader EXCEPT !.buffer = <<>>] /\ Handles(bytes)
      BY <1>10, <2>2, <2>3 DEF Flush
    <3>2. reader'.buffer = <<>>
      BY <1>r, <2>1, <3>1 DEF ReaderType
    <3>3. /\ attempt' \in 0..MaxRetries /\ streaming' \in {"reading", "salvaged", "failed"}
          /\ reply'.texts \in Seq(Nat) /\ reply'.usage \in Seq(Nat)
      BY <2>1, <3>1, HandlesWithin
    <3> QED
      BY <1>n, <2>1, <3>2, <3>3 DEF StrmBounds, Within
  <2>4. CASE ~HasData(bytes)
    <3>1. /\ streaming' = "finished" /\ reply' = Finalized(gathered)
          /\ UNCHANGED <<reader, attempt, gathered, shown>>
      BY <1>10, <2>2, <2>4 DEF Flush
    <3>2. gathered \in Gathered
      BY <2>1, StoryNow, TextsAre
    <3>3. reply'.texts \in Seq(Nat) /\ reply'.usage \in Seq(Nat)
      BY <3>1, <3>2, FinalizedTyped
    <3> QED
      BY <2>1, <3>1, <3>3 DEF StrmBounds, Within
  <2> QED
    BY <2>3, <2>4
<1> QED
  BY <1>1, <1>2, <1>3, <1>4, <1>5, <1>6, <1>7, <1>8, <1>9, <1>10 DEF StrmNext

(* The stream's variables keep their types: no attempt is made after the last one that  *)
(* RetryConfig allows, and no reader holds more than its limit (sse.rs, ndjson.rs).      *)
THEOREM StreamsTyped == StrmSpec => []StrmTypeOK
<1>1. StrmInit => StrmBounds
  <2> SUFFICES ASSUME StrmInit PROVE StrmBounds
    OBVIOUS
  <2>1. NothingSaid.texts = 0 /\ NothingSaid.uses = <<>> /\ NothingSaid.noise = 0 /\ Len(<<>>) = 0
    BY DEF NothingSaid
  <2>2. <<>> \in Seq(Nat) /\ <<0, 0>> \in Seq(Nat)
    OBVIOUS
  <2> QED
    BY <2>1, <2>2, StreamBounds DEF StrmInit, StrmBounds, Within, NothingRead, NoReply
<1>2. StrmInv /\ StrmBounds /\ [StrmNext]_strmVars => StrmBounds'
  BY StrmStepBounds
<1>3. StrmInv /\ StrmBounds => StrmTypeOK
  <2> SUFFICES ASSUME StrmInv, StrmBounds PROVE StrmTypeOK
    OBVIOUS
  <2>1. shown \in Seq(Nat)
    <3>1. PICK t \in Nat : shown = Count(t)
      BY DEF StrmInv
    <3> QED
      BY <3>1, CountIs
  <2>2. Len(said.uses) <= MaxUses
    BY StreamBounds DEF StrmBounds, Within
  <2> QED
    BY <2>1, <2>2 DEF StrmBounds, Within, StrmTypeOK
<1> QED
  BY <1>1, <1>2, <1>3, StrmInvariant, PTL DEF StrmSpec
================================================================================
