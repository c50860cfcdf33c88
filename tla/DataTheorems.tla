---------------------------- MODULE DataTheorems ----------------------------
(***************************************************************************)
(* Facts about data that several proofs need: sums over finite sets,       *)
(* sorting by keys, and what the router makes of a set of models.          *)
(*                                                                         *)
(* Nothing here is about a state.  What would be an induction is an        *)
(* argument about a least counterexample, found by the well-foundedness of *)
(* the order of the naturals or of strict inclusion.                       *)
(***************************************************************************)
EXTENDS Routing, FiniteSetTheorems, SequenceTheorems, FunctionTheorems,
        WellFoundedInduction, TLAPS

-----------------------------------------------------------------------------
(* Induction, for a set rather than an operator: on numbers ...             *)
LEMMA NumbersInduction ==
  ASSUME NEW G, 0 \in G, \A n \in Nat : n \in G => n + 1 \in G
  PROVE  Nat \subseteq G
<1> DEFINE Bad == {n \in Nat : n \notin G}
<1>1. SUFFICES ASSUME Bad # {} PROVE FALSE
  OBVIOUS
<1>2. PICK n \in Bad : \A k \in Bad : ~(<<k, n>> \in OpToRel(<, Nat))
  <2>1. Bad \subseteq Nat
    OBVIOUS
  <2>. HIDE DEF Bad
  <2>. QED  BY <1>1, <2>1, WFMin, NatLessThanWellFounded
<1>3. n # 0 /\ n \in Nat
  BY <1>2
<1>4. n - 1 \in Nat /\ n - 1 < n /\ (n - 1) + 1 = n
  BY <1>3
<1>5. n - 1 \notin Bad
  BY <1>2, <1>4 DEF OpToRel
<1>. QED  BY <1>2, <1>4, <1>5

(* ... up to a number, ... *)
LEMMA InductionUpTo ==
  ASSUME NEW n \in Nat, NEW G, 0 \in G, \A k \in 1..n : k - 1 \in G => k \in G
  PROVE  0..n \subseteq G
<1> DEFINE H == {k \in Nat : k <= n => k \in G}
<1>1. 0 \in H
  OBVIOUS
<1>2. ASSUME NEW k \in Nat, k \in H PROVE k + 1 \in H
  <2>1. k + 1 <= n => k \in G /\ k + 1 \in 1..n /\ (k + 1) - 1 = k
    BY <1>2
  <2>. QED  BY <2>1
<1>. HIDE DEF H
<1>3. Nat \subseteq H
  BY <1>1, <1>2, NumbersInduction
<1>. QED  BY <1>3 DEF H

(* ... and on sequences, which grow at their head or at their end.          *)
LEMMA HeadInduction ==
  ASSUME NEW S, NEW G, <<>> \in G, \A s \in Seq(S), e \in S : s \in G => <<e>> \o s \in G
  PROVE  Seq(S) \subseteq G
<1> DEFINE H == {n \in Nat : \A s \in Seq(S) : Len(s) = n => s \in G}
<1>1. 0 \in H
  BY EmptySeq
<1>2. ASSUME NEW n \in Nat, n \in H PROVE n + 1 \in H
  <2>. SUFFICES ASSUME NEW s \in Seq(S), Len(s) = n + 1 PROVE s \in G
    OBVIOUS
  <2>1. /\ Head(s) \in S /\ Tail(s) \in Seq(S) /\ Len(Tail(s)) = n
        /\ s = <<Head(s)>> \o Tail(s)
    OBVIOUS
  <2>2. Tail(s) \in G
    BY <1>2, <2>1
  <2>. QED  BY <2>1, <2>2
<1>. HIDE DEF H
<1>3. Nat \subseteq H
  BY <1>1, <1>2, NumbersInduction
<1>. QED  BY <1>3, LenProperties DEF H

LEMMA EndInduction ==
  ASSUME NEW S, NEW G, <<>> \in G, \A s \in Seq(S), e \in S : s \in G => Append(s, e) \in G
  PROVE  Seq(S) \subseteq G
<1> DEFINE H == {n \in Nat : \A s \in Seq(S) : Len(s) = n => s \in G}
<1>1. 0 \in H
  BY EmptySeq
<1>2. ASSUME NEW n \in Nat, n \in H PROVE n + 1 \in H
  <2>. SUFFICES ASSUME NEW s \in Seq(S), Len(s) = n + 1 PROVE s \in G
    OBVIOUS
  <2>1. PICK t \in Seq(S), e \in S : s = Append(t, e)
    BY SequenceEmptyOrAppend, s # <<>>
  <2>2. Len(t) = n
    BY <2>1
  <2>3. t \in G
    BY <1>2, <2>2
  <2>. QED  BY <2>1, <2>3
<1>. HIDE DEF H
<1>3. Nat \subseteq H
  BY <1>1, <1>2, NumbersInduction
<1>. QED  BY <1>3, LenProperties DEF H

(* A recursion over the numbers up to n has a solution, ... *)
Solves(g, n, V, a, step) ==
  g \in [0..n -> V] /\ g[0] = a /\ \A k \in 1..n : g[k] = step[<<k, g[k - 1]>>]

LEMMA Recursion ==
  ASSUME NEW n \in Nat, NEW V, NEW a \in V, NEW step \in [(1..n) \X V -> V]
  PROVE  \E g : Solves(g, n, V, a, step)
<1> DEFINE G == {k \in Nat : k <= n => \E g \in [0..k -> V] :
                   g[0] = a /\ \A i \in 1..k : g[i] = step[<<i, g[i - 1]>>]}
<1>1. 0 \in G
  <2>1. [i \in 0..0 |-> a] \in [0..0 -> V] /\ [i \in 0..0 |-> a][0] = a /\ 1..0 = {}
    OBVIOUS
  <2>. QED  BY <2>1
<1>2. ASSUME NEW k \in Nat, k \in G PROVE k + 1 \in G
  <2>. SUFFICES ASSUME k + 1 <= n
                PROVE  \E g \in [0..k + 1 -> V] :
                         g[0] = a /\ \A i \in 1..k + 1 : g[i] = step[<<i, g[i - 1]>>]
    OBVIOUS
  <2>1. PICK h \in [0..k -> V] : h[0] = a /\ \A i \in 1..k : h[i] = step[<<i, h[i - 1]>>]
    BY <1>2
  <2> DEFINE g == [i \in 0..k + 1 |-> IF i = k + 1 THEN step[<<i, h[i - 1]>>] ELSE h[i]]
  <2>2. k + 1 \in 1..n /\ h[k] \in V /\ (k + 1) - 1 = k
    BY <2>1
  <2>3. step[<<k + 1, h[k]>>] \in V
    BY <2>2
  <2>4. g \in [0..k + 1 -> V]
    BY <2>1, <2>2, <2>3
  <2>5. g[0] = a
    BY <2>1
  <2>6. ASSUME NEW i \in 1..k + 1 PROVE g[i] = step[<<i, g[i - 1]>>]
    <3>1. i \in 0..k + 1 /\ i - 1 \in 0..k + 1 /\ i - 1 # k + 1 /\ (i # k + 1 => i \in 1..k)
      OBVIOUS
    <3>2. g[i - 1] = h[i - 1]
      BY <3>1
    <3>3. i = k + 1 => g[i] = step[<<i, h[i - 1]>>]
      BY <3>1
    <3>4. i # k + 1 => g[i] = h[i] /\ h[i] = step[<<i, h[i - 1]>>]
      BY <2>1, <3>1
    <3>. HIDE DEF g
    <3>. QED  BY <3>2, <3>3, <3>4
  <2>. HIDE DEF g
  <2>. QED  BY <2>4, <2>5, <2>6
<1>. HIDE DEF G
<1>3. n \in G
  BY <1>1, <1>2, NumbersInduction
<1>. QED  BY <1>3 DEF G, Solves

LEMMA JoinsAt ==
  ASSUME NEW T, NEW a \in Seq(T), NEW b \in Seq(T)
  PROVE  /\ a \o b \in Seq(T) /\ Len(a \o b) = Len(a) + Len(b)
         /\ \A i \in 1..Len(a) : (a \o b)[i] = a[i]
         /\ \A i \in 1..Len(b) : (a \o b)[Len(a) + i] = b[i]
  OBVIOUS

(* Reversing puts the end in front. *)
LEMMA ReverseJoin ==
  ASSUME NEW S, NEW s \in Seq(S), NEW t \in Seq(S)
  PROVE  /\ Reverse(s) \in Seq(S) /\ Len(Reverse(s)) = Len(s)
         /\ Reverse(s \o t) = Reverse(t) \o Reverse(s)
<1>1. /\ Len(s) \in Nat /\ Len(t) \in Nat /\ s \o t \in Seq(S) /\ Len(s \o t) = Len(s) + Len(t)
      /\ \A i \in 1..Len(s) : (s \o t)[i] = s[i] /\ s[i] \in S
      /\ \A i \in 1..Len(t) : (s \o t)[Len(s) + i] = t[i] /\ t[i] \in S
  OBVIOUS
<1>2. /\ Reverse(s) \in Seq(S) /\ Len(Reverse(s)) = Len(s)
      /\ \A i \in 1..Len(s) : Reverse(s)[i] = s[Len(s) - i + 1]
  BY <1>1 DEF Reverse
<1>3. /\ Reverse(t) \in Seq(S) /\ Len(Reverse(t)) = Len(t)
      /\ \A i \in 1..Len(t) : Reverse(t)[i] = t[Len(t) - i + 1]
  BY <1>1 DEF Reverse
<1>4. /\ Reverse(s \o t) \in Seq(S) /\ Len(Reverse(s \o t)) = Len(s) + Len(t)
      /\ \A i \in 1..Len(s) + Len(t) : Reverse(s \o t)[i] = (s \o t)[Len(s) + Len(t) - i + 1]
  <2>1. \A i \in 1..Len(s) + Len(t) : (s \o t)[i] \in S
    BY <1>1
  <2>. QED  BY <1>1, <2>1 DEF Reverse
<1>5. /\ Reverse(t) \o Reverse(s) \in Seq(S)
      /\ Len(Reverse(t) \o Reverse(s)) = Len(s) + Len(t)
      /\ \A i \in 1..Len(t) : (Reverse(t) \o Reverse(s))[i] = Reverse(t)[i]
      /\ \A i \in 1..Len(s) : (Reverse(t) \o Reverse(s))[Len(t) + i] = Reverse(s)[i]
  <2>. DEFINE u == Reverse(t) v == Reverse(s)
  <2>1. u \in Seq(S) /\ v \in Seq(S) /\ Len(u) = Len(t) /\ Len(v) = Len(s)
    BY <1>2, <1>3
  <2>. HIDE DEF u, v
  <2>2. u \o v \in Seq(S) /\ Len(u \o v) = Len(u) + Len(v)
    BY <2>1, JoinsAt
  <2>4. \A i \in 1..Len(u) : (u \o v)[i] = u[i]
    BY <2>1, JoinsAt
  <2>5. \A i \in 1..Len(v) : (u \o v)[Len(u) + i] = v[i]
    BY <2>1, JoinsAt
  <2>3. Len(t) + Len(s) = Len(s) + Len(t)
    BY <1>1
  <2>. QED  BY <2>1, <2>2, <2>3, <2>4, <2>5 DEF u, v
<1>6. ASSUME NEW i \in 1..Len(s) + Len(t)
      PROVE  Reverse(s \o t)[i] = (Reverse(t) \o Reverse(s))[i]
  <2>1. CASE i <= Len(t)
    <3>1. /\ i \in 1..Len(t) /\ Len(t) - i + 1 \in 1..Len(t)
          /\ Len(s) + Len(t) - i + 1 = Len(s) + (Len(t) - i + 1)
      BY <1>1, <2>1
    <3>. QED  BY <1>1, <1>3, <1>4, <1>5, <3>1
  <2>2. CASE i > Len(t)
    <3>1. PICK j \in 1..Len(s) : i = Len(t) + j
      <4>1. i - Len(t) \in 1..Len(s) /\ i = Len(t) + (i - Len(t))
        BY <1>1, <2>2
      <4>. QED  BY <4>1
    <3>2. Len(s) + Len(t) - i + 1 = Len(s) - j + 1 /\ Len(s) - j + 1 \in 1..Len(s)
      BY <1>1, <3>1
    <3>. QED  BY <1>1, <1>2, <1>4, <1>5, <3>1, <3>2
  <2>3. i <= Len(t) \/ i > Len(t)
    BY <1>1
  <2>. QED  BY <2>1, <2>2, <2>3
<1>. QED  BY <1>2, <1>4, <1>5, <1>6, SeqEqual

-----------------------------------------------------------------------------
(* MapThenSumSet as a function: the sums of f over the subsets of S.       *)
Adds(g, S, f) ==
  /\ g \in [SUBSET S -> Int]
  /\ g = [s \in SUBSET S |->
            IF s = {} THEN 0
            ELSE f[CHOOSE x \in s : TRUE] + g[s \ {CHOOSE x \in s : TRUE}]]

(* A collection of finite sets has a least one.                            *)
LEMMA Smaller ==
  ASSUME NEW S, IsFiniteSet(S), NEW T, T \subseteq SUBSET S, T # {}
  PROVE  \E s \in T : \A t \in T : t \subseteq s => t = s
<1>1. IsWellFoundedOn(StrictSubsetOrdering(S), SUBSET S)
  BY FS_StrictSubsetOrderingWellFounded, FS_FiniteSubsetsOfFinite
<1>2. \E s \in T : \A t \in T : ~(<<t, s>> \in StrictSubsetOrdering(S))
  BY <1>1, WFMin
<1>. QED  BY <1>2 DEF StrictSubsetOrdering

(* Two such functions agree wherever both are defined, ... *)
LEMMA AddsUnique ==
  ASSUME NEW S, IsFiniteSet(S), NEW f, NEW A \in SUBSET S, NEW B \in SUBSET S,
         NEW g, Adds(g, A, f), NEW h, Adds(h, B, f)
  PROVE  \A s \in SUBSET (A \cap B) : g[s] = h[s]
<1> DEFINE Bad == {s \in SUBSET (A \cap B) : g[s] # h[s]}
<1>1. SUFFICES ASSUME Bad # {} PROVE FALSE
  OBVIOUS
<1>2. PICK s \in Bad : \A t \in Bad : t \subseteq s => t = s
  <2>1. Bad \subseteq SUBSET S
    OBVIOUS
  <2>. HIDE DEF Bad
  <2>. QED  BY <1>1, <2>1, Smaller
<1>3. CASE s = {}
  BY <1>3 DEF Adds
<1>4. CASE s # {}
  <2> DEFINE c == CHOOSE x \in s : TRUE
  <2>1. c \in s
    BY <1>4
  <2>2. s \ {c} \in SUBSET (A \cap B) /\ s \ {c} # s /\ s \ {c} \subseteq s
    BY <2>1
  <2>3. g[s \ {c}] = h[s \ {c}]
    BY <1>2, <2>2
  <2>4. g[s] = f[c] + g[s \ {c}] /\ h[s] = f[c] + h[s \ {c}]
    BY <1>2, <1>4 DEF Adds
  <2>. QED  BY <2>3, <2>4
<1>. QED  BY <1>3, <1>4

(* ... there is one on every finite set, ... *)
LEMMA AddsExists ==
  ASSUME NEW S, IsFiniteSet(S), NEW f, \A x \in S : f[x] \in Int
  PROVE  \E g : Adds(g, S, f)
<1> DEFINE Bad == {A \in SUBSET S : ~\E g : Adds(g, A, f)}
<1>1. SUFFICES ASSUME Bad # {} PROVE FALSE
  OBVIOUS
<1>2. PICK A \in Bad : \A t \in Bad : t \subseteq A => t = A
  <2>1. Bad \subseteq SUBSET S
    OBVIOUS
  <2>. HIDE DEF Bad
  <2>. QED  BY <1>1, <2>1, Smaller
<1> DEFINE G(t) == CHOOSE g : Adds(g, t, f)
           c(t) == CHOOSE x \in t : TRUE
           Sum(t) == IF t = {} THEN 0 ELSE f[c(t)] + G(t \ {c(t)})[t \ {c(t)}]
           g0 == [t \in SUBSET A |-> Sum(t)]
<1>3. \A t \in SUBSET A : t # A => Adds(G(t), t, f)
  BY <1>2
<1>4. \A t \in SUBSET A : t # {} => c(t) \in t /\ t \ {c(t)} \in SUBSET A /\ t \ {c(t)} # A
  OBVIOUS
<1>5. \A t \in SUBSET A : Sum(t) \in Int
  <2>. TAKE t \in SUBSET A
  <2>. SUFFICES ASSUME t # {} PROVE Sum(t) \in Int
    <3>. HIDE DEF G, c
    <3>. QED  OBVIOUS
  <2>1. Adds(G(t \ {c(t)}), t \ {c(t)}, f)
    BY <1>3, <1>4
  <2> DEFINE u == t \ {c(t)}
  <2>2. G(u)[u] \in Int
    <3>1. u \in SUBSET u
      OBVIOUS
    <3>. HIDE DEF u, G
    <3>. QED  BY <2>1, <3>1 DEF Adds, u
  <2>3. f[c(t)] \in Int
    BY <1>4
  <2>. HIDE DEF G, c
  <2>. QED  BY <2>2, <2>3
<1>6. \A t \in SUBSET A : t # A => G(t)[t] = Sum(t)
  <2>. SUFFICES ASSUME NEW t \in SUBSET A, t # A PROVE G(t)[t] = Sum(t)
    OBVIOUS
  <2>1. Adds(G(t), t, f)
    BY <1>3
  <2>2. CASE t = {}
    <3>. HIDE DEF G
    <3>. QED  BY <2>1, <2>2 DEF Adds
  <2>3. CASE t # {}
    <3> DEFINE u == t \ {c(t)}
    <3>1. Adds(G(u), u, f) /\ u \in SUBSET t
      BY <1>3, <1>4, <2>3
    <3>2. G(t)[u] = G(u)[u]
      <4>1. \A s \in SUBSET (t \cap u) : G(t)[s] = G(u)[s]
        <5>. HIDE DEF G, u
        <5>1. t \in SUBSET S /\ u \in SUBSET S
          BY <3>1
        <5>. QED  BY <2>1, <3>1, <5>1, AddsUnique
      <4>. HIDE DEF G
      <4>. QED  BY <4>1, <3>1
    <3>3. G(t)[t] = f[c(t)] + G(t)[u]
      <4>1. t \in SUBSET t
        OBVIOUS
      <4>. HIDE DEF G
      <4>. QED  BY <2>1, <2>3, <4>1 DEF Adds
    <3>. HIDE DEF G, c
    <3>. QED  BY <3>2, <3>3, <2>3
  <2>. QED  BY <2>2, <2>3
<1>7. Adds(g0, A, f)
  <2>1. g0 \in [SUBSET A -> Int]
    <3>. HIDE DEF Sum
    <3>. QED  BY <1>5
  <2>2. \A t \in SUBSET A :
          Sum(t) = IF t = {} THEN 0 ELSE f[c(t)] + g0[t \ {c(t)}]
    <3>. TAKE t \in SUBSET A
    <3>. SUFFICES ASSUME t # {}
                  PROVE  Sum(t) = f[c(t)] + g0[t \ {c(t)}]
      <4>. HIDE DEF G, c, g0
      <4>. QED  OBVIOUS
    <3> DEFINE u == t \ {c(t)}
    <3>1. u \in SUBSET A /\ u # A
      BY <1>4
    <3>2. g0[u] = Sum(u)
      <4>. HIDE DEF Sum, u
      <4>. QED  BY <3>1
    <3>3. G(u)[u] = Sum(u)
      <4>. HIDE DEF G, Sum, u
      <4>. QED  BY <3>1, <1>6
    <3>4. Sum(t) = f[c(t)] + G(u)[u]
      <4>. HIDE DEF G, c
      <4>. QED  OBVIOUS
    <3>. HIDE DEF G, Sum, g0, c
    <3>. QED  BY <3>2, <3>3, <3>4
  <2>. HIDE DEF Sum
  <2>. QED  BY <2>1, <2>2 DEF Adds
<1>. QED  BY <1>2, <1>7

(* ... and its recursive equation alone determines it. *)
LEMMA AddsIs ==
  ASSUME NEW S, IsFiniteSet(S), NEW f, \A x \in S : f[x] \in Int, NEW g,
         g = [s \in SUBSET S |->
                IF s = {} THEN 0
                ELSE f[CHOOSE x \in s : TRUE] + g[s \ {CHOOSE x \in s : TRUE}]]
  PROVE  Adds(g, S, f)
<1>1. PICK h : Adds(h, S, f)
  BY AddsExists
<1>2. \A s \in SUBSET S : s # {} => (CHOOSE x \in s : TRUE) \in s
  OBVIOUS
<1> DEFINE Bad == {s \in SUBSET S : g[s] # h[s]}
<1>3. Bad = {}
  <2>1. SUFFICES ASSUME Bad # {} PROVE FALSE
    OBVIOUS
  <2>2. PICK s \in Bad : \A t \in Bad : t \subseteq s => t = s
    <3>1. Bad \subseteq SUBSET S
      OBVIOUS
    <3>. HIDE DEF Bad
    <3>. QED  BY <2>1, <3>1, Smaller
  <2> DEFINE u == s \ {CHOOSE x \in s : TRUE}
  <2>3. s = {} => g[s] = h[s]
    BY <1>1, <2>2 DEF Adds
  <2>4. s # {} => u \in SUBSET S /\ u # s /\ u \subseteq s
    BY <1>2, <2>2
  <2>5. s # {} => g[u] = h[u]
    BY <2>2, <2>4
  <2>6. s # {} => /\ g[s] = f[CHOOSE x \in s : TRUE] + g[u]
                  /\ h[s] = f[CHOOSE x \in s : TRUE] + h[u]
    BY <1>1, <2>2 DEF Adds
  <2>. QED  BY <2>2, <2>3, <2>5, <2>6
<1>4. g = [s \in SUBSET S |-> g[s]] /\ h = [s \in SUBSET S |-> h[s]]
  BY <1>1 DEF Adds
<1>5. g = h
  BY <1>3, <1>4
<1>. QED  BY <1>1, <1>5

(* The sum of the community modules is one of these functions.             *)
LEMMA SumAdds ==
  ASSUME NEW S, IsFiniteSet(S), NEW f, \A x \in S : f[x] \in Int
  PROVE  \E g : Adds(g, S, f) /\ SumOver(S, f) = g[S]
<1> DEFINE Is(g) == g = [s \in SUBSET S |->
            IF s = {} THEN 0
            ELSE f[CHOOSE x \in s : TRUE] + g[s \ {CHOOSE x \in s : TRUE}]]
           it == CHOOSE g : Is(g)
<1>1. Is(it)
  <2>1. PICK h : Adds(h, S, f)
    BY AddsExists
  <2>2. Is(h)
    BY <2>1 DEF Adds
  <2>. HIDE DEF Is
  <2>. QED  BY <2>2
<1>2. SumOver(S, f) = it[S]
  BY DEF SumOver, MapThenSumSet, MapThenFoldSet
<1>3. Adds(it, S, f)
  <2>. HIDE DEF it
  <2>. QED  BY <1>1, AddsIs
<1>. QED  BY <1>2, <1>3

(* Nothing adds up to nothing, and whole numbers to a whole number.        *)
LEMMA SumEmpty ==
  ASSUME NEW f PROVE SumOver({}, f) = 0
<1>1. PICK g : Adds(g, {}, f) /\ SumOver({}, f) = g[{}]
  BY SumAdds, FS_EmptySet
<1>. QED  BY <1>1 DEF Adds

LEMMA SumInt ==
  ASSUME NEW S, IsFiniteSet(S), NEW f, \A x \in S : f[x] \in Int
  PROVE  SumOver(S, f) \in Int
<1>1. PICK g : Adds(g, S, f) /\ SumOver(S, f) = g[S]
  BY SumAdds
<1>. QED  BY <1>1 DEF Adds

(* Any function that adds up the subsets of a larger set agrees.           *)
LEMMA SumIs ==
  ASSUME NEW S, IsFiniteSet(S), NEW f, \A x \in S : f[x] \in Int,
         NEW g, Adds(g, S, f), NEW T \in SUBSET S
  PROVE  SumOver(T, f) = g[T]
<1>1. IsFiniteSet(T) /\ \A x \in T : f[x] \in Int
  BY FS_Subset
<1>2. PICK h : Adds(h, T, f) /\ SumOver(T, f) = h[T]
  BY <1>1, SumAdds
<1>3. S \in SUBSET S /\ T \in SUBSET (S \cap T)
  OBVIOUS
<1>4. \A s \in SUBSET (S \cap T) : g[s] = h[s]
  BY <1>2, <1>3, AddsUnique
<1>. QED  BY <1>2, <1>3, <1>4

(* Whichever element is taken out first.                                   *)
LEMMA SumWithout ==
  ASSUME NEW S, IsFiniteSet(S), NEW f, \A x \in S : f[x] \in Int, NEW e \in S
  PROVE  SumOver(S, f) = f[e] + SumOver(S \ {e}, f)
<1>1. PICK g : Adds(g, S, f)
  BY AddsExists
<1> DEFINE Good(s) == \A x \in s : g[s] = f[x] + g[s \ {x}]
           Bad == {s \in SUBSET S : ~Good(s)}
<1>2. Bad = {}
  <2>1. SUFFICES ASSUME Bad # {} PROVE FALSE
    OBVIOUS
  <2>2. PICK s \in Bad : \A t \in Bad : t \subseteq s => t = s
    <3>1. Bad \subseteq SUBSET S
      OBVIOUS
    <3>. HIDE DEF Bad
    <3>. QED  BY <2>1, <3>1, Smaller
  <2>3. PICK x \in s : g[s] # f[x] + g[s \ {x}]
    BY <2>2
  <2> DEFINE c == CHOOSE y \in s : TRUE
             u == s \ {c}
             v == s \ {x}
             w == s \ {c, x}
  <2>4. c \in s
    BY <2>3
  <2>5. g[s] = f[c] + g[u]
    BY <1>1, <2>2, <2>3 DEF Adds
  <2>. HIDE DEF c
  <2>6. c # x
    BY <2>3, <2>5
  <2>7. /\ u \in SUBSET S /\ u \subseteq s /\ u # s /\ x \in u /\ u \ {x} = w
        /\ v \in SUBSET S /\ v \subseteq s /\ v # s /\ c \in v /\ v \ {c} = w
        /\ w \in SUBSET S
    BY <2>2, <2>4, <2>6
  <2>8. Good(u) /\ Good(v)
    BY <2>2, <2>7
  <2>9. g[u] = f[x] + g[w] /\ g[v] = f[c] + g[w]
    BY <2>7, <2>8
  <2>10. f[x] \in Int /\ f[c] \in Int /\ g[w] \in Int
    BY <1>1, <2>2, <2>3, <2>4, <2>7 DEF Adds
  <2>11. \A i, j, k \in Int : i + (j + k) = j + (i + k)
    OBVIOUS
  <2>. HIDE DEF u, v, w, Good, Bad
  <2>12. g[s] = f[c] + (f[x] + g[w]) /\ f[x] + g[v] = f[x] + (f[c] + g[w])
    BY <2>5, <2>9
  <2>. QED  BY <2>3, <2>10, <2>11, <2>12 DEF v
<1>3. Good(S)
  BY <1>2
<1>4. g[S] = f[e] + g[S \ {e}]
  BY <1>3
<1>5. S \in SUBSET S /\ S \ {e} \in SUBSET S
  OBVIOUS
<1>. QED  BY <1>1, <1>4, <1>5, SumIs

(* Adding up what two functions agree on.                                  *)
LEMMA SumSame ==
  ASSUME NEW S, IsFiniteSet(S), NEW f, \A x \in S : f[x] \in Int,
         NEW h, \A x \in S : h[x] = f[x]
  PROVE  SumOver(S, h) = SumOver(S, f)
<1>1. PICK g : Adds(g, S, f) /\ SumOver(S, f) = g[S]
  BY SumAdds
<1>2. \A s \in SUBSET S : s # {} => (CHOOSE x \in s : TRUE) \in S
  OBVIOUS
<1>3. Adds(g, S, h)
  BY <1>1, <1>2 DEF Adds
<1>4. S \in SUBSET S /\ \A x \in S : h[x] \in Int
  OBVIOUS
<1>. QED  BY <1>1, <1>3, <1>4, SumIs

(* The sum is monotonic in what is added up.                               *)
LEMMA SumBelow ==
  ASSUME NEW S, IsFiniteSet(S), NEW f, \A x \in S : f[x] \in Int,
         NEW h, \A x \in S : h[x] \in Int /\ f[x] <= h[x]
  PROVE  SumOver(S, f) <= SumOver(S, h)
<1>1. PICK g : Adds(g, S, f) /\ SumOver(S, f) = g[S]
  BY SumAdds
<1>2. PICK k : Adds(k, S, h) /\ SumOver(S, h) = k[S]
  BY SumAdds
<1> DEFINE Bad == {s \in SUBSET S : ~(g[s] <= k[s])}
<1>3. Bad = {}
  <2>1. SUFFICES ASSUME Bad # {} PROVE FALSE
    OBVIOUS
  <2>2. PICK s \in Bad : \A t \in Bad : t \subseteq s => t = s
    <3>1. Bad \subseteq SUBSET S
      OBVIOUS
    <3>. HIDE DEF Bad
    <3>. QED  BY <2>1, <3>1, Smaller
  <2> DEFINE c == CHOOSE y \in s : TRUE
             u == s \ {c}
  <2>3. s # {}
    BY <1>1, <1>2, <2>2 DEF Adds
  <2>4. c \in s /\ g[s] = f[c] + g[u] /\ k[s] = h[c] + k[u]
    BY <1>1, <1>2, <2>2, <2>3 DEF Adds
  <2>. HIDE DEF c
  <2>5. u \in SUBSET S /\ u \subseteq s /\ u # s
    BY <2>2, <2>4
  <2>6. g[u] <= k[u]
    BY <2>2, <2>5
  <2>7. g[u] \in Int /\ k[u] \in Int /\ f[c] \in Int /\ h[c] \in Int /\ f[c] <= h[c]
    BY <1>1, <1>2, <2>2, <2>4, <2>5 DEF Adds
  <2>8. f[c] + g[u] <= h[c] + k[u]
    BY <2>6, <2>7
  <2>. QED  BY <2>2, <2>4, <2>8
<1>. QED  BY <1>1, <1>2, <1>3

(* What is nothing adds nothing.                                           *)
LEMMA SumWithin ==
  ASSUME NEW S, IsFiniteSet(S), NEW f, \A x \in S : f[x] \in Int,
         NEW T \in SUBSET S, \A x \in S \ T : f[x] = 0
  PROVE  SumOver(S, f) = SumOver(T, f)
<1>1. PICK g : Adds(g, S, f)
  BY AddsExists
<1> DEFINE Bad == {s \in SUBSET S : T \subseteq s /\ g[s] # g[T]}
<1>2. Bad = {}
  <2>1. SUFFICES ASSUME Bad # {} PROVE FALSE
    OBVIOUS
  <2>2. PICK s \in Bad : \A t \in Bad : t \subseteq s => t = s
    <3>1. Bad \subseteq SUBSET S
      OBVIOUS
    <3>. HIDE DEF Bad
    <3>. QED  BY <2>1, <3>1, Smaller
  <2>3. PICK e \in s : e \notin T
    <3>1. s # T /\ T \subseteq s
      BY <2>2
    <3>. HIDE DEF Bad
    <3>2. \E e \in s : e \notin T
      BY <3>1
    <3>. QED  BY <3>2
  <2> DEFINE u == s \ {e}
  <2>4. u \in SUBSET S /\ u \subseteq s /\ u # s /\ T \subseteq u
    BY <2>2, <2>3
  <2>5. g[u] = g[T]
    BY <2>2, <2>4
  <2>6. g[s] = f[e] + g[u]
    <3>1. IsFiniteSet(s) /\ \A x \in s : f[x] \in Int
      BY <2>2, FS_Subset
    <3>2. SumOver(s, f) = f[e] + SumOver(u, f)
      BY <3>1, SumWithout
    <3>3. SumOver(s, f) = g[s] /\ SumOver(u, f) = g[u]
      BY <1>1, <2>2, <2>4, SumIs
    <3>. QED  BY <3>2, <3>3
  <2>7. f[e] = 0 /\ g[u] \in Int
    BY <1>1, <2>2, <2>3, <2>4 DEF Adds
  <2>. QED  BY <2>2, <2>5, <2>6, <2>7
<1>3. S \in SUBSET S /\ g[S] = g[T]
  BY <1>2
<1>. QED  BY <1>1, <1>3, SumIs

(* A function that changes at one place changes the sum by as much.        *)
LEMMA SumChanged ==
  ASSUME NEW S, IsFiniteSet(S), NEW f, \A x \in S : f[x] \in Int,
         NEW e \in S, NEW h, h[e] \in Int, \A x \in S \ {e} : h[x] = f[x]
  PROVE  SumOver(S, h) = SumOver(S, f) + (h[e] - f[e])
<1> DEFINE T == S \ {e}
<1>1. IsFiniteSet(T) /\ \A x \in T : f[x] \in Int /\ h[x] = f[x]
  BY FS_Subset
<1>2. \A x \in S : h[x] \in Int
  OBVIOUS
<1>3. SumOver(S, h) = h[e] + SumOver(T, h) /\ SumOver(S, f) = f[e] + SumOver(T, f)
  BY <1>2, SumWithout
<1>. HIDE DEF T
<1>4. SumOver(T, h) = SumOver(T, f) /\ SumOver(T, f) \in Int
  BY <1>1, SumSame, SumInt
<1>5. h[e] \in Int /\ f[e] \in Int
  OBVIOUS
<1>6. \A i, j, k \in Int : j + k = i + k + (j - i)
  OBVIOUS
<1>. QED  BY <1>3, <1>4, <1>5, <1>6

(* The parts of a set add up to the whole.                                 *)
LEMMA SumSplit ==
  ASSUME NEW S, IsFiniteSet(S), NEW f, \A x \in S : f[x] \in Int, NEW T \in SUBSET S
  PROVE  SumOver(S, f) = SumOver(T, f) + SumOver(S \ T, f)
<1>1. PICK g : Adds(g, S, f)
  BY AddsExists
<1> DEFINE Bad == {t \in SUBSET S : g[S] # g[t] + g[S \ t]}
<1>2. Bad = {}
  <2>1. SUFFICES ASSUME Bad # {} PROVE FALSE
    OBVIOUS
  <2>2. PICK t \in Bad : \A u \in Bad : u \subseteq t => u = t
    <3>1. Bad \subseteq SUBSET S
      OBVIOUS
    <3>. HIDE DEF Bad
    <3>. QED  BY <2>1, <3>1, Smaller
  <2>3. t # {}
    <3>1. S \ {} = S /\ g[{}] = 0 /\ S \in SUBSET S
      BY <1>1 DEF Adds
    <3>2. g[S] \in Int
      BY <1>1, <3>1 DEF Adds
    <3>3. g[S] # g[t] + g[S \ t]
      BY <2>2
    <3>4. t = {} => g[t] + g[S \ t] = 0 + g[S]
      BY <3>1
    <3>. QED  BY <3>2, <3>3, <3>4
  <2>4. PICK e \in t : TRUE
    BY <2>3
  <2> DEFINE u == t \ {e}
             rest == S \ t
             more == S \ u
  <2>5. /\ u \in SUBSET S /\ u \subseteq t /\ u # t
        /\ t \in SUBSET S /\ rest \in SUBSET S /\ more \in SUBSET S
        /\ e \in more /\ more \ {e} = rest
    BY <2>2, <2>4
  <2>6. g[S] = g[u] + g[more]
    BY <2>2, <2>5
  <2>. HIDE DEF u, rest, more
  <2>7. \A s \in SUBSET S : \A x \in s : g[s] = f[x] + g[s \ {x}]
    <3>. TAKE s \in SUBSET S
    <3>. TAKE x \in s
    <3>1. IsFiniteSet(s) /\ \A y \in s : f[y] \in Int
      BY FS_Subset
    <3>2. SumOver(s, f) = f[x] + SumOver(s \ {x}, f)
      BY <3>1, SumWithout
    <3>3. s \ {x} \in SUBSET S
      OBVIOUS
    <3>. QED  BY <1>1, <3>2, <3>3, SumIs
  <2>8. g[t] = f[e] + g[u] /\ g[more] = f[e] + g[rest]
    BY <2>4, <2>5, <2>7 DEF u
  <2>9. f[e] \in Int /\ g[u] \in Int /\ g[rest] \in Int
    BY <1>1, <2>4, <2>5 DEF Adds
  <2>10. g[S] # g[t] + g[rest]
    BY <2>2 DEF rest
  <2>11. \A i, j, k \in Int : j + (i + k) = (i + j) + k
    OBVIOUS
  <2>12. g[S] = g[u] + (f[e] + g[rest]) /\ g[t] + g[rest] = (f[e] + g[u]) + g[rest]
    BY <2>6, <2>8
  <2>. QED  BY <2>9, <2>10, <2>11, <2>12
<1>3. g[S] = g[T] + g[S \ T] /\ S \in SUBSET S /\ S \ T \in SUBSET S
  BY <1>2
<1>. QED  BY <1>1, <1>3, SumIs

(* No more than so many times the largest part.                            *)
LEMMA SumAtMost ==
  ASSUME NEW S, IsFiniteSet(S), NEW f, \A x \in S : f[x] \in Int,
         NEW most \in Int, \A x \in S : f[x] <= most
  PROVE  SumOver(S, f) <= Cardinality(S) * most
<1>1. PICK g : Adds(g, S, f) /\ SumOver(S, f) = g[S]
  BY SumAdds
<1> DEFINE Bad == {s \in SUBSET S : ~(g[s] <= Cardinality(s) * most)}
<1>2. Bad = {}
  <2>1. SUFFICES ASSUME Bad # {} PROVE FALSE
    OBVIOUS
  <2>2. PICK s \in Bad : \A t \in Bad : t \subseteq s => t = s
    <3>1. Bad \subseteq SUBSET S
      OBVIOUS
    <3>. HIDE DEF Bad
    <3>. QED  BY <2>1, <3>1, Smaller
  <2> DEFINE c == CHOOSE y \in s : TRUE
             u == s \ {c}
  <2>3. s # {}
    <3>1. g[{}] = 0 /\ Cardinality({}) = 0
      BY <1>1, FS_EmptySet DEF Adds
    <3>2. ~(g[s] <= Cardinality(s) * most)
      BY <2>2
    <3>. HIDE DEF Bad, u, c
    <3>3. SUFFICES ASSUME s = {} PROVE FALSE
      OBVIOUS
    <3>4. g[s] = 0 /\ Cardinality(s) = 0
      BY <3>1, <3>3
    <3>. QED  BY <3>2, <3>4
  <2>4. c \in s /\ g[s] = f[c] + g[u]
    BY <1>1, <2>2, <2>3 DEF Adds
  <2>. HIDE DEF c
  <2>5. u \in SUBSET S /\ u \subseteq s /\ u # s /\ IsFiniteSet(s)
    BY <2>2, <2>4, FS_Subset
  <2>6. g[u] <= Cardinality(u) * most
    BY <2>2, <2>5
  <2>7. /\ Cardinality(u) \in Nat /\ Cardinality(s) \in Nat
        /\ Cardinality(s) = Cardinality(u) + 1
    <3>1. /\ Cardinality(s) \in Nat
          /\ Cardinality(s \ {c}) = Cardinality(s) - 1 /\ IsFiniteSet(s \ {c})
      BY <2>4, <2>5, FS_CardinalityType, FS_RemoveElement
    <3>2. Cardinality(s \ {c}) \in Nat
      BY <3>1, FS_CardinalityType
    <3>. QED  BY <3>1, <3>2
  <2>8. g[u] \in Int /\ f[c] \in Int /\ f[c] <= most
    BY <1>1, <2>2, <2>4, <2>5 DEF Adds
  <2>9. \A n \in Nat, i, j \in Int : i <= n * most /\ j <= most => j + i <= (n + 1) * most
    OBVIOUS
  <2>10. ~(g[s] <= Cardinality(s) * most)
    BY <2>2
  <2>. HIDE DEF u, Bad
  <2>11. f[c] + g[u] <= (Cardinality(u) + 1) * most
    BY <2>6, <2>7, <2>8, <2>9
  <2>. QED  BY <2>4, <2>7, <2>10, <2>11
<1>3. S \in SUBSET S
  OBVIOUS
<1>. QED  BY <1>1, <1>2, <1>3

(* Sums of two functions over a set add up to the sum of their sums.       *)
LEMMA SumPlus ==
  ASSUME NEW S, IsFiniteSet(S), NEW f, \A x \in S : f[x] \in Int,
         NEW h, \A x \in S : h[x] \in Int, NEW k, \A x \in S : k[x] = f[x] + h[x]
  PROVE  SumOver(S, k) = SumOver(S, f) + SumOver(S, h)
<1> DEFINE Bad == {s \in SUBSET S : SumOver(s, k) # SumOver(s, f) + SumOver(s, h)}
<1>1. SUFFICES ASSUME Bad # {} PROVE FALSE
  OBVIOUS
<1>2. PICK s \in Bad : \A t \in Bad : t \subseteq s => t = s
  <2>1. Bad \subseteq SUBSET S
    OBVIOUS
  <2>. HIDE DEF Bad
  <2>. QED  BY <1>1, <2>1, Smaller
<1>3. s # {}
  <2>1. SumOver(s, k) # SumOver(s, f) + SumOver(s, h)
    BY <1>2
  <2>2. SumOver({}, k) = 0 /\ SumOver({}, f) = 0 /\ SumOver({}, h) = 0
    BY SumEmpty
  <2>. HIDE DEF Bad
  <2>3. SUFFICES ASSUME s = {} PROVE FALSE
    OBVIOUS
  <2>4. SumOver(s, k) = 0 /\ SumOver(s, f) = 0 /\ SumOver(s, h) = 0
    BY <2>2, <2>3
  <2>. QED  BY <2>1, <2>4
<1>4. PICK e \in s : TRUE
  BY <1>3
<1> DEFINE u == s \ {e}
<1>5. /\ IsFiniteSet(s) /\ IsFiniteSet(u) /\ u \subseteq s /\ u # s
      /\ \A x \in s : f[x] \in Int /\ h[x] \in Int /\ k[x] \in Int
  BY <1>2, <1>4, FS_Subset
<1>6. SumOver(u, k) = SumOver(u, f) + SumOver(u, h)
  BY <1>2, <1>5
<1>7. /\ SumOver(s, f) = f[e] + SumOver(u, f)
      /\ SumOver(s, h) = h[e] + SumOver(u, h)
      /\ SumOver(s, k) = k[e] + SumOver(u, k)
  BY <1>4, <1>5, SumWithout
<1>8. SumOver(u, f) \in Int /\ SumOver(u, h) \in Int
  BY <1>5, SumInt
<1>9. k[e] = f[e] + h[e] /\ f[e] \in Int /\ h[e] \in Int
  BY <1>2, <1>4
<1>. HIDE DEF u
<1>10. \A a, b, c, d \in Int : (a + b) + (c + d) = (a + c) + (b + d)
  OBVIOUS
<1>11. SumOver(s, k) = (f[e] + h[e]) + (SumOver(u, f) + SumOver(u, h))
  BY <1>6, <1>7, <1>9
<1>12. SumOver(s, k) = SumOver(s, f) + SumOver(s, h)
  BY <1>7, <1>8, <1>9, <1>10, <1>11
<1>. QED  BY <1>2, <1>12

(* Whatever a set is grouped by, the sums of the groups add up to its own. *)
LEMMA SumGroups ==
  ASSUME NEW R, IsFiniteSet(R), NEW f, \A x \in R : f[x] \in Int,
         NEW G, IsFiniteSet(G), NEW key, \A x \in R : key[x] \in G,
         NEW part, NEW h,
         \A g \in G : /\ \A x : x \in part[g] <=> x \in R /\ key[x] = g
                      /\ h[g] = SumOver(part[g], f)
  PROVE  SumOver(G, h) = SumOver(R, f)
<1> DEFINE Of(g) == {x \in R : key[x] = g}
           In(s) == {x \in R : key[x] \in s}
           Bad == {s \in SUBSET G : SumOver(s, h) # SumOver(In(s), f)}
<1>a. \A g \in G : h[g] = SumOver(Of(g), f)
  <2>. TAKE g \in G
  <2>1. part[g] = Of(g)
    OBVIOUS
  <2>. HIDE DEF Of
  <2>. QED  BY <2>1
<1>0. \A g \in G : h[g] \in Int
  <2>. TAKE g \in G
  <2>1. IsFiniteSet(Of(g)) /\ \A x \in Of(g) : f[x] \in Int
    BY FS_Subset
  <2>. HIDE DEF Of
  <2>2. SumOver(Of(g), f) \in Int
    BY <2>1, SumInt
  <2>. QED  BY <1>a, <2>2 DEF Of
<1>1. SUFFICES ASSUME Bad # {} PROVE FALSE
  <2>1. Bad = {} => SumOver(G, h) = SumOver(In(G), f)
    BY G \in SUBSET G
  <2>2. In(G) = R
    OBVIOUS
  <2>. HIDE DEF Bad, In
  <2>. QED  BY <2>1, <2>2
<1>2. PICK s \in Bad : \A t \in Bad : t \subseteq s => t = s
  <2>1. Bad \subseteq SUBSET G
    OBVIOUS
  <2>. HIDE DEF Bad
  <2>. QED  BY <1>1, <2>1, Smaller
<1>3. s # {}
  <2>1. In({}) = {}
    OBVIOUS
  <2>. HIDE DEF In
  <2>. QED  BY <1>2, <2>1, SumEmpty
<1>4. PICK e \in s : TRUE
  BY <1>3
<1> DEFINE u == s \ {e}
<1>5. IsFiniteSet(s) /\ u \in SUBSET G /\ u \subseteq s /\ u # s /\ \A g \in s : h[g] \in Int
  BY <1>0, <1>2, <1>4, FS_Subset
<1>6. SumOver(u, h) = SumOver(In(u), f)
  BY <1>2, <1>5
<1>7. SumOver(s, h) = h[e] + SumOver(u, h)
  BY <1>4, <1>5, SumWithout
<1>8. IsFiniteSet(In(s)) /\ Of(e) \in SUBSET In(s) /\ In(s) \ Of(e) = In(u)
  <2>1. IsFiniteSet(In(s))
    BY FS_Subset
  <2>. QED  BY <1>4, <2>1
<1>9. \A x \in In(s) : f[x] \in Int
  OBVIOUS
<1>10. h[e] = SumOver(Of(e), f)
  BY <1>a, <1>2, <1>4
<1>11. SumOver(In(s), f) = SumOver(Of(e), f) + SumOver(In(u), f)
  <2> DEFINE whole == In(s)
             chunk == Of(e)
  <2>1. IsFiniteSet(whole) /\ chunk \in SUBSET whole /\ \A x \in whole : f[x] \in Int
    BY <1>8, <1>9
  <2>. HIDE DEF whole, chunk
  <2>2. SumOver(whole, f) = SumOver(chunk, f) + SumOver(whole \ chunk, f)
    BY <2>1, SumSplit
  <2>. QED  BY <1>8, <2>2 DEF whole, chunk
<1>. QED  BY <1>2, <1>6, <1>7, <1>10, <1>11

-----------------------------------------------------------------------------
(* Sorting by keys. *)

(* Python's order of tuples is strict, ... *)
LEMMA LessIsStrict ==
  /\ \A s \in Seq(Int) : ~Less(s, s)
  /\ \A s, t, u \in Seq(Int) : Less(s, t) /\ Less(t, u) => Less(s, u)
<1>1. \A s, t \in Seq(Int) : 
        Less(s, t) <=> \E i \in Nat \ {0} : /\ i <= Len(s) /\ i <= Len(t) /\ s[i] < t[i]
                                           /\ \A j \in Nat \ {0} : j < i => s[j] = t[j]
  <2>1. SUFFICES ASSUME NEW s \in Seq(Int), NEW t \in Seq(Int)
        PROVE Less(s, t) <=> \E i \in Nat \ {0} : /\ i <= Len(s) /\ i <= Len(t) /\ s[i] < t[i]
                                           /\ \A j \in Nat \ {0} : j < i => s[j] = t[j]
    OBVIOUS
  <2>2. Len(s) \in Nat /\ Len(t) \in Nat
    OBVIOUS
  <2>3. \A i : i \in 1..Lesser(Len(s), Len(t)) <=> i \in Nat \ {0} /\ i <= Len(s) /\ i <= Len(t)
    BY <2>2 DEF Lesser
  <2>4. \A i \in Nat \ {0} : \A j : j \in 1..(i - 1) <=> j \in Nat \ {0} /\ j < i
    OBVIOUS
  <2>5. ASSUME Less(s, t)
        PROVE  \E i \in Nat \ {0} : /\ i <= Len(s) /\ i <= Len(t) /\ s[i] < t[i]
                                   /\ \A j \in Nat \ {0} : j < i => s[j] = t[j]
    <3>1. PICK i \in 1..Lesser(Len(s), Len(t)) : s[i] < t[i] /\ \A j \in 1..(i - 1) : s[j] = t[j]
      BY <2>5 DEF Less
    <3>2. i \in Nat \ {0} /\ i <= Len(s) /\ i <= Len(t)
      BY <2>3
    <3>3. \A j \in Nat \ {0} : j < i => s[j] = t[j]
      BY <2>4, <3>1, <3>2
    <3>. QED  BY <3>1, <3>2, <3>3
  <2>6. ASSUME NEW i \in Nat \ {0}, i <= Len(s), i <= Len(t), s[i] < t[i],
               \A j \in Nat \ {0} : j < i => s[j] = t[j]
        PROVE  Less(s, t)
    <3>1. i \in 1..Lesser(Len(s), Len(t))
      BY <2>3, <2>6
    <3>2. \A j \in 1..(i - 1) : s[j] = t[j]
      BY <2>4, <2>6
    <3>. QED  BY <2>6, <3>1, <3>2 DEF Less
  <2>. QED  BY <2>5, <2>6
<1>2. ASSUME NEW s \in Seq(Int) PROVE ~Less(s, s)
  BY <1>1
<1>3. ASSUME NEW s \in Seq(Int), NEW t \in Seq(Int), NEW u \in Seq(Int), Less(s, t), Less(t, u)
      PROVE  Less(s, u)
  <2>1. PICK i \in Nat \ {0} : /\ i <= Len(s) /\ i <= Len(t) /\ s[i] < t[i]
                               /\ \A j \in Nat \ {0} : j < i => s[j] = t[j]
    BY <1>1, <1>3
  <2>2. PICK k \in Nat \ {0} : /\ k <= Len(t) /\ k <= Len(u) /\ t[k] < u[k]
                               /\ \A j \in Nat \ {0} : j < k => t[j] = u[j]
    BY <1>1, <1>3
  <2>3. /\ Len(s) \in Nat /\ Len(t) \in Nat /\ Len(u) \in Nat
        /\ s[i] \in Int /\ t[i] \in Int /\ t[k] \in Int /\ u[k] \in Int
        /\ (i <= k => u[i] \in Int) /\ (k <= i => s[k] \in Int)
    <3>1. \A x \in Seq(Int) : Len(x) \in Nat /\ \A j \in Nat \ {0} : j <= Len(x) => x[j] \in Int
      OBVIOUS
    <3>2. Len(s) \in Nat /\ Len(t) \in Nat /\ Len(u) \in Nat
      OBVIOUS
    <3>3. /\ i <= k => i <= Len(u)
          /\ k <= i => k <= Len(s)
      BY SMTT(30), <2>1, <2>2, <3>2
    <3>. QED  BY <2>1, <2>2, <3>1, <3>2, <3>3
  <2> DEFINE Decides(x) == /\ x \in Nat \ {0} /\ x <= Len(s) /\ x <= Len(u) /\ s[x] < u[x]
                           /\ \A j \in Nat \ {0} : j < x => s[j] = u[j]
  <2>4. CASE i < k
    <3>1. u[i] = t[i] /\ i <= Len(u)
      BY <2>1, <2>2, <2>3, <2>4
    <3>2. \A j \in Nat \ {0} : j < i => s[j] = u[j]
      BY <2>1, <2>2, <2>4
    <3>3. Decides(i)
      BY <2>1, <2>3, <3>1, <3>2
    <3>. QED  BY <1>1, <3>3
  <2>5. CASE i = k
    <3>1. s[i] < u[i] /\ i <= Len(u)
      BY <2>1, <2>2, <2>3, <2>5
    <3>2. \A j \in Nat \ {0} : j < i => s[j] = u[j]
      BY <2>1, <2>2, <2>5
    <3>3. Decides(i)
      BY <2>1, <3>1, <3>2
    <3>. QED  BY <1>1, <3>3
  <2>6. CASE k < i
    <3>1. s[k] = t[k] /\ k <= Len(s)
      BY <2>1, <2>2, <2>3, <2>6
    <3>2. \A j \in Nat \ {0} : j < k => s[j] = u[j]
      BY <2>1, <2>2, <2>6
    <3>3. Decides(k)
      BY <2>2, <2>3, <3>1, <3>2
    <3>. QED  BY <1>1, <3>3
  <2>. QED  BY <2>1, <2>2, <2>4, <2>5, <2>6
<1>. QED  BY <1>2, <1>3

(* Where two keys differ, the first such place decides. *)
LEMMA LessIsTotal ==
  ASSUME NEW s \in Seq(Int), NEW t \in Seq(Int), NEW k \in Nat \ {0},
         k <= Len(s), k <= Len(t), s[k] # t[k]
  PROVE  Less(s, t) \/ Less(t, s)
<1> DEFINE D == {i \in Nat \ {0} : i <= Len(s) /\ i <= Len(t) /\ s[i] # t[i]}
<1>1. D \subseteq Nat /\ D # {}
  OBVIOUS
<1>2. PICK i \in D : \A j \in D : ~(<<j, i>> \in OpToRel(<, Nat))
  <2>. HIDE DEF D
  <2>. QED  BY <1>1, WFMin, NatLessThanWellFounded
<1>3. \A j \in D : ~(j < i)
  BY <1>2 DEF OpToRel
<1>4. /\ i \in Nat \ {0} /\ i <= Len(s) /\ i <= Len(t) /\ s[i] # t[i]
      /\ Len(s) \in Nat /\ Len(t) \in Nat
  OBVIOUS
<1>5. \A j \in 1..(i - 1) : s[j] = t[j]
  <2>. TAKE j \in 1..(i - 1)
  <2>1. j \in Nat \ {0} /\ j < i /\ j <= Len(s) /\ j <= Len(t)
    BY <1>4
  <2>2. j \notin D
    BY <1>3, <2>1
  <2>. QED  BY <2>1, <2>2
<1>6. i \in 1..Lesser(Len(s), Len(t)) /\ i \in 1..Lesser(Len(t), Len(s))
  BY <1>4 DEF Lesser
<1>7. s[i] \in Int /\ t[i] \in Int
  BY <1>4
<1>8. s[i] < t[i] \/ t[i] < s[i]
  BY <1>4, <1>7
<1>. HIDE DEF D
<1>. QED  BY <1>5, <1>6, <1>8 DEF Less

-----------------------------------------------------------------------------
(* ByKey lists its set, each member once, in the order of the keys. *)
Sortable(S, key) ==
  /\ IsFiniteSet(S)
  /\ \A m \in S : key[m] \in Seq(Int)
  /\ \A m, n \in S : m # n => Less(key[m], key[n]) \/ Less(key[n], key[m])

Ordered(s, S, key) ==
  /\ s \in Seq(S)
  /\ Len(s) = Cardinality(S)
  /\ \A m \in S : \E i \in 1..Len(s) : s[i] = m
  /\ \A i, j \in 1..Len(s) : i < j => Less(key[s[i]], key[s[j]])

Before(m, S, key) == {n \in S : Less(key[n], key[m])}

(* How many come before a member grows with its key. *)
LEMMA PlacesDiffer ==
  ASSUME NEW S, NEW key, Sortable(S, key)
  PROVE  /\ \A m \in S : Cardinality(Before(m, S, key)) \in 0..(Cardinality(S) - 1)
         /\ \A m, n \in S : Less(key[m], key[n]) <=>
              Cardinality(Before(m, S, key)) < Cardinality(Before(n, S, key))
<1>1. IsFiniteSet(S) /\ Cardinality(S) \in Nat
  BY FS_CardinalityType DEF Sortable
<1>2. \A m \in S : /\ IsFiniteSet(Before(m, S, key)) /\ Before(m, S, key) \subseteq S
                   /\ Cardinality(Before(m, S, key)) \in Nat
                   /\ Cardinality(Before(m, S, key)) <= Cardinality(S)
  BY <1>1, FS_Subset, FS_CardinalityType DEF Before
<1>3. \A m \in S : m \notin Before(m, S, key)
  BY LessIsStrict DEF Sortable, Before
<1>4. ASSUME NEW m \in S
      PROVE  Cardinality(Before(m, S, key)) \in 0..(Cardinality(S) - 1)
  <2>1. Cardinality(Before(m, S, key)) # Cardinality(S)
    BY <1>1, <1>2, <1>3, FS_Subset
  <2>. QED  BY <1>1, <1>2, <2>1
<1>5. ASSUME NEW m \in S, NEW n \in S, Less(key[m], key[n])
      PROVE  Cardinality(Before(m, S, key)) < Cardinality(Before(n, S, key))
  <2>1. Before(m, S, key) \subseteq Before(n, S, key)
    BY <1>5, LessIsStrict DEF Sortable, Before
  <2>2. m \in Before(n, S, key) /\ m \notin Before(m, S, key)
    BY <1>3, <1>5 DEF Before
  <2>3. Cardinality(Before(m, S, key)) <= Cardinality(Before(n, S, key))
    BY <1>2, <2>1, FS_Subset
  <2>4. Cardinality(Before(m, S, key)) # Cardinality(Before(n, S, key))
    BY <1>2, <2>1, <2>2, FS_Subset
  <2>. QED  BY <1>2, <2>3, <2>4
<1>6. ASSUME NEW m \in S, NEW n \in S,
             Cardinality(Before(m, S, key)) < Cardinality(Before(n, S, key))
      PROVE  Less(key[m], key[n])
  <2>1. m # n
    BY <1>2, <1>6
  <2>2. CASE Less(key[n], key[m])
    BY <1>2, <1>5, <1>6, <2>2
  <2>. QED  BY <2>1, <2>2 DEF Sortable
<1>. QED  BY <1>4, <1>5, <1>6

(* ByKey counts pairs of a key and a member: as many as members. *)
LEMMA KeyedSame ==
  ASSUME NEW S, NEW key, Sortable(S, key), NEW m \in S,
         NEW keyed, keyed = {<<key[n], n>> : n \in S}
  PROVE  Cardinality({l \in keyed : Less(l[1], key[m])}) = Cardinality(Before(m, S, key))
<1> DEFINE B == Before(m, S, key)
           K == {l \in keyed : Less(l[1], key[m])}
           f == [n \in B |-> <<key[n], n>>]
<1>1. IsFiniteSet(B)
  BY FS_Subset DEF Sortable, Before
<1>2. f \in [B -> K]
  BY DEF Before
<1>3. \A n, k \in B : f[n] = f[k] => n = k
  OBVIOUS
<1>4. \A l \in K : \E n \in B : f[n] = l
  BY DEF Before
<1>. HIDE DEF f, B, K
<1>5. f \in Bijection(B, K)
  BY <1>2, <1>3, <1>4, Fun_IsBij
<1>. QED  BY <1>1, <1>5, FS_Bijection DEF ExistsBijection, B, K

(* ByKey sorts: every member once, its key after those before it. *)
LEMMA KeysOrder ==
  ASSUME NEW S, NEW key, Sortable(S, key)
  PROVE  Ordered(ByKey(S, key), S, key)
<1> DEFINE keyed == {<<key[m], m>> : m \in S}
           n == Cardinality(S)
           Place(m) == Cardinality(Before(m, S, key))
           r == ByKey(S, key)
           f == [m \in S |-> Place(m)]
<1>1. IsFiniteSet(S) /\ n \in Nat
  BY FS_CardinalityType DEF Sortable
<1>2. \A m \in S : Place(m) \in 0..(n - 1)
  BY PlacesDiffer
<1>3. \A m, k \in S : Place(m) = Place(k) => m = k
  BY <1>2, PlacesDiffer DEF Sortable
<1>4. \A i \in 1..n : \E m \in S : Place(m) = i - 1
  <2>1. f \in [S -> 0..(n - 1)]
    BY <1>2
  <2>2. \A a, b \in S : f[a] = f[b] => a = b
    BY <1>3
  <2>3. f \in Injection(S, 0..(n - 1))
    <3>. HIDE DEF f, n
    <3>. QED  BY <2>1, <2>2, Fun_IsInj
  <2>4. IsFiniteSet(0..(n - 1)) /\ Cardinality(0..(n - 1)) = n
    <3>1. \A k \in Nat : IsFiniteSet(0..(k - 1)) /\ Cardinality(0..(k - 1)) = k
      <4>. TAKE k \in Nat
      <4>1. 0 \in Int /\ k - 1 \in Int
        OBVIOUS
      <4>2. /\ IsFiniteSet(0..(k - 1))
            /\ Cardinality(0..(k - 1)) = IF 0 > k - 1 THEN 0 ELSE (k - 1) - 0 + 1
        BY <4>1, FS_Interval
      <4>. QED  BY <4>2
    <3>. QED  BY <1>1, <3>1
  <2>5. f \in Surjection(S, 0..(n - 1))
    <3>. HIDE DEF f
    <3>. QED  BY <2>3, <2>4, FS_Injection
  <2>6. \A j \in 0..(n - 1) : \E m \in S : f[m] = j
    <3>. HIDE DEF f, n
    <3>. QED  BY <2>5, Fun_SurjectionProperties
  <2>. TAKE i \in 1..n
  <2>7. i - 1 \in 0..(n - 1)
    BY <1>1
  <2>. QED  BY <2>6, <2>7
<1>5. \A m \in S : Cardinality({l \in keyed : Less(l[1], key[m])}) = Place(m)
  BY KeyedSame
<1>6. \A k \in keyed : \E m \in S : k = <<key[m], m>>
  OBVIOUS
<1>7. \A m \in S : <<key[m], m>> \in keyed
  OBVIOUS
<1>8. \A i \in 1..n : r[i] \in S /\ Place(r[i]) = i - 1
  <2>. TAKE i \in 1..n
  <2> DEFINE Is(k) == Cardinality({l \in keyed : Less(l[1], k[1])}) = i - 1
             it == CHOOSE k \in keyed : Is(k)
  <2>1. r[i] = it[2]
    BY DEF ByKey
  <2>2. PICK m \in S : Place(m) = i - 1
    BY <1>4
  <2>3. Is(<<key[m], m>>)
    BY <1>5, <2>2
  <2>4. it \in keyed /\ Is(it)
    <3>. HIDE DEF Is, keyed
    <3>. QED  BY <1>7, <2>3
  <2>5. PICK k \in S : it = <<key[k], k>>
    <3>. HIDE DEF it, keyed
    <3>. QED  BY <1>6, <2>4
  <2>6. Is(<<key[k], k>>)
    <3>. HIDE DEF Is, it
    <3>. QED  BY <2>4, <2>5
  <2>7. Place(k) = i - 1
    BY <1>5, <2>6
  <2>8. r[i] = k
    <3>. HIDE DEF it
    <3>. QED  BY <2>1, <2>5
  <2>. HIDE DEF Place, r
  <2>. QED  BY <2>7, <2>8
<1>9. r \in Seq(S) /\ Len(r) = n
  <2>1. r = [i \in 1..n |-> r[i]]
    BY DEF ByKey
  <2>. HIDE DEF r, n, Place
  <2>. QED  BY <1>1, <1>8, <2>1
<1>10. ASSUME NEW m \in S PROVE \E i \in 1..Len(r) : r[i] = m
  <2>1. Place(m) + 1 \in 1..n /\ (Place(m) + 1) - 1 = Place(m)
    BY <1>1, <1>2
  <2>2. r[Place(m) + 1] \in S /\ Place(r[Place(m) + 1]) = Place(m)
    <3>. HIDE DEF r, Place
    <3>. QED  BY <1>8, <2>1
  <2>3. r[Place(m) + 1] = m
    <3>. HIDE DEF r, Place
    <3>. QED  BY <1>3, <2>2
  <2>. HIDE DEF r, Place
  <2>. QED  BY <1>9, <2>1, <2>3
<1>11. ASSUME NEW i \in 1..Len(r), NEW j \in 1..Len(r), i < j
       PROVE  Less(key[r[i]], key[r[j]])
  <2>1. Place(r[i]) < Place(r[j]) /\ r[i] \in S /\ r[j] \in S
    <3>. HIDE DEF r, Place
    <3>. QED  BY <1>1, <1>8, <1>9, <1>11
  <2>. HIDE DEF r
  <2>. QED  BY <2>1, PlacesDiffer
<1>. QED  BY <1>9, <1>10, <1>11 DEF Ordered
-----------------------------------------------------------------------------
(* What a component is worth. *)

Question == [type : DOMAIN Required, difficulty : Difficulty, agentic : BOOLEAN, estimate : Nat]

(* round is off by half a unit at most. *)
LEMMA RoundedNear ==
  ASSUME NEW n \in Int, NEW d \in Nat \ {0}
  PROVE  /\ Rounded(n, d) \in Int
         /\ 2 * (d * Rounded(n, d)) <= 2 * n + d
         /\ 2 * (d * Rounded(n, d)) >= 2 * n - d
<1> DEFINE whole == n \div d
           left == n % d
<1>1. whole \in Int /\ left \in 0..(d - 1) /\ n = d * whole + left
  OBVIOUS
<1>2. d * whole \in Int /\ d * (whole + 1) = d * whole + d
  BY <1>1
<1>3. \/ Rounded(n, d) = whole + 1 /\ 2 * left >= d
      \/ Rounded(n, d) = whole /\ 2 * left <= d
  BY <1>1 DEF Rounded
<1>. HIDE DEF whole, left
<1>4. CASE Rounded(n, d) = whole + 1 /\ 2 * left >= d
  <2>1. 2 * (d * Rounded(n, d)) = 2 * (d * whole) + 2 * d
    BY <1>2, <1>4
  <2>. QED  BY <1>1, <1>2, <1>4, <2>1
<1>5. CASE Rounded(n, d) = whole /\ 2 * left <= d
  BY <1>1, <1>2, <1>5
<1>. QED  BY <1>3, <1>4, <1>5

LEMMA Cancels ==
  ASSUME NEW d \in Nat \ {0}, NEW x \in Int, NEW y \in Int, d * x <= d * y
  PROVE  x <= y
<1>1. ASSUME y + 1 <= x PROVE FALSE
  <2>1. d * (y + 1) <= d * x
    BY <1>1
  <2>2. d * (y + 1) = d * y + d
    OBVIOUS
  <2>. QED  BY <2>1, <2>2
<1>. QED  BY <1>1

(* A component that is a ratio: what it contributes is its value times its *)
(* weight, up to the rounding of both.                                     *)
LEMMA RatioNear ==
  ASSUME NEW n \in Int, NEW d \in Int, d >= 16, NEW w \in Nat
  PROVE  /\ Ratio(n, d, w).value \in Int /\ Ratio(n, d, w).contribution \in Int
         /\ 2 * (Ratio(n, d, w).contribution - w * Ratio(n, d, w).value) <= w + 1
         /\ 2 * (w * Ratio(n, d, w).value - Ratio(n, d, w).contribution) <= w + 1
<1>1. CASE n >= d
  BY <1>1 DEF Ratio, Exact
<1>2. CASE ~(n >= d)
  <2> DEFINE D == d \div 16
             N == n * 625
             v == Rounded(N, D)
             c == Rounded(N * w, D)
  <2>1. D \in Nat \ {0} /\ N \in Int /\ N * w \in Int
    OBVIOUS
  <2>2. /\ v \in Int /\ 2 * (D * v) <= 2 * N + D /\ 2 * (D * v) >= 2 * N - D
        /\ c \in Int /\ 2 * (D * c) <= 2 * (N * w) + D /\ 2 * (D * c) >= 2 * (N * w) - D
    <3>. HIDE DEF D, N
    <3>. QED  BY <2>1, RoundedNear
  <2>3. Ratio(n, d, w) = [value |-> v, contribution |-> c]
    BY <1>2 DEF Ratio
  <2>. HIDE DEF D, N, v, c
  <2>4. /\ w * (2 * (D * v)) <= w * (2 * N + D)
        /\ w * (2 * (D * v)) >= w * (2 * N - D)
    <3>1. \A a, b \in Int : a <= b => w * a <= w * b
      OBVIOUS
    <3>. QED  BY <2>1, <2>2, <3>1
  <2>5. /\ w * (2 * (D * v)) = 2 * (D * (w * v))
        /\ w * (2 * N + D) = 2 * (N * w) + D * w
        /\ w * (2 * N - D) = 2 * (N * w) - D * w
        /\ D * (2 * (c - w * v)) = 2 * (D * c) - 2 * (D * (w * v))
        /\ D * (2 * (w * v - c)) = 2 * (D * (w * v)) - 2 * (D * c)
        /\ D * (w + 1) = D * w + D
        /\ w * v \in Int /\ D * w \in Int /\ D * c \in Int /\ D * (w * v) \in Int
    BY <2>1, <2>2
  <2>6. D * (2 * (c - w * v)) <= D * (w + 1) /\ D * (2 * (w * v - c)) <= D * (w + 1)
    BY <2>1, <2>2, <2>4, <2>5
  <2>7. 2 * (c - w * v) <= w + 1
    BY <2>1, <2>2, <2>5, <2>6, Cancels
  <2>8. 2 * (w * v - c) <= w + 1
    BY <2>1, <2>2, <2>5, <2>6, Cancels
  <2>. QED  BY <2>2, <2>3, <2>7, <2>8
<1>. QED  BY <1>1, <1>2

LEMMA UsableIsNumber ==
  ASSUME NEW m \in Models PROVE Usable(m) \in Int
<1>1. m.context \in Int /\ m.maxOut \in Int
  BY DEF Models
<1>. QED  BY <1>1 DEF Usable, Greater, Lesser

LEMMA BlendIsNumber ==
  ASSUME NEW m \in Models, NEW measured \in Int, NEW prior \in Int
  PROVE  Blend(m, measured, prior) \in Int
<1>1. m.confidence \in Int
  BY DEF Models
<1>. QED  BY <1>1 DEF Blend

LEMMA Targets ==
  ASSUME NEW q \in Question
  PROVE  /\ DesiredTier[q.difficulty] \in 1..4
         /\ ContextTarget[q.difficulty] \in Nat /\ ContextTarget[q.difficulty] >= 16
         /\ OutputTarget[q.difficulty] \in Nat /\ OutputTarget[q.difficulty] >= 16
         /\ q.estimate \in Nat
  BY DEF Question, Difficulty, DesiredTier, ContextTarget, OutputTarget

LEMMA TagsAreCounted ==
  ASSUME NEW m \in Models, NEW q \in Question
  PROVE  Cardinality(m.strengths \cap Optional[q.type]) \in Nat
<1>1. IsFiniteSet(Optional[q.type])
  <2>1. \A a, b, c : IsFiniteSet({a, b, c})
    <3>. TAKE a, b, c
    <3>1. IsFiniteSet({a}) /\ IsFiniteSet({a} \cup {b}) /\ IsFiniteSet(({a} \cup {b}) \cup {c})
      BY FS_EmptySet, FS_AddElement, FS_Singleton
    <3>2. ({a} \cup {b}) \cup {c} = {a, b, c}
      OBVIOUS
    <3>. QED  BY <3>1, <3>2
  <2>2. q.type \in {"code", "research", "write", "analyze"}
    BY DEF Question, Required
  <2>3. /\ IsFiniteSet({"software_engineering", "debugging", "instruction_following"})
        /\ IsFiniteSet({"research", "grounding", "long_context"})
        /\ IsFiniteSet({"writing", "creativity", "instruction_following"})
        /\ IsFiniteSet({"analysis", "math", "long_context"})
    BY <2>1, Zenon
  <2>4. /\ IsFiniteSet(Optional["code"]) /\ IsFiniteSet(Optional["research"])
        /\ IsFiniteSet(Optional["write"]) /\ IsFiniteSet(Optional["analyze"])
    BY <2>3 DEF Optional
  <2>. QED  BY <2>2, <2>4
<1>. QED  BY <1>1, FS_Subset, FS_CardinalityType

(* What a component contributes is its value times its weight, up to the   *)
(* rounding of both.                                                       *)
LEMMA PartsNear ==
  ASSUME NEW m \in Models, NEW q \in Question, NEW c \in Component
  PROVE  LET part == Components(m, q)[c] IN
         /\ part.value \in Int /\ part.contribution \in Int
         /\ 2 * (part.contribution - Weight[c] * part.value) <= Weight[c] + 1
         /\ 2 * (Weight[c] * part.value - part.contribution) <= Weight[c] + 1
         /\ c \in Droppable \cup {"overall"} => part.contribution = Weight[c] * part.value
<1>1. /\ m.tier \in Nat /\ m.maxOut \in Nat /\ m.taskScore \in Int /\ m.overall \in Int
      /\ m.reliability \in Int
  BY DEF Models
<1>2. Usable(m) \in Int /\ Cardinality(m.strengths \cap Optional[q.type]) \in Int
  BY UsableIsNumber, TagsAreCounted
<1> DEFINE Good(part, w) == /\ part.value \in Int /\ part.contribution \in Int
                            /\ 2 * (part.contribution - w * part.value) <= w + 1
                            /\ 2 * (w * part.value - part.contribution) <= w + 1
           Plain(part, w) == part.value \in Int /\ part.contribution = w * part.value
<1>3. \A v \in Int, w \in Nat : Plain(Exact(v, w), w) /\ Good(Exact(v, w), w)
  BY DEF Exact
<1>4. \A n, d \in Int, w \in Nat : d >= 16 => Good(Ratio(n, d, w), w)
  BY RatioNear
<1>. HIDE DEF Good, Plain
<1>5. Plain(Components(m, q).task_fit, 45) /\ Good(Components(m, q).task_fit, 45)
  <2>1. \A k \in Int : Blend(m, m.taskScore, 7000 + 1000 * k) \in Int
    BY <1>1, BlendIsNumber
  <2>2. Blend(m, m.taskScore, 7000 + 1000 * Cardinality(m.strengths \cap Optional[q.type])) \in Int
    BY <1>2, <2>1
  <2>. QED  BY <1>3, <2>2 DEF Components
<1>6. Plain(Components(m, q).overall, 28) /\ Good(Components(m, q).overall, 28)
  <2>1. Blend(m, m.overall, 2500 * m.tier) \in Int
    BY <1>1, BlendIsNumber
  <2>. QED  BY <1>3, <2>1 DEF Components
<1>7. Plain(Components(m, q).reliability, 4) /\ Good(Components(m, q).reliability, 4)
  <2>1. Blend(m, m.reliability, 7500) \in Int
    BY <1>1, BlendIsNumber
  <2>. QED  BY <1>3, <2>1 DEF Components
<1>8. Good(Components(m, q).readiness, 10)
  <2>1. m.tier * 16 \in Int /\ DesiredTier[q.difficulty] * 16 \in Int /\ DesiredTier[q.difficulty] * 16 >= 16
    BY <1>1, Targets
  <2>. QED  BY <1>4, <2>1 DEF Components
<1>9. Good(Components(m, q).headroom, 8)
  <2>1. /\ Greater(q.estimate, ContextTarget[q.difficulty]) \in Int
        /\ Greater(q.estimate, ContextTarget[q.difficulty]) >= 16
    BY Targets DEF Greater
  <2>. QED  BY <1>2, <1>4, <2>1 DEF Components
<1>10. Good(Components(m, q).output, 5)
  <2>1. OutputTarget[q.difficulty] \in Int /\ OutputTarget[q.difficulty] >= 16 /\ m.maxOut \in Int
    BY <1>1, Targets
  <2>. QED  BY <1>4, <2>1 DEF Components
<1>11. Good(Components(m, q)[c], Weight[c])
  BY <1>5, <1>6, <1>7, <1>8, <1>9, <1>10 DEF Component, Weight
<1>12. c \in Droppable \cup {"overall"} => Plain(Components(m, q)[c], Weight[c])
  BY <1>5, <1>6, <1>7 DEF Component, Weight, Droppable
<1>. QED  BY <1>11, <1>12 DEF Good, Plain
-----------------------------------------------------------------------------
(* What a score is. *)

(* One member of a sum, whether or not it is there. *)
LEMMA SumTake ==
  ASSUME NEW S, IsFiniteSet(S), NEW f, \A x \in S : f[x] \in Int, NEW e
  PROVE  /\ SumOver(S, f) = (IF e \in S THEN f[e] ELSE 0) + SumOver(S \ {e}, f)
         /\ IsFiniteSet(S \ {e}) /\ \A x \in S \ {e} : f[x] \in Int
         /\ SumOver(S \ {e}, f) \in Int
<1>1. IsFiniteSet(S \ {e}) /\ \A x \in S \ {e} : f[x] \in Int
  BY FS_Subset
<1>2. SumOver(S \ {e}, f) \in Int
  BY <1>1, SumInt
<1>3. CASE e \in S
  BY <1>1, <1>2, <1>3, SumWithout
<1>4. CASE e \notin S
  <2>1. S \ {e} = S
    BY <1>4
  <2>2. SumOver(S \ {e}, f) = SumOver(S, f)
    BY <2>1, Zenon
  <2>. QED  BY <1>1, <1>2, <1>4, <2>2
<1>. QED  BY <1>3, <1>4

LEMMA ComponentsAreFinite ==
  /\ Component = {"task_fit", "overall", "readiness", "headroom", "output", "reliability"}
  /\ IsFiniteSet(Component)
<1>1. Component = {"task_fit", "overall", "readiness", "headroom", "output", "reliability"}
  BY DEF Component, Weight
<1>2. \A a, b, c, d, e, f : IsFiniteSet({a, b, c, d, e, f})
  <2>. TAKE a, b, c, d, e, f
  <2>1. \A S, x : IsFiniteSet(S) => IsFiniteSet(S \cup {x})
    BY FS_AddElement
  <2>2. IsFiniteSet((((({a} \cup {b}) \cup {c}) \cup {d}) \cup {e}) \cup {f})
    BY <2>1, FS_Singleton
  <2>3. (((({a} \cup {b}) \cup {c}) \cup {d}) \cup {e}) \cup {f} = {a, b, c, d, e, f}
    OBVIOUS
  <2>. QED  BY <2>2, <2>3
<1>. QED  BY <1>1, <1>2, Zenon

(* A sum over the components, or all but some that may be dropped. *)
LEMMA SumOfParts ==
  ASSUME NEW D \in SUBSET Droppable, NEW f, \A c \in Component \ D : f[c] \in Int
  PROVE  SumOver(Component \ D, f) =
           (IF "task_fit" \in D THEN 0 ELSE f["task_fit"]) + f["overall"] + f["readiness"]
           + f["headroom"] + f["output"] + (IF "reliability" \in D THEN 0 ELSE f["reliability"])
<1> DEFINE A == Component \ D
           B == A \ {"task_fit"}
           C == B \ {"overall"}
           E == C \ {"readiness"}
           F == E \ {"headroom"}
           G == F \ {"output"}
           H == G \ {"reliability"}
           Fine(S) == IsFiniteSet(S) /\ \A x \in S : f[x] \in Int
           Took(S, T, e) == /\ SumOver(S, f) = (IF e \in S THEN f[e] ELSE 0) + SumOver(T, f)
                            /\ SumOver(T, f) \in Int
<1>1. \A S, e : Fine(S) => Took(S, S \ {e}, e) /\ Fine(S \ {e})
  <2>. SUFFICES ASSUME NEW S, NEW e, Fine(S) PROVE Took(S, S \ {e}, e) /\ Fine(S \ {e})
    OBVIOUS
  <2>. QED  BY SumTake
<1>2. Fine(A)
  BY ComponentsAreFinite, FS_Subset
<1>3. /\ Took(A, B, "task_fit") /\ Took(B, C, "overall") /\ Took(C, E, "readiness")
      /\ Took(E, F, "headroom") /\ Took(F, G, "output") /\ Took(G, H, "reliability")
  <2>. HIDE DEF Fine, Took
  <2>1. Took(A, B, "task_fit") /\ Fine(B)
    BY <1>1, <1>2
  <2>2. Took(B, C, "overall") /\ Fine(C)
    BY <1>1, <2>1
  <2>3. Took(C, E, "readiness") /\ Fine(E)
    BY <1>1, <2>2
  <2>4. Took(E, F, "headroom") /\ Fine(F)
    BY <1>1, <2>3
  <2>5. Took(F, G, "output") /\ Fine(G)
    BY <1>1, <2>4
  <2>6. Took(G, H, "reliability")
    BY <1>1, <2>5
  <2>. QED  BY <2>1, <2>2, <2>3, <2>4, <2>5, <2>6
<1>4. /\ "task_fit" \in A <=> "task_fit" \notin D
      /\ "overall" \in B /\ "readiness" \in C /\ "headroom" \in E /\ "output" \in F
      /\ "reliability" \in G <=> "reliability" \notin D
      /\ H = {}
  BY ComponentsAreFinite DEF Droppable
<1>5. SumOver(H, f) = 0
  BY <1>4, SumEmpty
<1>6. /\ f["overall"] \in Int /\ f["readiness"] \in Int /\ f["headroom"] \in Int /\ f["output"] \in Int
      /\ "task_fit" \notin D => f["task_fit"] \in Int
      /\ "reliability" \notin D => f["reliability"] \in Int
  BY ComponentsAreFinite DEF Droppable
<1>7. SumOver(A, f) =
        (IF "task_fit" \in D THEN 0 ELSE f["task_fit"]) + f["overall"] + f["readiness"]
        + f["headroom"] + f["output"] + (IF "reliability" \in D THEN 0 ELSE f["reliability"])
  <2>. HIDE DEF A, B, C, E, F, G, H
  <2>1. /\ SumOver(A, f) = (IF "task_fit" \in D THEN 0 ELSE f["task_fit"]) + SumOver(B, f)
        /\ SumOver(B, f) = f["overall"] + SumOver(C, f)
        /\ SumOver(C, f) = f["readiness"] + SumOver(E, f)
        /\ SumOver(E, f) = f["headroom"] + SumOver(F, f)
        /\ SumOver(F, f) = f["output"] + SumOver(G, f)
        /\ SumOver(G, f) = (IF "reliability" \in D THEN 0 ELSE f["reliability"]) + SumOver(H, f)
    BY <1>3, <1>4
  <2>2. /\ SumOver(B, f) \in Int /\ SumOver(C, f) \in Int /\ SumOver(E, f) \in Int
        /\ SumOver(F, f) \in Int /\ SumOver(G, f) \in Int
    BY <1>3
  <2>. HIDE DEF Took
  <2>. QED  BY <1>5, <1>6, <2>1, <2>2
<1>. QED  BY <1>7

LEMMA WeightLeft ==
  ASSUME NEW D \in SUBSET Droppable
  PROVE  SumOver(Component \ D, Weight) \in 1..100
<1>1. \A c \in Component \ D : Weight[c] \in Int
  BY ComponentsAreFinite DEF Weight
<1>. QED  BY <1>1, SumOfParts DEF Weight

ShareOf(m, q, weight) ==
  [c \in Component |-> Rounded(Components(m, q)[c].value * Weight[c] * 100, weight)]

LEMMA DroppedSet ==
  ASSUME NEW S, NEW q
  PROVE  Uninformative(S, q) \in SUBSET Droppable
BY DEF Uninformative

(* A score is the sum of the contributions, or of the shares of the        *)
(* weights that are left.                                                  *)
LEMMA ScoreIs ==
  ASSUME NEW m \in Models, NEW q \in Question, NEW S
  PROVE  LET D == Uninformative(S, q)
             part == Components(m, q)
             share == ShareOf(m, q, SumOver(Component \ D, Weight))
         IN  /\ \A c \in Component : part[c].contribution \in Int /\ share[c] \in Int
             /\ D = {} => Score(m, S, q) =
                  part["task_fit"].contribution + part["overall"].contribution
                  + part["readiness"].contribution + part["headroom"].contribution
                  + part["output"].contribution + part["reliability"].contribution
             /\ D # {} => Score(m, S, q) =
                  (IF "task_fit" \in D THEN 0 ELSE share["task_fit"]) + share["overall"]
                  + share["readiness"] + share["headroom"] + share["output"]
                  + (IF "reliability" \in D THEN 0 ELSE share["reliability"])
<1> DEFINE D == Uninformative(S, q)
           part == Components(m, q)
           weight == SumOver(Component \ D, Weight)
           share == ShareOf(m, q, weight)
           raw == [c \in Component |-> part[c].contribution]
           kept == [c \in Component \ D |-> Rounded(part[c].value * Weight[c] * 100, weight)]
<1>1. D \in SUBSET Droppable
  BY DroppedSet
<1>2. weight \in Nat \ {0}
  <2>. HIDE DEF D
  <2>. QED  BY <1>1, WeightLeft
<1>3. \A c \in Component : /\ part[c].value \in Int /\ part[c].contribution \in Int
                           /\ Weight[c] \in Int
  <2>1. \A c \in Component : Weight[c] \in Int
    BY ComponentsAreFinite DEF Weight
  <2>. QED  BY <2>1, PartsNear
<1>4. \A c \in Component : share[c] \in Int
  <2>. TAKE c \in Component
  <2>1. part[c].value * Weight[c] * 100 \in Int
    <3>. HIDE DEF part
    <3>. QED  BY <1>3
  <2>2. Rounded(part[c].value * Weight[c] * 100, weight) \in Int
    <3>. HIDE DEF part, weight
    <3>. QED  BY <1>2, <2>1, RoundedNear
  <2>. QED  BY <2>2 DEF ShareOf
<1>5. ASSUME D = {}
      PROVE  Score(m, S, q) =
                  part["task_fit"].contribution + part["overall"].contribution
                  + part["readiness"].contribution + part["headroom"].contribution
                  + part["output"].contribution + part["reliability"].contribution
  <2>1. Score(m, S, q) = SumOver(Component, raw)
    BY <1>5 DEF Score
  <2>2. \A c \in Component : raw[c] = part[c].contribution
    OBVIOUS
  <2>3. \A c \in Component : raw[c] \in Int
    BY <1>3
  <2>4. Component \ {} = Component /\ {} \in SUBSET Droppable
    OBVIOUS
  <2>5. SumOver(Component \ {}, raw) =
          (IF "task_fit" \in {} THEN 0 ELSE raw["task_fit"]) + raw["overall"] + raw["readiness"]
          + raw["headroom"] + raw["output"] + (IF "reliability" \in {} THEN 0 ELSE raw["reliability"])
    <3>1. \A c \in Component \ {} : raw[c] \in Int
      BY <2>3
    <3>. HIDE DEF raw
    <3>. QED  BY <2>4, <3>1, SumOfParts
  <2>6. SumOver(Component, raw) = raw["task_fit"] + raw["overall"] + raw["readiness"]
          + raw["headroom"] + raw["output"] + raw["reliability"]
    <3>. HIDE DEF raw
    <3>. QED  BY <2>4, <2>5
  <2>7. {"task_fit", "overall", "readiness", "headroom", "output", "reliability"} \subseteq Component
    BY ComponentsAreFinite
  <2>. HIDE DEF raw, part
  <2>. QED  BY <2>1, <2>2, <2>6, <2>7
<1>6. ASSUME D # {}
      PROVE  Score(m, S, q) =
                  (IF "task_fit" \in D THEN 0 ELSE share["task_fit"]) + share["overall"]
                  + share["readiness"] + share["headroom"] + share["output"]
                  + (IF "reliability" \in D THEN 0 ELSE share["reliability"])
  <2>1. Score(m, S, q) = SumOver(Component \ D, kept)
    BY <1>6 DEF Score, Reweighted
  <2>2. \A c \in Component \ D : kept[c] = share[c]
    BY DEF ShareOf
  <2>3. \A c \in Component \ D : kept[c] \in Int
    <3>. HIDE DEF kept, share
    <3>. QED  BY <1>4, <2>2
  <2>4. SumOver(Component \ D, kept) =
          (IF "task_fit" \in D THEN 0 ELSE kept["task_fit"]) + kept["overall"] + kept["readiness"]
          + kept["headroom"] + kept["output"] + (IF "reliability" \in D THEN 0 ELSE kept["reliability"])
    <3>. HIDE DEF kept, D
    <3>. QED  BY <1>1, <2>3, SumOfParts
  <2>5. /\ {"overall", "readiness", "headroom", "output"} \subseteq Component \ D
        /\ "task_fit" \in Component \ D \/ "task_fit" \in D
        /\ "reliability" \in Component \ D \/ "reliability" \in D
    BY <1>1, ComponentsAreFinite DEF Droppable
  <2>. HIDE DEF kept, share, D
  <2>. QED  BY <2>1, <2>2, <2>4, <2>5
<1>. QED  BY <1>3, <1>4, <1>5, <1>6

LEMMA ScoresAreNumbers ==
  ASSUME NEW m \in Models, NEW q \in Question, NEW S
  PROVE  Score(m, S, q) \in Int
<1> DEFINE D == Uninformative(S, q)
           part == Components(m, q)
           share == ShareOf(m, q, SumOver(Component \ D, Weight))
<1>1. \A c \in Component : part[c].contribution \in Int /\ share[c] \in Int
  BY ScoreIs
<1>2. {"task_fit", "overall", "readiness", "headroom", "output", "reliability"} \subseteq Component
  BY ComponentsAreFinite
<1>3. CASE D = {}
  <2>1. Score(m, S, q) =
                  part["task_fit"].contribution + part["overall"].contribution
                  + part["readiness"].contribution + part["headroom"].contribution
                  + part["output"].contribution + part["reliability"].contribution
    BY <1>3, ScoreIs
  <2>. HIDE DEF part, share, D
  <2>. QED  BY <1>1, <1>2, <2>1
<1>4. CASE D # {}
  <2>1. Score(m, S, q) =
                  (IF "task_fit" \in D THEN 0 ELSE share["task_fit"]) + share["overall"]
                  + share["readiness"] + share["headroom"] + share["output"]
                  + (IF "reliability" \in D THEN 0 ELSE share["reliability"])
    BY <1>4, ScoreIs
  <2>. HIDE DEF part, share, D
  <2>. QED  BY <1>1, <1>2, <2>1
<1>. QED  BY <1>3, <1>4
-----------------------------------------------------------------------------
(* Reweighting. *)

(* What is dropped is the same for all candidates. *)
LEMMA SharedPriors ==
  ASSUME NEW S, IsFiniteSet(S), NEW q, NEW m \in S, NEW n \in S, NEW c \in Uninformative(S, q)
  PROVE  Components(m, q)[c].value = Components(n, q)[c].value
<1> DEFINE Values == {Components(x, q)[c].value : x \in S}
<1>1. c \in Droppable /\ Cardinality(Values) = 1
  BY DEF Uninformative
<1>2. IsFiniteSet(Values)
  <2> DEFINE f == [x \in S |-> Components(x, q)[c].value]
  <2>1. f \in [S -> Values] /\ \A v \in Values : \E x \in S : f[x] = v
    OBVIOUS
  <2>2. f \in Surjection(S, Values)
    <3>. HIDE DEF f, Values
    <3>. QED  BY <2>1, Fun_IsSurj
  <2>. HIDE DEF f, Values
  <2>. QED  BY <2>2, FS_Surjection
<1>3. PICK v : Values = {v}
  <2>. HIDE DEF Values
  <2>. QED  BY <1>1, <1>2, FS_Singleton
<1>. QED  BY <1>3

(* What two shares of one weight differ by. *)
LEMMA ShareApart ==
  ASSUME NEW weight \in 1..100, NEW x \in Int, NEW y \in Int
  PROVE  LET a == Rounded(x * 100, weight)
             b == Rounded(y * 100, weight)
         IN  /\ a \in Int /\ b \in Int
             /\ 2 * (weight * (a - b)) >= 200 * (x - y) - 2 * weight
<1> DEFINE a == Rounded(x * 100, weight)
           b == Rounded(y * 100, weight)
<1>1. x * 100 \in Int /\ y * 100 \in Int /\ weight \in Nat \ {0}
  OBVIOUS
<1>2. /\ a \in Int /\ 2 * (weight * a) >= 2 * (x * 100) - weight
      /\ b \in Int /\ 2 * (weight * b) <= 2 * (y * 100) + weight
  BY <1>1, RoundedNear
<1>3. 2 * (weight * (a - b)) >= 200 * (x - y) - 2 * weight
  <2>. HIDE DEF a, b
  <2>1. weight * (a - b) = weight * a - weight * b /\ weight * a \in Int /\ weight * b \in Int
    BY <1>1, <1>2
  <2>. QED  BY <1>1, <1>2, <2>1
<1>. QED  BY <1>2, <1>3

(* Six shares of a weight keep an order that rounding cannot make up. *)
LEMMA SumApart ==
  ASSUME NEW weight \in 1..100,
         NEW d1 \in Int, NEW d2 \in Int, NEW d3 \in Int, NEW d4 \in Int, NEW d5 \in Int, NEW d6 \in Int,
         NEW c1 \in Int, NEW c2 \in Int, NEW c3 \in Int, NEW c4 \in Int, NEW c5 \in Int, NEW c6 \in Int,
         c1 + c2 + c3 + c4 + c5 + c6 > 100,
         2 * (weight * d1) >= 200 * c1 - 2 * weight,
         2 * (weight * d2) >= 200 * c2 - 2 * weight,
         2 * (weight * d3) >= 200 * (c3 - 11) - 2 * weight,
         2 * (weight * d4) >= 200 * (c4 - 9) - 2 * weight,
         2 * (weight * d5) >= 200 * (c5 - 6) - 2 * weight,
         2 * (weight * d6) >= 200 * c6 - 2 * weight
  PROVE  d1 + d2 + d3 + d4 + d5 + d6 > 0
<1> DEFINE d == d1 + d2 + d3 + d4 + d5 + d6
<1>1. /\ weight * d = weight * d1 + weight * d2 + weight * d3 + weight * d4 + weight * d5 + weight * d6
      /\ weight * d1 \in Int /\ weight * d2 \in Int /\ weight * d3 \in Int
      /\ weight * d4 \in Int /\ weight * d5 \in Int /\ weight * d6 \in Int /\ d \in Int
  OBVIOUS
<1>2. 2 * (weight * d) >= 200 * (c1 + c2 + c3 + c4 + c5 + c6 - 26) - 12 * weight
  <2>. HIDE DEF d
  <2>. QED  BY <1>1
<1>3. 2 * (weight * d) > 0
  <2>. HIDE DEF d
  <2>. QED  BY <1>1, <1>2
<1>4. d > 0
  <2>. HIDE DEF d
  <2>1. ASSUME d <= 0 PROVE FALSE
    <3>1. weight * d <= 0
      BY <1>1, <2>1
    <3>. QED  BY <1>1, <1>3, <3>1
  <2>. QED  BY <1>1, <2>1
<1>. QED  BY <1>4

RawScore(m, q) == SumOver(Component, [c \in Component |-> Components(m, q)[c].contribution])

LEMMA RawIs ==
  ASSUME NEW m \in Models, NEW q \in Question
  PROVE  LET part == Components(m, q) IN
         RawScore(m, q) = part["task_fit"].contribution + part["overall"].contribution
                  + part["readiness"].contribution + part["headroom"].contribution
                  + part["output"].contribution + part["reliability"].contribution
<1>1. Uninformative({}, q) = {}
  BY FS_EmptySet DEF Uninformative
<1>2. Score(m, {}, q) = RawScore(m, q)
  BY <1>1 DEF Score, RawScore
<1>. QED  BY <1>1, <1>2, ScoreIs

(* Reweighting keeps what more than rounding told apart. *)
LEMMA ReweightingKeepsOrder ==
  ASSUME NEW S \in SUBSET Models, IsFiniteSet(S), NEW q \in Question, NEW m \in S, NEW n \in S,
         RawScore(m, q) > RawScore(n, q) + 100
  PROVE  Score(m, S, q) > Score(n, S, q)
<1> DEFINE D == Uninformative(S, q)
           weight == SumOver(Component \ D, Weight)
           pm == Components(m, q)
           pn == Components(n, q)
           sm == ShareOf(m, q, weight)
           sn == ShareOf(n, q, weight)
           Gap(c) == pm[c].contribution - pn[c].contribution
           Part(s, c) == IF c \in D THEN 0 ELSE s[c]
           Apart(c) == Part(sm, c) - Part(sn, c)
           slack == [task_fit |-> 0, overall |-> 0, readiness |-> 11, headroom |-> 9,
                     output |-> 6, reliability |-> 0]
<1>1. D \in SUBSET Droppable /\ weight \in 1..100
  BY DroppedSet, WeightLeft
<1>2. \A c \in Component :
        /\ pm[c].contribution \in Int /\ pn[c].contribution \in Int
        /\ sm[c] \in Int /\ sn[c] \in Int
  BY ScoreIs
<1>3. \A c \in Component :
        2 * (weight * Apart(c)) >= 200 * (Gap(c) - slack[c]) - 2 * weight
  <2>. TAKE c \in Component
  <2>1. /\ Weight[c] \in Nat /\ slack[c] \in Nat
        /\ c \notin Droppable \cup {"overall"} => slack[c] = Weight[c] + 1
    BY ComponentsAreFinite DEF Weight, Droppable
  <2>2. CASE c \in D
    <3>1. pm[c].value = pn[c].value
      BY <2>2, SharedPriors
    <3>2. Gap(c) = 0
      <4>1. /\ pm[c].contribution = Weight[c] * pm[c].value /\ pn[c].contribution = Weight[c] * pn[c].value
        BY <1>1, <2>2, PartsNear
      <4>2. pm[c].contribution = pn[c].contribution
        BY <3>1, <4>1
      <4>. HIDE DEF pm, pn
      <4>. QED  BY <1>2, <4>2
    <3>3. Apart(c) = 0
      BY <2>2
    <3>. HIDE DEF Apart, Gap, slack
    <3>. QED  BY <1>1, <2>1, <3>2, <3>3
  <2>3. CASE c \notin D
    <3> DEFINE x == pm[c].value * Weight[c]
               y == pn[c].value * Weight[c]
    <3>1. /\ pm[c].value \in Int /\ pn[c].value \in Int
          /\ 2 * (pm[c].contribution - Weight[c] * pm[c].value) <= Weight[c] + 1
          /\ 2 * (Weight[c] * pn[c].value - pn[c].contribution) <= Weight[c] + 1
          /\ c \in Droppable \cup {"overall"} =>
               /\ pm[c].contribution = Weight[c] * pm[c].value
               /\ pn[c].contribution = Weight[c] * pn[c].value
      BY PartsNear
    <3>2. x \in Int /\ y \in Int /\ x = Weight[c] * pm[c].value /\ y = Weight[c] * pn[c].value
      <4>. HIDE DEF pm, pn
      <4>. QED  BY <2>1, <3>1
    <3>3. x - y >= Gap(c) - slack[c]
      <4>. HIDE DEF x, y, pm, pn, slack
      <4>1. CASE c \in Droppable \cup {"overall"}
        BY <1>2, <2>1, <3>1, <3>2, <4>1
      <4>2. CASE c \notin Droppable \cup {"overall"}
        BY <1>2, <2>1, <3>1, <3>2, <4>2
      <4>. QED  BY <4>1, <4>2
    <3>4. Apart(c) = sm[c] - sn[c]
      BY <2>3
    <3>5. sm[c] = Rounded(x * 100, weight) /\ sn[c] = Rounded(y * 100, weight)
      BY DEF ShareOf
    <3>6. 2 * (weight * (sm[c] - sn[c])) >= 200 * (x - y) - 2 * weight
      <4>. HIDE DEF x, y, sm, sn, weight
      <4>1. /\ Rounded(x * 100, weight) = sm[c] /\ Rounded(y * 100, weight) = sn[c]
            /\ x \in Int /\ y \in Int /\ weight \in 1..100
        BY <1>1, <3>2, <3>5
      <4>. QED  BY <4>1, ShareApart
    <3>. HIDE DEF x, y, sm, sn, weight, pm, pn, slack, Apart
    <3>. QED  BY <1>1, <1>2, <2>1, <3>2, <3>3, <3>4, <3>6
  <2>. QED  BY <2>2, <2>3
<1>4. /\ slack["task_fit"] = 0 /\ slack["overall"] = 0 /\ slack["readiness"] = 11
      /\ slack["headroom"] = 9 /\ slack["output"] = 6 /\ slack["reliability"] = 0
  OBVIOUS
<1>5. {"task_fit", "overall", "readiness", "headroom", "output", "reliability"} \subseteq Component
  BY ComponentsAreFinite
<1>6. \A c \in Component : Gap(c) \in Int /\ Apart(c) \in Int
  <2>. HIDE DEF pm, pn, sm, sn, D
  <2>. QED  BY <1>2
<1>7. Gap("task_fit") + Gap("overall") + Gap("readiness") + Gap("headroom") + Gap("output")
        + Gap("reliability") > 100
  <2>1. /\ RawScore(m, q) = pm["task_fit"].contribution + pm["overall"].contribution
                  + pm["readiness"].contribution + pm["headroom"].contribution
                  + pm["output"].contribution + pm["reliability"].contribution
        /\ RawScore(n, q) = pn["task_fit"].contribution + pn["overall"].contribution
                  + pn["readiness"].contribution + pn["headroom"].contribution
                  + pn["output"].contribution + pn["reliability"].contribution
    BY RawIs
  <2>. HIDE DEF pm, pn
  <2>. QED  BY <1>2, <1>5, <2>1
<1>8. CASE D = {}
  <2>1. Score(m, S, q) = RawScore(m, q) /\ Score(n, S, q) = RawScore(n, q)
    BY <1>8, ScoreIs, RawIs
  <2>2. RawScore(m, q) \in Int /\ RawScore(n, q) \in Int
    BY <2>1, ScoresAreNumbers
  <2>. QED  BY <2>1, <2>2
<1>9. CASE D # {}
  <2>1. Apart("task_fit") + Apart("overall") + Apart("readiness") + Apart("headroom")
          + Apart("output") + Apart("reliability") > 0
    <3>1. /\ 2 * (weight * Apart("task_fit")) >= 200 * Gap("task_fit") - 2 * weight
          /\ 2 * (weight * Apart("overall")) >= 200 * Gap("overall") - 2 * weight
          /\ 2 * (weight * Apart("readiness")) >= 200 * (Gap("readiness") - 11) - 2 * weight
          /\ 2 * (weight * Apart("headroom")) >= 200 * (Gap("headroom") - 9) - 2 * weight
          /\ 2 * (weight * Apart("output")) >= 200 * (Gap("output") - 6) - 2 * weight
          /\ 2 * (weight * Apart("reliability")) >= 200 * Gap("reliability") - 2 * weight
      <4>. HIDE DEF slack, Apart, Gap, weight
      <4>. QED  BY <1>3, <1>4, <1>5, <1>6
    <3>2. /\ Gap("task_fit") \in Int /\ Gap("overall") \in Int /\ Gap("readiness") \in Int
          /\ Gap("headroom") \in Int /\ Gap("output") \in Int /\ Gap("reliability") \in Int
          /\ Apart("task_fit") \in Int /\ Apart("overall") \in Int /\ Apart("readiness") \in Int
          /\ Apart("headroom") \in Int /\ Apart("output") \in Int /\ Apart("reliability") \in Int
      <4>. HIDE DEF Apart, Gap
      <4>. QED  BY <1>5, <1>6
    <3>. HIDE DEF slack, Apart, Gap, weight
    <3>. QED  BY <1>1, <1>7, <3>1, <3>2, SumApart
  <2>2. /\ Score(m, S, q) = Part(sm, "task_fit") + Part(sm, "overall") + Part(sm, "readiness")
             + Part(sm, "headroom") + Part(sm, "output") + Part(sm, "reliability")
        /\ Score(n, S, q) = Part(sn, "task_fit") + Part(sn, "overall") + Part(sn, "readiness")
             + Part(sn, "headroom") + Part(sn, "output") + Part(sn, "reliability")
    <3>1. /\ Score(m, S, q) = (IF "task_fit" \in D THEN 0 ELSE sm["task_fit"]) + sm["overall"]
               + sm["readiness"] + sm["headroom"] + sm["output"]
               + (IF "reliability" \in D THEN 0 ELSE sm["reliability"])
          /\ Score(n, S, q) = (IF "task_fit" \in D THEN 0 ELSE sn["task_fit"]) + sn["overall"]
               + sn["readiness"] + sn["headroom"] + sn["output"]
               + (IF "reliability" \in D THEN 0 ELSE sn["reliability"])
      BY <1>9, ScoreIs
    <3>2. "overall" \notin D /\ "readiness" \notin D /\ "headroom" \notin D /\ "output" \notin D
      BY <1>1 DEF Droppable
    <3>. HIDE DEF D, sm, sn
    <3>. QED  BY <3>1, <3>2
  <2>3. \A c \in Component : Part(sm, c) \in Int /\ Part(sn, c) \in Int
    <3>. HIDE DEF D, sm, sn
    <3>. QED  BY <1>2
  <2>4. \A c \in {"task_fit", "overall", "readiness", "headroom", "output", "reliability"} :
          Part(sm, c) \in Int /\ Part(sn, c) \in Int
    BY <1>5, <2>3
  <2>5. /\ Part(sm, "task_fit") \in Int /\ Part(sn, "task_fit") \in Int
        /\ Part(sm, "overall") \in Int /\ Part(sn, "overall") \in Int
        /\ Part(sm, "readiness") \in Int /\ Part(sn, "readiness") \in Int
        /\ Part(sm, "headroom") \in Int /\ Part(sn, "headroom") \in Int
        /\ Part(sm, "output") \in Int /\ Part(sn, "output") \in Int
        /\ Part(sm, "reliability") \in Int /\ Part(sn, "reliability") \in Int
    <3>. HIDE DEF Part
    <3>. QED  BY <2>4
  <2>6. Score(m, S, q) \in Int /\ Score(n, S, q) \in Int
    BY ScoresAreNumbers
  <2>. HIDE DEF Part, D, sm, sn
  <2>. QED  BY <2>1, <2>2, <2>5, <2>6
<1>. QED  BY <1>8, <1>9
-----------------------------------------------------------------------------
(* The keys. *)

(* What Python's comparison of tuples says of their first two places. *)
LEMMA LessAtHead ==
  ASSUME NEW s \in Seq(Int), NEW t \in Seq(Int), Less(s, t), Len(s) >= 2, Len(t) >= 2
  PROVE  s[1] < t[1] \/ (s[1] = t[1] /\ s[2] <= t[2])
<1>1. PICK i \in 1..Lesser(Len(s), Len(t)) : s[i] < t[i] /\ \A j \in 1..(i - 1) : s[j] = t[j]
  BY DEF Less
<1>2. Len(s) \in Nat /\ Len(t) \in Nat
  OBVIOUS
<1>3. i \in Nat \ {0} /\ i <= Len(s) /\ i <= Len(t)
  BY <1>2 DEF Lesser
<1>4. s[1] \in Int /\ t[1] \in Int /\ s[2] \in Int /\ t[2] \in Int
  BY <1>2
<1>5. CASE i = 1
  BY <1>1, <1>5
<1>6. CASE i = 2
  <2>1. 1 \in 1..(i - 1)
    BY <1>6
  <2>. QED  BY <1>1, <1>4, <1>6, <2>1
<1>7. CASE i > 2
  <2>1. 1 \in 1..(i - 1) /\ 2 \in 1..(i - 1)
    BY <1>3, <1>7
  <2>. QED  BY <1>1, <1>4, <2>1
<1>. QED  BY <1>3, <1>5, <1>6, <1>7

Valued(S, score) == \A m \in S : score[m] \in Int

LEMMA KeyNumbers ==
  ASSUME NEW S \in SUBSET Models, NEW m \in S, NEW score, Valued(S, score)
  PROVE  /\ m.id \in Int /\ m.tier \in Int /\ m.costIn \in Int /\ m.costOut \in Int
         /\ Cash(m) \in Int /\ score[m] \in Int
BY DEF Models, Cash, Valued

LEMMA Tuples ==
  /\ \A a, b \in Int : <<a, b>> \in Seq(Int)
  /\ \A a, b, c, d \in Int : <<a, b, c, d>> \in Seq(Int)
  /\ \A a, b, c, d, e \in Int : <<a, b, c, d, e>> \in Seq(Int)
  /\ \A a, b, c, d, e, f \in Int : <<a, b, c, d, e, f>> \in Seq(Int)
OBVIOUS

(* The id is the last place of every key. *)
KeyTold(m, score, S, q, aim) ==
  LET k == Key(m, score, S, q, aim) IN
  \/ aim = "quality" /\ k = <<-score[m], -m.tier, Cash(m), m.id>>
  \/ aim = "local" /\ k = <<No(m.local), -score[m], -m.tier, Cash(m), m.id>>
  \/ aim = "cheap" /\ k = <<m.costOut, m.costIn, -score[m], -m.tier, m.id>>
  \/ /\ aim = "cash_protect_quota" /\ m \in Pool(S, q)
     /\ k = <<0, Cash(m), m.tier, -score[m], m.id>>
  \/ /\ aim = "cash_protect_quota" /\ m \notin Pool(S, q)
     /\ \E a, b \in Int : k = <<1, a, Cash(m), b, -score[m], m.id>>

LEMMA KeysTold ==
  ASSUME NEW S \in SUBSET Models, NEW score, Valued(S, score), NEW q \in Question,
         NEW aim \in Objective, NEW m \in S
  PROVE  KeyTold(m, score, S, q, aim) /\ Key(m, score, S, q, aim) \in Seq(Int)
<1>1. /\ m.id \in Int /\ m.tier \in Int /\ m.costIn \in Int /\ m.costOut \in Int
      /\ Cash(m) \in Int /\ score[m] \in Int /\ -score[m] \in Int /\ -m.tier \in Int
      /\ No(m.local) \in Int /\ 0 \in Int /\ 1 \in Int
  <2>1. No(m.local) \in Int
    BY DEF No
  <2>2. \A x \in Int : -x \in Int
    OBVIOUS
  <2>. QED  BY <2>1, <2>2, KeyNumbers
<1>2. DesiredTier[q.difficulty] \in Int
  BY Targets
<1> DEFINE k == Key(m, score, S, q, aim)
<1>4. CASE aim = "quality"
  <2>1. k = <<-score[m], -m.tier, Cash(m), m.id>>
    BY <1>4 DEF Key, QualityKey
  <2>2. k \in Seq(Int)
    <3>. HIDE DEF k
    <3>. QED  BY <1>1, <2>1, Tuples
  <2>. QED  BY <1>4, <2>1, <2>2, Zenon DEF KeyTold
<1>5. CASE aim = "local"
  <2>1. k = <<No(m.local), -score[m], -m.tier, Cash(m), m.id>>
    BY <1>5 DEF Key, LocalKey
  <2>2. k \in Seq(Int)
    <3>. HIDE DEF k
    <3>. QED  BY <1>1, <2>1, Tuples
  <2>. QED  BY <1>5, <2>1, <2>2, Zenon DEF KeyTold
<1>6. CASE aim = "cheap"
  <2>1. k = <<m.costOut, m.costIn, -score[m], -m.tier, m.id>>
    BY <1>6 DEF Key, CheapKey
  <2>2. k \in Seq(Int)
    <3>. HIDE DEF k
    <3>. QED  BY <1>1, <2>1, Tuples
  <2>. QED  BY <1>6, <2>1, <2>2, Zenon DEF KeyTold
<1>7. CASE aim = "cash_protect_quota" /\ m \in Pool(S, q)
  <2>1. k = <<0, Cash(m), m.tier, -score[m], m.id>>
    BY <1>7 DEF Key, QuotaKey
  <2>2. k \in Seq(Int)
    <3>. HIDE DEF k
    <3>. QED  BY <1>1, <2>1, Tuples
  <2>. QED  BY <1>7, <2>1, <2>2, Zenon DEF KeyTold
<1>8. CASE aim = "cash_protect_quota" /\ m \notin Pool(S, q)
  <2> DEFINE a == IF q.difficulty = "hard" THEN 0 ELSE No(m.billing \notin Subscription)
             b == Greater(m.tier - DesiredTier[q.difficulty], DesiredTier[q.difficulty] - m.tier)
  <2>1. k = <<1, a, Cash(m), b, -score[m], m.id>>
    BY <1>8 DEF Key, QuotaKey
  <2>2. a \in Int
    BY DEF No
  <2>3. b \in Int
    BY <1>1, <1>2 DEF Greater
  <2>. HIDE DEF a, b
  <2>4. k \in Seq(Int)
    <3>. HIDE DEF k
    <3>. QED  BY <1>1, <2>1, <2>2, <2>3, Tuples
  <2>. QED  BY <1>8, <2>1, <2>2, <2>3, <2>4, Zenon DEF KeyTold
<1>. QED  BY <1>4, <1>5, <1>6, <1>7, <1>8 DEF Objective

(* Keys of different models differ, at their last place at least. *)
LEMMA KeysDiffer ==
  ASSUME NEW S \in SUBSET Models, IsFiniteSet(S), Distinct(S), NEW score, Valued(S, score),
         NEW q \in Question, NEW aim \in Objective
  PROVE  Sortable(S, [m \in S |-> Key(m, score, S, q, aim)])
<1> DEFINE K(m) == Key(m, score, S, q, aim)
<1>1. \A m \in S : K(m) \in Seq(Int)
  BY KeysTold
<1>2. ASSUME NEW m \in S, NEW n \in S, m # n
      PROVE  Less(K(m), K(n)) \/ Less(K(n), K(m))
  <2>1. m.id # n.id /\ m.id \in Int /\ n.id \in Int
    BY <1>2, KeyNumbers DEF Distinct
  <2>2. SUFFICES \E k \in Nat \ {0} : k <= Len(K(m)) /\ k <= Len(K(n)) /\ K(m)[k] # K(n)[k]
    <3>. HIDE DEF K
    <3>. QED  BY <1>1, LessIsTotal
  <2>3. CASE aim = "quality"
    <3>1. /\ K(m) = <<-score[m], -m.tier, Cash(m), m.id>>
          /\ K(n) = <<-score[n], -n.tier, Cash(n), n.id>>
      BY <2>3, KeysTold DEF KeyTold
    <3>2. 4 <= Len(K(m)) /\ 4 <= Len(K(n)) /\ K(m)[4] # K(n)[4]
      <4>. HIDE DEF K
      <4>. QED  BY <2>1, <3>1
    <3>. HIDE DEF K
    <3>. QED  BY <3>2
  <2>4. CASE aim = "local"
    <3>1. /\ K(m) = <<No(m.local), -score[m], -m.tier, Cash(m), m.id>>
          /\ K(n) = <<No(n.local), -score[n], -n.tier, Cash(n), n.id>>
      BY <2>4, KeysTold DEF KeyTold
    <3>2. 5 <= Len(K(m)) /\ 5 <= Len(K(n)) /\ K(m)[5] # K(n)[5]
      <4>. HIDE DEF K
      <4>. QED  BY <2>1, <3>1
    <3>. HIDE DEF K
    <3>. QED  BY <3>2
  <2>5. CASE aim = "cheap"
    <3>1. /\ K(m) = <<m.costOut, m.costIn, -score[m], -m.tier, m.id>>
          /\ K(n) = <<n.costOut, n.costIn, -score[n], -n.tier, n.id>>
      BY <2>5, KeysTold DEF KeyTold
    <3>2. 5 <= Len(K(m)) /\ 5 <= Len(K(n)) /\ K(m)[5] # K(n)[5]
      <4>. HIDE DEF K
      <4>. QED  BY <2>1, <3>1
    <3>. HIDE DEF K
    <3>. QED  BY <3>2
  <2>6. CASE aim = "cash_protect_quota"
    <3>1. \A x \in S : \/ x \in Pool(S, q) /\ K(x) = <<0, Cash(x), x.tier, -score[x], x.id>>
                       \/ \E a, b \in Int : K(x) = <<1, a, Cash(x), b, -score[x], x.id>>
      BY <2>6, KeysTold DEF KeyTold
    <3>. HIDE DEF K
    <3>2. \A x \in S : \/ Len(K(x)) = 5 /\ K(x)[1] = 0 /\ K(x)[5] = x.id
                       \/ Len(K(x)) = 6 /\ K(x)[1] = 1 /\ K(x)[6] = x.id
      BY <3>1
    <3>3. CASE Len(K(m)) = 5 /\ Len(K(n)) = 5
      <4>1. 5 <= Len(K(m)) /\ 5 <= Len(K(n)) /\ K(m)[5] # K(n)[5]
        BY <2>1, <3>2, <3>3
      <4>. QED  BY <4>1
    <3>4. CASE Len(K(m)) = 6 /\ Len(K(n)) = 6
      <4>1. 6 <= Len(K(m)) /\ 6 <= Len(K(n)) /\ K(m)[6] # K(n)[6]
        BY <2>1, <3>2, <3>4
      <4>. QED  BY <4>1
    <3>5. CASE Len(K(m)) # Len(K(n))
      <4>1. 1 <= Len(K(m)) /\ 1 <= Len(K(n)) /\ K(m)[1] # K(n)[1]
        BY <3>2, <3>5
      <4>. QED  BY <4>1
    <3>. QED  BY <3>2, <3>3, <3>4, <3>5
  <2>. QED  BY <2>3, <2>4, <2>5, <2>6 DEF Objective
<1>. QED  BY <1>1, <1>2 DEF Sortable
-----------------------------------------------------------------------------
(* The ranking. *)

LEMMA RankingOrdered ==
  ASSUME NEW S \in SUBSET Models, IsFiniteSet(S), Distinct(S), NEW score, Valued(S, score),
         NEW q \in Question, NEW aim \in Objective
  PROVE  Ordered(ObjectiveRanking(S, score, q, aim), S,
                 [m \in S |-> Key(m, score, S, q, aim)])
BY KeysDiffer, KeysOrder DEF ObjectiveRanking

LEMMA Joins ==
  ASSUME NEW T, NEW a \in Seq(T), NEW b \in Seq(T)
  PROVE  /\ a \o b \in Seq(T) /\ Len(a \o b) = Len(a) + Len(b)
         /\ \A i \in 1..Len(a \o b) : (a \o b)[i] = IF i <= Len(a) THEN a[i] ELSE b[i - Len(a)]
  OBVIOUS

Whole(S, q) == {m \in Eligible(S, q) : ~Truncates(m, q)}
Cut(S, q) == {m \in Eligible(S, q) : Truncates(m, q)}
ScoresOf(S, q) == [m \in Eligible(S, q) |-> Score(m, Eligible(S, q), q)]

(* What the ranking promises: every candidate once, whoever need not cut   *)
(* the input first, and the order of the keys within each of the two; when *)
(* everybody must cut it, the order of what they can take, then the keys.  *)
RankedWell(r, S, q, aim) ==
  LET candidates == Eligible(S, q)
      key(m, group) == Key(m, ScoresOf(S, q), group, q, aim)
  IN  /\ r \in Seq(candidates) /\ Len(r) = Cardinality(candidates)
      /\ \A m \in candidates : \E i \in 1..Len(r) : r[i] = m
      /\ \A i, j \in 1..Len(r) : i < j =>
           /\ r[i] # r[j]
           /\ ~(Truncates(r[i], q) /\ ~Truncates(r[j], q))
           /\ Whole(S, q) # {} /\ r[i] \in Whole(S, q) /\ r[j] \in Whole(S, q) =>
                Less(key(r[i], Whole(S, q)), key(r[j], Whole(S, q)))
           /\ Whole(S, q) # {} /\ r[i] \in Cut(S, q) /\ r[j] \in Cut(S, q) =>
                Less(key(r[i], Cut(S, q)), key(r[j], Cut(S, q)))
           /\ Whole(S, q) = {} =>
                \/ Usable(r[i]) > Usable(r[j])
                \/ /\ Usable(r[i]) = Usable(r[j])
                   /\ Less(key(r[i], candidates), key(r[j], candidates))

LEMMA GroupsAreFine ==
  ASSUME NEW S \in SUBSET Models, IsFiniteSet(S), Distinct(S), NEW q \in Question,
         NEW T \in {Eligible(S, q), Whole(S, q), Cut(S, q)}
  PROVE  T \in SUBSET Models /\ IsFiniteSet(T) /\ Distinct(T) /\ Valued(T, ScoresOf(S, q))
<1>1. T \subseteq S /\ T \subseteq Eligible(S, q)
  BY DEF Eligible, Whole, Cut
<1>2. IsFiniteSet(T) /\ T \in SUBSET Models
  BY <1>1, FS_Subset
<1>3. Distinct(T)
  BY <1>1 DEF Distinct
<1>4. ASSUME NEW m \in T PROVE ScoresOf(S, q)[m] \in Int
  <2>1. m \in Models /\ m \in Eligible(S, q)
    BY <1>1
  <2>. QED  BY <2>1, ScoresAreNumbers DEF ScoresOf
<1>. QED  BY <1>2, <1>3, <1>4 DEF Valued

(* route_ranked does what RankedWell says. *)
LEMMA RankedAreRankedWell ==
  ASSUME NEW S \in SUBSET Models, IsFiniteSet(S), Distinct(S), NEW q \in Question,
         NEW aim \in Objective
  PROVE  RankedWell(Ranked(S, q, aim), S, q, aim)
<1> DEFINE cand == Eligible(S, q)
           whole == Whole(S, q)
           cut == Cut(S, q)
           score == ScoresOf(S, q)
           key(m, group) == Key(m, score, group, q, aim)
           long == ObjectiveRanking(whole, score, q, aim)
           short == ObjectiveRanking(cut, score, q, aim)
           place == [m \in cut |-> CHOOSE i \in DOMAIN short : short[i] = m]
           kept == [m \in cut |-> <<-Usable(m), place[m]>>]
           r == Ranked(S, q, aim)
<1>1. /\ whole \subseteq cand /\ cut \subseteq cand /\ cand \ cut = whole
      /\ \A m \in cand : m \in cut <=> Truncates(m, q)
      /\ \A m \in cand : m \in whole <=> ~Truncates(m, q)
      /\ cut # cand <=> whole # {}
      /\ cut = cand <=> whole = {}
  BY DEF Whole, Cut
<1>2. r = IF whole # {} THEN long \o short ELSE ByKey(cut, kept)
  <2>1. r = IF cut # cand THEN ObjectiveRanking(cand \ cut, score, q, aim) \o short
                          ELSE ByKey(cut, kept)
    BY DEF Ranked, Cut, ScoresOf
  <2>. HIDE DEF cand, whole, cut, score, short, r
  <2>. QED  BY <1>1, <2>1
<1>3. /\ cand \in SUBSET Models /\ IsFiniteSet(cand) /\ IsFiniteSet(whole) /\ IsFiniteSet(cut)
      /\ Cardinality(cand) \in Nat /\ Cardinality(whole) \in Nat /\ Cardinality(cut) \in Nat
      /\ Cardinality(cand) = Cardinality(whole) + Cardinality(cut)
  <2>1. /\ cand \in SUBSET Models /\ IsFiniteSet(cand) /\ IsFiniteSet(whole) /\ IsFiniteSet(cut)
    BY GroupsAreFine
  <2>2. cut = cand \ whole /\ cut \cap whole = {} /\ cand = whole \cup cut
    BY <1>1
  <2>. HIDE DEF cand, whole, cut
  <2>3. Cardinality(cand) = Cardinality(whole) + Cardinality(cut)
    <3>1. cut \cap whole = {} /\ Cardinality({}) = 0
      BY <2>2, FS_EmptySet
    <3>2. Cardinality(whole \cup cut) = Cardinality(whole) + Cardinality(cut) - Cardinality(whole \cap cut)
      BY <2>1, FS_Union
    <3>3. whole \cap cut = {} /\ whole \cup cut = cand
      BY <2>2
    <3>4. Cardinality(whole \cap cut) = 0 /\ Cardinality(whole \cup cut) = Cardinality(cand)
      BY <3>1, <3>3, Zenon
    <3>5. Cardinality(cand) \in Nat /\ Cardinality(whole) \in Nat /\ Cardinality(cut) \in Nat
      BY <2>1, FS_CardinalityType
    <3>. QED  BY <3>2, <3>4, <3>5
  <2>. QED  BY <2>1, <2>3, FS_CardinalityType
<1>4. /\ Ordered(long, whole, [m \in whole |-> key(m, whole)])
      /\ Ordered(short, cut, [m \in cut |-> key(m, cut)])
  <2>1. /\ whole \in SUBSET Models /\ IsFiniteSet(whole) /\ Distinct(whole) /\ Valued(whole, score)
        /\ cut \in SUBSET Models /\ IsFiniteSet(cut) /\ Distinct(cut) /\ Valued(cut, score)
    BY GroupsAreFine
  <2>. HIDE DEF whole, cut, score
  <2>. QED  BY <2>1, RankingOrdered
<1>5. /\ long \in Seq(whole) /\ Len(long) = Cardinality(whole)
      /\ \A m \in whole : \E i \in 1..Len(long) : long[i] = m
      /\ \A i, j \in 1..Len(long) : i < j => Less(key(long[i], whole), key(long[j], whole))
      /\ short \in Seq(cut) /\ Len(short) = Cardinality(cut)
      /\ \A m \in cut : \E i \in 1..Len(short) : short[i] = m
      /\ \A i, j \in 1..Len(short) : i < j => Less(key(short[i], cut), key(short[j], cut))
  <2>. HIDE DEF whole, cut, score, long, short, key
  <2>1. /\ \A i \in 1..Len(long) : long[i] \in whole
        /\ \A i \in 1..Len(short) : short[i] \in cut
    BY <1>4 DEF Ordered
  <2>. QED  BY <1>4, <2>1 DEF Ordered
<1>6. \A m \in cand : /\ m \in whole => key(m, whole) \in Seq(Int)
                      /\ m \in cut => key(m, cut) \in Seq(Int)
  <2>1. /\ whole \in SUBSET Models /\ Valued(whole, score)
        /\ cut \in SUBSET Models /\ Valued(cut, score)
    BY GroupsAreFine
  <2>. HIDE DEF whole, cut, score
  <2>. QED  BY <2>1, KeysTold
<1>. HIDE DEF key
<1>7. CASE whole # {}
  <2>1. r = long \o short
    BY <1>2, <1>7
  <2> DEFINE L == Len(long)
             G(i) == IF i <= L THEN long[i] ELSE short[i - L]
  <2>2. long \in Seq(cand) /\ short \in Seq(cand)
    BY <1>1, <1>5
  <2>3. /\ L \in Nat /\ Len(short) \in Nat
        /\ r \in Seq(cand) /\ Len(r) = L + Len(short)
        /\ \A i \in 1..Len(r) : r[i] = G(i)
    <3>. HIDE DEF cand, whole, cut, score, long, short, r
    <3>. QED  BY <2>1, <2>2, Joins
  <2>. HIDE DEF cand, whole, cut, score, long, short, r
  <2>4. \A i \in 1..Len(r) : /\ i <= L => i \in 1..L /\ r[i] = long[i] /\ r[i] \in whole
                             /\ i > L => i - L \in 1..Len(short) /\ r[i] = short[i - L] /\ r[i] \in cut
    BY <1>5, <2>3
  <2>5. Len(r) = Cardinality(cand)
    BY <1>3, <1>5, <2>3
  <2>6. ASSUME NEW m \in cand PROVE \E i \in 1..Len(r) : r[i] = m
    <3>1. CASE m \in whole
      <4>1. PICK i \in 1..L : long[i] = m
        BY <1>5, <3>1
      <4>2. i \in 1..Len(r) /\ i <= L
        BY <2>3
      <4>. QED  BY <2>4, <4>1, <4>2
    <3>2. CASE m \in cut
      <4>1. PICK i \in 1..Len(short) : short[i] = m
        BY <1>5, <3>2
      <4>2. i + L \in 1..Len(r) /\ i + L > L /\ (i + L) - L = i
        BY <2>3
      <4>. QED  BY <2>4, <4>1, <4>2
    <3>. QED  BY <1>1, <3>1, <3>2
  <2>7. ASSUME NEW i \in 1..Len(r), NEW j \in 1..Len(r), i < j
        PROVE  /\ r[i] # r[j]
               /\ ~(Truncates(r[i], q) /\ ~Truncates(r[j], q))
               /\ r[i] \in whole /\ r[j] \in whole => Less(key(r[i], whole), key(r[j], whole))
               /\ r[i] \in cut /\ r[j] \in cut => Less(key(r[i], cut), key(r[j], cut))
    <3>0. \A m \in cand : ~(m \in whole /\ m \in cut)
      BY <1>1
    <3>1. CASE j <= L
      <4>1. /\ i \in 1..L /\ j \in 1..L /\ r[i] = long[i] /\ r[j] = long[j] /\ i <= L
            /\ r[i] \in whole /\ r[j] \in whole
        BY <2>3, <2>4, <2>7, <3>1
      <4>2. Less(key(r[i], whole), key(r[j], whole))
        BY <1>5, <2>7, <4>1
      <4>3. r[i] # r[j]
        BY <1>1, <1>6, <4>1, <4>2, LessIsStrict
      <4>. QED  BY <1>1, <3>0, <4>1, <4>2, <4>3
    <3>2. CASE i > L
      <4>1. /\ i - L \in 1..Len(short) /\ j - L \in 1..Len(short) /\ i - L < j - L
            /\ r[i] = short[i - L] /\ r[j] = short[j - L] /\ r[i] \in cut /\ r[j] \in cut
        BY <2>3, <2>4, <2>7, <3>2
      <4>2. Less(key(r[i], cut), key(r[j], cut))
        BY <1>5, <4>1
      <4>3. r[i] # r[j]
        BY <1>1, <1>6, <4>1, <4>2, LessIsStrict
      <4>. QED  BY <1>1, <3>0, <4>1, <4>2, <4>3
    <3>3. CASE i <= L /\ j > L
      <4>1. r[i] \in whole /\ r[j] \in cut
        BY <2>4, <3>3
      <4>. QED  BY <1>1, <3>0, <4>1
    <3>. QED  BY <2>3, <3>1, <3>2, <3>3
  <2>. USE DEF cand, whole, cut, score, key, r
  <2>. QED  BY <1>7, <2>3, <2>5, <2>6, <2>7 DEF RankedWell
<1>8. CASE whole = {}
  <2>1. r = ByKey(cut, kept) /\ cut = cand
    BY <1>1, <1>2, <1>8
  <2>2. \A m \in cut : place[m] \in 1..Len(short) /\ short[place[m]] = m
    <3>. HIDE DEF cut, short
    <3>1. DOMAIN short = 1..Len(short)
      BY <1>5
    <3>2. \A m \in cut : \E i \in DOMAIN short : short[i] = m
      BY <1>5, <3>1
    <3>. QED  BY <3>1, <3>2
  <2>3. \A m \in cut : kept[m] = <<-Usable(m), place[m]>> /\ Usable(m) \in Int /\ place[m] \in Int
    <3>1. \A m \in cut : Usable(m) \in Int
      BY <1>1, <1>3, UsableIsNumber
    <3>2. \A m \in cut : kept[m] = <<-Usable(m), place[m]>>
      OBVIOUS
    <3>3. Len(short) \in Nat
      BY <1>3, <1>5
    <3>. HIDE DEF cut, short, place, kept
    <3>. QED  BY <2>2, <3>1, <3>2, <3>3
  <2>. HIDE DEF cand, whole, cut, score, long, short, place, kept, r
  <2>4. \A m \in cut : /\ kept[m] \in Seq(Int) /\ Len(kept[m]) = 2
                       /\ kept[m][1] = -Usable(m) /\ kept[m][2] = place[m]
    <3>. TAKE m \in cut
    <3>1. PICK a \in Int, b \in Int : a = -Usable(m) /\ b = place[m]
      BY <2>3
    <3>2. kept[m] = <<a, b>>
      BY <2>3, <3>1
    <3>3. <<a, b>> \in Seq(Int)
      BY Tuples
    <3>. QED  BY <3>1, <3>2, <3>3
  <2>5. Sortable(cut, kept)
    <3>1. ASSUME NEW m \in cut, NEW n \in cut, m # n
          PROVE  Less(kept[m], kept[n]) \/ Less(kept[n], kept[m])
      <4>1. kept[m][2] # kept[n][2]
        BY <2>2, <2>4, <3>1
      <4>2. 2 \in Nat \ {0} /\ 2 <= Len(kept[m]) /\ 2 <= Len(kept[n])
        BY <2>4
      <4>. QED  BY <2>4, <4>1, <4>2, LessIsTotal
    <3>. QED  BY <1>3, <2>4, <3>1 DEF Sortable
  <2>6. Ordered(r, cut, kept)
    BY <2>1, <2>5, KeysOrder
  <2>7. ASSUME NEW i \in 1..Len(r), NEW j \in 1..Len(r), i < j
        PROVE  /\ r[i] # r[j]
               /\ ~(Truncates(r[i], q) /\ ~Truncates(r[j], q))
               /\ \/ Usable(r[i]) > Usable(r[j])
                  \/ Usable(r[i]) = Usable(r[j]) /\ Less(key(r[i], cand), key(r[j], cand))
    <3>1. r[i] \in cut /\ r[j] \in cut
      BY <2>6 DEF Ordered
    <3>2. Less(kept[r[i]], kept[r[j]])
      BY <2>6, <2>7 DEF Ordered
    <3>3. r[i] # r[j]
      BY <2>4, <3>1, <3>2, LessIsStrict
    <3>4. \/ kept[r[i]][1] < kept[r[j]][1]
          \/ kept[r[i]][1] = kept[r[j]][1] /\ kept[r[i]][2] <= kept[r[j]][2]
      <4>1. /\ kept[r[i]] \in Seq(Int) /\ Len(kept[r[i]]) >= 2
            /\ kept[r[j]] \in Seq(Int) /\ Len(kept[r[j]]) >= 2
        BY <2>4, <3>1
      <4>. QED  BY <3>2, <4>1, LessAtHead
    <3>5. \/ Usable(r[i]) > Usable(r[j])
          \/ Usable(r[i]) = Usable(r[j]) /\ place[r[i]] <= place[r[j]]
      <4>. DEFINE a == r[i]
                  b == r[j]
      <4>1. /\ Usable(a) \in Int /\ kept[a][1] = -Usable(a) /\ kept[a][2] = place[a]
            /\ Usable(b) \in Int /\ kept[b][1] = -Usable(b) /\ kept[b][2] = place[b]
        BY <2>3, <2>4, <3>1
      <4>2. -Usable(a) < -Usable(b) \/ (-Usable(a) = -Usable(b) /\ place[a] <= place[b])
        BY <3>4, <4>1
      <4>. HIDE DEF a, b
      <4>3. Usable(a) > Usable(b) \/ (Usable(a) = Usable(b) /\ place[a] <= place[b])
        BY <4>1, <4>2
      <4>. QED  BY <4>3 DEF a, b
    <3>6. ASSUME place[r[i]] <= place[r[j]] PROVE Less(key(r[i], cut), key(r[j], cut))
      <4>1. place[r[i]] # place[r[j]]
        BY <2>2, <3>1, <3>3
      <4>2. place[r[i]] < place[r[j]]
        BY <2>3, <3>1, <3>6, <4>1
      <4>. QED  BY <1>5, <2>2, <3>1, <4>2
    <3>. QED  BY <1>1, <2>1, <3>1, <3>3, <3>5, <3>6
  <2>8. /\ r \in Seq(cand) /\ Len(r) = Cardinality(cand)
        /\ \A m \in cand : \E i \in 1..Len(r) : r[i] = m
    BY <2>1, <2>6 DEF Ordered
  <2>. USE DEF cand, whole, cut, score, key, r
  <2>. QED  BY <1>8, <2>7, <2>8 DEF RankedWell
<1>. QED  BY <1>7, <1>8

-----------------------------------------------------------------------------
(* Of finitely many sets one has none of the others within.                *)
LEMMA Innermost ==
  ASSUME NEW S, IsFiniteSet(S), S # {}, NEW up, \A x \in S : up[x] \subseteq S
  PROVE  \E x \in S : \A y \in S : up[y] \subseteq up[x] => up[y] = up[x]
<1> DEFINE C == {up[x] : x \in S}
<1>1. C \subseteq SUBSET S /\ C # {}
  OBVIOUS
<1>2. \E s \in C : \A t \in C : t \subseteq s => t = s
  <2>. HIDE DEF C
  <2>. QED  BY <1>1, Smaller
<1>. QED  BY SMTT(30), <1>2

(* The least and the greatest of finitely many numbers. *)
LEMMA MinIs ==
  ASSUME NEW S, IsFiniteSet(S), S # {}, \A x \in S : x \in Int
  PROVE  Min(S) \in S /\ \A x \in S : Min(S) <= x
<1> DEFINE up == [x \in S |-> {y \in S : y <= x}]
<1>1. \A x \in S : up[x] = {y \in S : y <= x}
  OBVIOUS
<1>. HIDE DEF up
<1>2. PICK x \in S : \A y \in S : up[y] \subseteq up[x] => up[y] = up[x]
  <2>1. \A x \in S : up[x] \subseteq S
    BY <1>1
  <2>. QED  BY <2>1, Innermost
<1>3. ASSUME NEW y \in S, ~(x <= y) PROVE FALSE
  <2>1. up[y] \subseteq up[x]
    <3>1. x \in Int /\ y \in Int /\ y <= x
      BY <1>3
    <3>2. \A z \in S : z <= y => z <= x
      BY <3>1
    <3>. QED  BY <1>1, <3>2
  <2>2. x \in up[y]
    BY <1>1, <1>2, <2>1
  <2>. QED  BY <1>1, <1>3, <2>2
<1>. QED  BY <1>3 DEF Min

LEMMA MaxIs ==
  ASSUME NEW S, IsFiniteSet(S), S # {}, \A x \in S : x \in Int
  PROVE  Max(S) \in S
<1> DEFINE up == [x \in S |-> {y \in S : y >= x}]
<1>1. \A x \in S : up[x] = {y \in S : y >= x}
  OBVIOUS
<1>. HIDE DEF up
<1>2. PICK x \in S : \A y \in S : up[y] \subseteq up[x] => up[y] = up[x]
  <2>1. \A x \in S : up[x] \subseteq S
    BY <1>1
  <2>. QED  BY <2>1, Innermost
<1>3. ASSUME NEW y \in S, ~(x >= y) PROVE FALSE
  <2>1. up[y] \subseteq up[x]
    <3>1. x \in Int /\ y \in Int /\ y >= x
      BY <1>3
    <3>2. \A z \in S : z >= y => z >= x
      BY <3>1
    <3>. QED  BY <1>1, <3>2
  <2>2. x \in up[y]
    BY <1>1, <1>2, <2>1
  <2>. QED  BY <1>1, <1>3, <2>2
<1>. QED  BY <1>3 DEF Max

(* Counting is adding up ones. *)
LEMMA SumOnes ==
  ASSUME NEW S, IsFiniteSet(S), NEW f, \A x \in S : f[x] = 1
  PROVE  SumOver(S, f) = Cardinality(S)
<1> DEFINE h == [x \in S |-> -1]
           k == [x \in S |-> 0]
           n == Cardinality(S)
<1>1. n \in Nat
  BY FS_CardinalityType
<1>2. /\ \A x \in S : f[x] \in Int /\ h[x] \in Int /\ k[x] = f[x] + h[x] /\ k[x] = 0
      /\ \A x \in S : f[x] <= 1 /\ h[x] <= -1
  OBVIOUS
<1>. HIDE DEF h, k
<1>3. SumOver(S, k) = SumOver(S, f) + SumOver(S, h)
  BY <1>2, SumPlus
<1>4. SumOver(S, k) = 0
  <2>1. {} \in SUBSET S /\ \A x \in S \ {} : k[x] = 0
    BY <1>2
  <2>2. \A x \in S : k[x] \in Int
    BY <1>2
  <2>. QED  BY <2>1, <2>2, SumWithin, SumEmpty
<1>5. SumOver(S, f) <= n * 1 /\ SumOver(S, f) \in Int
  BY <1>2, SumAtMost, SumInt
<1>6. SumOver(S, h) <= n * (-1) /\ SumOver(S, h) \in Int
  BY <1>2, SumAtMost, SumInt, -1 \in Int
<1>7. \A a, b \in Int : 0 = a + b /\ a <= n * 1 /\ b <= n * (-1) => a = n
  BY <1>1
<1>. HIDE DEF n
<1>8. SumOver(S, f) = n
  BY <1>3, <1>4, <1>5, <1>6, <1>7
<1>. QED  BY <1>8 DEF n

(* A set of which each member is between 0 and most has a mean in between.  *)
LEMMA SumBetween ==
  ASSUME NEW S, IsFiniteSet(S), NEW most \in Nat, NEW f, \A x \in S : f[x] \in 0..most
  PROVE  SumOver(S, f) \in 0..(most * Cardinality(S))
<1> DEFINE h == [x \in S |-> -f[x]]
           k == [x \in S |-> 0]
           n == Cardinality(S)
<1>1. n \in Nat
  BY FS_CardinalityType
<1>2. /\ \A x \in S : f[x] \in Int /\ h[x] \in Int /\ k[x] = f[x] + h[x] /\ k[x] = 0
      /\ \A x \in S : f[x] <= most /\ h[x] <= 0
  OBVIOUS
<1>. HIDE DEF h, k
<1>3. SumOver(S, k) = SumOver(S, f) + SumOver(S, h)
  BY <1>2, SumPlus
<1>4. SumOver(S, k) = 0
  <2>1. {} \in SUBSET S /\ \A x \in S \ {} : k[x] = 0
    BY <1>2
  <2>2. \A x \in S : k[x] \in Int
    BY <1>2
  <2>. QED  BY <2>1, <2>2, SumWithin, SumEmpty
<1>5. SumOver(S, f) <= n * most /\ SumOver(S, f) \in Int
  BY <1>2, SumAtMost, SumInt
<1>6. SumOver(S, h) <= n * 0 /\ SumOver(S, h) \in Int
  BY <1>2, SumAtMost, SumInt
<1>7. \A a, b \in Int : 0 = a + b /\ a <= n * most /\ b <= n * 0 => a \in 0..(most * n)
  BY <1>1
<1>. HIDE DEF n
<1>8. SumOver(S, f) \in 0..(most * n)
  BY <1>3, <1>4, <1>5, <1>6, <1>7
<1>. QED  BY <1>8 DEF n
=============================================================================
