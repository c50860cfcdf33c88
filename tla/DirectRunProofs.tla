--------------------------- MODULE DirectRunProofs ---------------------------
(***************************************************************************)
(* Proofs about DirectRun, for every configuration of models, goals and    *)
(* bounds: the ranking is fair (RankingFair), the walk down it complete    *)
(* (WalkComplete), and what is printed, returned, billed and recorded is   *)
(* true (AnswerTrue).                                                      *)
(*                                                                         *)
(* The first part is about Routing alone: two rankings by quality grade    *)
(* alike, place by place; the scores of two candidates never change places *)
(* by leaving out the priors they share; and the order of each objective   *)
(* is what the objective promises.  What sorting by keys does is proved in *)
(* DataTheorems.  The second part is about the run: CourseInv follows the  *)
(* walk, BillInv the money.                                                *)
(***************************************************************************)
EXTENDS DirectRun, DataTheorems, TLAPS

-----------------------------------------------------------------------------
(* Grades. *)

(* What the quality objective ranks by, the price and the name apart. *)
Grade == [room : Int, score : Int, tier : Int]
NotAfter(x, y) ==
  \/ x.room < y.room
  \/ x.room = y.room /\ x.score > y.score
  \/ x.room = y.room /\ x.score = y.score /\ x.tier >= y.tier

LEMMA GradesOrder ==
  /\ \A x, y \in Grade : NotAfter(x, y) \/ NotAfter(y, x)
  /\ \A x, y \in Grade : NotAfter(x, y) /\ NotAfter(y, x) => x = y
  /\ \A x, y, z \in Grade : NotAfter(x, y) /\ NotAfter(y, z) => NotAfter(x, z)
<1>1. \A x \in Grade : x.room \in Int /\ x.score \in Int /\ x.tier \in Int
  BY DEF Grade
<1>2. \A x, y \in Grade : x.room = y.room /\ x.score = y.score /\ x.tier = y.tier => x = y
  BY DEF Grade
<1>. QED  BY <1>1, <1>2 DEF NotAfter

Graded(v, n) ==
  v \in [1..n -> Grade] /\ \A i, j \in 1..n : i < j => NotAfter(v[i], v[j])

(* There is no injection into a smaller interval. *)
LEMMA Pigeons ==
  ASSUME NEW n \in Nat, NEW p, \A k \in 1..(n + 1) : p[k] \in 1..n,
         \A k, l \in 1..(n + 1) : p[k] = p[l] => k = l
  PROVE  FALSE
<1> DEFINE f == [k \in 1..(n + 1) |-> p[k]]
<1>1. f \in [1..(n + 1) -> 1..n] /\ \A k, l \in 1..(n + 1) : f[k] = f[l] => k = l
  OBVIOUS
<1>2. f \in Injection(1..(n + 1), 1..n)
  <2>. HIDE DEF f
  <2>. QED  BY <1>1, Fun_IsInj
<1>3. /\ IsFiniteSet(1..n) /\ Cardinality(1..n) = n
      /\ Cardinality(1..(n + 1)) = n + 1
  <2>1. \A k \in Nat : IsFiniteSet(1..k) /\ Cardinality(1..k) = k
    <3>. TAKE k \in Nat
    <3>1. IsFiniteSet(1..k) /\ Cardinality(1..k) = IF 1 > k THEN 0 ELSE k - 1 + 1
      BY FS_Interval
    <3>. QED  BY <3>1
  <2>. QED  BY <2>1
<1>4. Cardinality(1..(n + 1)) <= Cardinality(1..n)
  <2>. HIDE DEF f
  <2>. QED  BY <1>2, <1>3, FS_Injection
<1>. QED  BY <1>3, <1>4

(* Two orders of the same grades are the same, ... *)
LEMMA NoneRises ==
  ASSUME NEW n \in Nat, NEW v, NEW w, Graded(v, n), Graded(w, n),
         NEW p \in [1..n -> 1..n], \A k, l \in 1..n : p[k] = p[l] => k = l,
         \A k \in 1..n : w[p[k]] = v[k], NEW i \in 1..n
  PROVE  NotAfter(w[i], v[i])
<1>1. SUFFICES ASSUME ~NotAfter(w[i], v[i]) PROVE FALSE
  OBVIOUS
<1>2. \A k \in 1..n : v[k] \in Grade /\ w[k] \in Grade
  BY DEF Graded
<1>3. \A k \in 1..i : p[k] \in 1..(i - 1)
  <2>. SUFFICES ASSUME NEW k \in 1..i, p[k] \notin 1..(i - 1) PROVE FALSE
    OBVIOUS
  <2>1. k \in 1..n /\ p[k] \in 1..n /\ i <= p[k]
    OBVIOUS
  <2>2. NotAfter(v[k], v[i])
    <3>1. CASE k < i
      BY <2>1, <3>1 DEF Graded
    <3>2. CASE k = i
      BY <1>2, <3>2, GradesOrder
    <3>. QED  BY <3>1, <3>2
  <2>3. NotAfter(w[i], w[p[k]])
    <3>1. CASE i < p[k]
      BY <2>1, <3>1 DEF Graded
    <3>2. CASE i = p[k]
      BY <1>2, <3>2, GradesOrder
    <3>. QED  BY <2>1, <3>1, <3>2
  <2>4. NotAfter(w[i], v[k])
    BY <2>1, <2>3
  <2>5. v[k] \in Grade /\ v[i] \in Grade /\ w[i] \in Grade
    BY <1>2, <2>1
  <2>. QED  BY <1>1, <2>2, <2>4, <2>5, GradesOrder
<1>4. /\ i - 1 \in Nat /\ (i - 1) + 1 = i
      /\ \A k, l \in 1..i : p[k] = p[l] => k = l
  OBVIOUS
<1>5. /\ \A k \in 1..((i - 1) + 1) : p[k] \in 1..(i - 1)
      /\ \A k, l \in 1..((i - 1) + 1) : p[k] = p[l] => k = l
  BY <1>3, <1>4
<1>. QED  BY <1>4, <1>5, Pigeons

(* ... since neither is ahead of the other anywhere. *)
LEMMA SortedSame ==
  ASSUME NEW n \in Nat, NEW v, NEW w, Graded(v, n), Graded(w, n),
         NEW p \in [1..n -> 1..n], \A k, l \in 1..n : p[k] = p[l] => k = l,
         \A k \in 1..n : w[p[k]] = v[k]
  PROVE  \A i \in 1..n : v[i] = w[i]
<1>1. p \in Injection(1..n, 1..n)
  BY Fun_IsInj
<1>2. IsFiniteSet(1..n)
  BY FS_Interval
<1>3. p \in Surjection(1..n, 1..n)
  BY <1>1, <1>2, FS_Injection
<1>4. \A k \in 1..n : \E l \in 1..n : p[l] = k
  BY <1>3 DEF Surjection
<1> DEFINE b == [k \in 1..n |-> CHOOSE l \in 1..n : p[l] = k]
<1>5. b \in [1..n -> 1..n] /\ \A k \in 1..n : p[b[k]] = k
  BY <1>4
<1>. HIDE DEF b
<1>6. \A k, l \in 1..n : b[k] = b[l] => k = l
  BY <1>5
<1>7. \A k \in 1..n : v[b[k]] = w[k]
  BY <1>5
<1>8. \A i \in 1..n : NotAfter(w[i], v[i])
  BY NoneRises
<1>9. \A i \in 1..n : NotAfter(v[i], w[i])
  BY <1>5, <1>6, <1>7, NoneRises
<1>. QED  BY <1>8, <1>9, GradesOrder DEF Graded

GradeOf(m, S, q) ==
  [room |-> IF Whole(S, q) = {} THEN -Usable(m) ELSE No(~Truncates(m, q)),
   score |-> ScoresOf(S, q)[m], tier |-> m.tier]

(* The quality objective ranks by grade. *)
LEMMA QualityIsGraded ==
  ASSUME NEW S \in SUBSET Models, IsFiniteSet(S), Distinct(S), NEW q \in Question,
         NEW r, RankedWell(r, S, q, "quality")
  PROVE  Graded([i \in 1..Len(r) |-> GradeOf(r[i], S, q)], Len(r))
<1> DEFINE cand == Eligible(S, q)
           score == ScoresOf(S, q)
           key(m, group) == Key(m, score, group, q, "quality")
           g(m) == GradeOf(m, S, q)
<1>1. /\ cand \in SUBSET Models /\ Valued(cand, score)
      /\ Whole(S, q) \subseteq cand /\ Cut(S, q) \subseteq cand /\ r \in Seq(cand) /\ Len(r) \in Nat
      /\ \A m \in cand : m \in Whole(S, q) <=> ~Truncates(m, q)
      /\ \A m \in cand : m \in Cut(S, q) <=> Truncates(m, q)
  <2>1. cand \in SUBSET Models /\ Valued(cand, score)
    BY GroupsAreFine
  <2>2. r \in Seq(cand) /\ Len(r) \in Nat
    <3>1. r \in Seq(cand)
      BY DEF RankedWell
    <3>. HIDE DEF cand
    <3>. QED  BY <3>1
  <2>3. /\ Whole(S, q) \subseteq cand /\ Cut(S, q) \subseteq cand
        /\ \A m \in cand : m \in Whole(S, q) <=> ~Truncates(m, q)
        /\ \A m \in cand : m \in Cut(S, q) <=> Truncates(m, q)
    BY DEF Whole, Cut
  <2>. QED  BY <2>1, <2>2, <2>3
<1>2. \A m \in cand : /\ g(m) \in Grade /\ score[m] \in Int /\ m.tier \in Int /\ Usable(m) \in Int
  <2>. TAKE m \in cand
  <2>1. score[m] \in Int /\ m.tier \in Int /\ Usable(m) \in Int
    BY <1>1, UsableIsNumber, KeyNumbers
  <2>2. -Usable(m) \in Int /\ No(~Truncates(m, q)) \in Int
    BY <2>1 DEF No
  <2>. QED  BY <2>1, <2>2 DEF Grade, GradeOf
<1>3. ASSUME NEW T \in SUBSET cand, NEW m \in T, NEW n \in T, Less(key(m, T), key(n, T))
      PROVE  score[m] > score[n] \/ (score[m] = score[n] /\ m.tier >= n.tier)
  <2>1. T \in SUBSET Models /\ Valued(T, score)
    BY <1>1 DEF Valued
  <2>2. "quality" \in Objective
    BY DEF Objective
  <2>3. /\ key(m, T) = <<-score[m], -m.tier, Cash(m), m.id>> /\ key(m, T) \in Seq(Int)
        /\ key(n, T) = <<-score[n], -n.tier, Cash(n), n.id>> /\ key(n, T) \in Seq(Int)
    BY <2>1, <2>2, KeysTold DEF KeyTold
  <2>. HIDE DEF key
  <2>4. /\ Len(key(m, T)) >= 2 /\ key(m, T)[1] = -score[m] /\ key(m, T)[2] = -m.tier
        /\ Len(key(n, T)) >= 2 /\ key(n, T)[1] = -score[n] /\ key(n, T)[2] = -n.tier
    BY <2>3
  <2>5. \/ key(m, T)[1] < key(n, T)[1]
        \/ key(m, T)[1] = key(n, T)[1] /\ key(m, T)[2] <= key(n, T)[2]
    BY <1>3, <2>3, <2>4, LessAtHead
  <2>6. m \in cand /\ n \in cand
    OBVIOUS
  <2>. HIDE DEF cand, score
  <2>. QED  BY <1>2, <2>4, <2>5, <2>6
<1>4. ASSUME NEW i \in 1..Len(r), NEW j \in 1..Len(r), i < j
      PROVE  NotAfter(g(r[i]), g(r[j]))
  <2>1. r[i] \in cand /\ r[j] \in cand
    BY <1>1
  <2>2. /\ ~(Truncates(r[i], q) /\ ~Truncates(r[j], q))
        /\ Whole(S, q) # {} /\ r[i] \in Whole(S, q) /\ r[j] \in Whole(S, q) =>
             Less(key(r[i], Whole(S, q)), key(r[j], Whole(S, q)))
        /\ Whole(S, q) # {} /\ r[i] \in Cut(S, q) /\ r[j] \in Cut(S, q) =>
             Less(key(r[i], Cut(S, q)), key(r[j], Cut(S, q)))
        /\ Whole(S, q) = {} =>
             \/ Usable(r[i]) > Usable(r[j])
             \/ /\ Usable(r[i]) = Usable(r[j])
                /\ Less(key(r[i], cand), key(r[j], cand))
    BY <1>4 DEF RankedWell
  <2>3. /\ g(r[i]).score = score[r[i]] /\ g(r[j]).score = score[r[j]]
        /\ g(r[i]).tier = r[i].tier /\ g(r[j]).tier = r[j].tier
        /\ g(r[i]).room = IF Whole(S, q) = {} THEN -Usable(r[i]) ELSE No(~Truncates(r[i], q))
        /\ g(r[j]).room = IF Whole(S, q) = {} THEN -Usable(r[j]) ELSE No(~Truncates(r[j], q))
    BY DEF GradeOf
  <2>4. /\ score[r[i]] \in Int /\ r[i].tier \in Int /\ Usable(r[i]) \in Int
        /\ score[r[j]] \in Int /\ r[j].tier \in Int /\ Usable(r[j]) \in Int
    BY <1>2, <2>1
  <2>. HIDE DEF g, key, cand, score
  <2>5. CASE Whole(S, q) = {}
    <3>1. CASE Usable(r[i]) > Usable(r[j])
      BY <2>3, <2>4, <2>5, <3>1 DEF NotAfter
    <3>2. CASE Usable(r[i]) = Usable(r[j]) /\ Less(key(r[i], cand), key(r[j], cand))
      <4>1. score[r[i]] > score[r[j]] \/ (score[r[i]] = score[r[j]] /\ r[i].tier >= r[j].tier)
        BY <1>3, <2>1, <3>2
      <4>. QED  BY <2>3, <2>4, <2>5, <3>2, <4>1 DEF NotAfter
    <3>. QED  BY <2>2, <2>5, <3>1, <3>2
  <2>6. CASE Whole(S, q) # {}
    <3>1. CASE ~Truncates(r[i], q) /\ Truncates(r[j], q)
      BY <2>3, <2>6, <3>1 DEF NotAfter, No
    <3>2. CASE ~Truncates(r[i], q) /\ ~Truncates(r[j], q)
      <4>1. score[r[i]] > score[r[j]] \/ (score[r[i]] = score[r[j]] /\ r[i].tier >= r[j].tier)
        BY <1>1, <1>3, <2>1, <2>2, <2>6, <3>2
      <4>2. g(r[i]).room = 0 /\ g(r[j]).room = 0
        BY <2>3, <2>6, <3>2 DEF No
      <4>. QED  BY <2>3, <2>4, <4>1, <4>2 DEF NotAfter
    <3>3. CASE Truncates(r[i], q) /\ Truncates(r[j], q)
      <4>1. score[r[i]] > score[r[j]] \/ (score[r[i]] = score[r[j]] /\ r[i].tier >= r[j].tier)
        BY <1>1, <1>3, <2>1, <2>2, <2>6, <3>3
      <4>2. g(r[i]).room = 1 /\ g(r[j]).room = 1
        BY <2>3, <2>6, <3>3 DEF No
      <4>. QED  BY <2>3, <2>4, <4>1, <4>2 DEF NotAfter
    <3>. QED  BY <2>2, <3>1, <3>2, <3>3
  <2>. QED  BY <2>5, <2>6
<1>5. \A i \in 1..Len(r) : r[i] \in cand
  BY <1>1
<1>. HIDE DEF g, cand
<1>6. Graded([i \in 1..Len(r) |-> g(r[i])], Len(r))
  BY <1>2, <1>4, <1>5 DEF Graded
<1>. QED  BY <1>6 DEF g

-----------------------------------------------------------------------------
Free(m) == [m EXCEPT !.costIn = 0, !.costOut = 0]

LEMMA FreeIsModel ==
  ASSUME NEW m \in Models
  PROVE  /\ Free(m) \in Models
         /\ Free(m).id = m.id /\ Free(m).tier = m.tier /\ Free(m).strengths = m.strengths
         /\ Free(m).tools = m.tools /\ Free(m).context = m.context /\ Free(m).maxOut = m.maxOut
         /\ Free(m).confidence = m.confidence /\ Free(m).taskScore = m.taskScore
         /\ Free(m).overall = m.overall /\ Free(m).reliability = m.reliability
BY DEF Free, Models

(* Nobody's grade depends on prices. *)
LEMMA FreeScoresSame ==
  ASSUME NEW S \in SUBSET Models, IsFiniteSet(S), Distinct(S), NEW q \in Question,
         NEW F, F = {Free(m) : m \in S}
  PROVE  /\ F \in SUBSET Models /\ IsFiniteSet(F) /\ Distinct(F)
         /\ Eligible(F, q) = {Free(m) : m \in Eligible(S, q)}
         /\ Cardinality(Eligible(F, q)) = Cardinality(Eligible(S, q))
         /\ \A m \in Eligible(S, q) : /\ Score(Free(m), Eligible(F, q), q) = Score(m, Eligible(S, q), q)
                                      /\ GradeOf(Free(m), F, q) = GradeOf(m, S, q)
<1> DEFINE E == Eligible(S, q)
           G == Eligible(F, q)
<1>1. F \in SUBSET Models
  BY FreeIsModel
<1>2. Distinct(F)
  BY FreeIsModel DEF Distinct
<1>3. G = {Free(m) : m \in E}
  BY FreeIsModel DEF Eligible
<1>4. \A T : T \in SUBSET S => /\ IsFiniteSet({Free(m) : m \in T})
                               /\ Cardinality({Free(m) : m \in T}) = Cardinality(T)
  <2>. SUFFICES ASSUME NEW T \in SUBSET S
                PROVE  /\ IsFiniteSet({Free(m) : m \in T})
                       /\ Cardinality({Free(m) : m \in T}) = Cardinality(T)
    OBVIOUS
  <2> DEFINE f == [m \in T |-> Free(m)]
             R == {Free(m) : m \in T}
  <2>1. f \in [T -> R] /\ \A y \in R : \E m \in T : f[m] = y
    OBVIOUS
  <2>2. \A a, b \in T : f[a] = f[b] => a = b
    <3>. SUFFICES ASSUME NEW a \in T, NEW b \in T, Free(a) = Free(b) PROVE a = b
      OBVIOUS
    <3>1. Free(a).id = a.id /\ Free(b).id = b.id
      BY FreeIsModel
    <3>. QED  BY <3>1 DEF Distinct
  <2>3. f \in Bijection(T, R)
    <3>. HIDE DEF f, R
    <3>. QED  BY <2>1, <2>2, Fun_IsBij
  <2>4. IsFiniteSet(T)
    BY FS_Subset
  <2>. HIDE DEF f, R
  <2>5. IsFiniteSet(R) /\ Cardinality(R) = Cardinality(T)
    BY <2>3, <2>4, FS_Bijection DEF ExistsBijection
  <2>. QED  BY <2>5 DEF R
<1>5. IsFiniteSet(F)
  BY <1>4
<1>6. E \in SUBSET S
  BY DEF Eligible
<1>7. Cardinality(G) = Cardinality(E)
  BY <1>3, <1>4, <1>6
<1>8. \A m \in S : /\ Usable(Free(m)) = Usable(m) /\ Components(Free(m), q) = Components(m, q)
                   /\ Truncates(Free(m), q) = Truncates(m, q)
  <2>. TAKE m \in S
  <2>1. Usable(Free(m)) = Usable(m)
    BY FreeIsModel DEF Usable
  <2>2. \A measured, prior : Blend(Free(m), measured, prior) = Blend(m, measured, prior)
    BY FreeIsModel DEF Blend
  <2>3. /\ Free(m).tier = m.tier /\ Free(m).strengths = m.strengths /\ Free(m).maxOut = m.maxOut
        /\ Free(m).taskScore = m.taskScore /\ Free(m).overall = m.overall
        /\ Free(m).reliability = m.reliability
    BY FreeIsModel
  <2>. QED  BY <2>1, <2>2, <2>3 DEF Components, Truncates
<1>9. Uninformative(G, q) = Uninformative(E, q)
  <2>1. \A name : {Components(m, q)[name].value : m \in G} = {Components(m, q)[name].value : m \in E}
    <3>. TAKE name
    <3> DEFINE val(m) == Components(m, q)[name].value
    <3>1. \A m \in E : val(Free(m)) = val(m)
      BY <1>6, <1>8
    <3>. HIDE DEF val, E, G
    <3>2. {val(m) : m \in G} = {val(m) : m \in E}
      BY <1>3, <3>1
    <3>. QED  BY <3>2 DEF val
  <2>. HIDE DEF E, G
  <2>. QED  BY <1>7, <2>1 DEF Uninformative
<1>10. \A m \in E : Score(Free(m), G, q) = Score(m, E, q)
  <2>. TAKE m \in E
  <2>1. Components(Free(m), q) = Components(m, q)
    BY <1>6, <1>8
  <2>. HIDE DEF E, G
  <2>. QED  BY <1>9, <2>1 DEF Score
<1>11. Whole(F, q) = {} <=> Whole(S, q) = {}
  BY <1>3, <1>6, <1>8 DEF Whole
<1>12. ASSUME NEW m \in E PROVE GradeOf(Free(m), F, q) = GradeOf(m, S, q)
  <2>1. ScoresOf(F, q)[Free(m)] = Score(Free(m), G, q) /\ ScoresOf(S, q)[m] = Score(m, E, q)
    BY <1>3 DEF ScoresOf
  <2>2. ScoresOf(F, q)[Free(m)] = ScoresOf(S, q)[m]
    BY <1>10, <2>1
  <2>3. m \in S /\ Free(m).tier = m.tier
    BY <1>6, FreeIsModel
  <2>4. Usable(Free(m)) = Usable(m) /\ Truncates(Free(m), q) = Truncates(m, q)
    BY <1>8, <2>3
  <2>. QED  BY <1>11, <2>2, <2>3, <2>4 DEF GradeOf
<1>. QED  BY <1>1, <1>2, <1>3, <1>5, <1>7, <1>10, <1>12
-----------------------------------------------------------------------------
(* What the objectives promise. *)

(* A subscription that comes before a card model, where both or neither take the
   input whole, comes before one that is not adequate. *)
LEMMA QuotaIsProtected ==
  ASSUME NEW S \in SUBSET Models, IsFiniteSet(S), Distinct(S), NEW q \in Question,
         NEW r, RankedWell(r, S, q, "cash_protect_quota"), q.difficulty # "hard",
         NEW i \in 1..Len(r), NEW j \in 1..Len(r), i < j,
         r[i].billing \in Subscription, r[j].billing \notin Subscription,
         Truncates(r[i], q) <=> Truncates(r[j], q), Whole(S, q) # {}
  PROVE  r[j].tier < DesiredTier[q.difficulty]
<1> DEFINE cand == Eligible(S, q)
           score == ScoresOf(S, q)
           key(m, group) == Key(m, score, group, q, "cash_protect_quota")
<1>1. r[i] \in cand /\ r[j] \in cand
  <2>1. r \in Seq(cand)
    BY DEF RankedWell
  <2>. HIDE DEF cand
  <2>. QED  BY <2>1
<1>2. PICK T \in {Whole(S, q), Cut(S, q)} :
        r[i] \in T /\ r[j] \in T /\ Less(key(r[i], T), key(r[j], T))
  <2>1. /\ r[i] \in Whole(S, q) /\ r[j] \in Whole(S, q) =>
             Less(key(r[i], Whole(S, q)), key(r[j], Whole(S, q)))
        /\ r[i] \in Cut(S, q) /\ r[j] \in Cut(S, q) =>
             Less(key(r[i], Cut(S, q)), key(r[j], Cut(S, q)))
    BY DEF RankedWell
  <2>2. \/ r[i] \in Whole(S, q) /\ r[j] \in Whole(S, q)
        \/ r[i] \in Cut(S, q) /\ r[j] \in Cut(S, q)
    BY <1>1 DEF Whole, Cut
  <2>. HIDE DEF key
  <2>. QED  BY <2>1, <2>2
<1>3. T \in SUBSET Models /\ Valued(T, score)
  BY GroupsAreFine
<1>4. r[j].tier \in Int /\ DesiredTier[q.difficulty] \in Int
  <2>1. r[j] \in Models
    BY <1>2, <1>3
  <2>2. r[j].tier \in Int
    BY <2>1 DEF Models
  <2>. QED  BY <2>2, Targets
<1>5. SUFFICES ASSUME r[j].tier >= DesiredTier[q.difficulty] PROVE FALSE
  BY <1>4
<1>6. r[j] \in Pool(T, q) /\ r[i] \notin Pool(T, q)
  BY <1>2, <1>5 DEF Pool
<1>7. "cash_protect_quota" \in Objective
  BY DEF Objective
<1>8. /\ KeyTold(r[i], score, T, q, "cash_protect_quota") /\ key(r[i], T) \in Seq(Int)
      /\ KeyTold(r[j], score, T, q, "cash_protect_quota") /\ key(r[j], T) \in Seq(Int)
  BY <1>2, <1>3, <1>7, KeysTold
<1>9. /\ \E a, b \in Int : key(r[i], T) = <<1, a, Cash(r[i]), b, -score[r[i]], r[i].id>>
      /\ key(r[j], T) = <<0, Cash(r[j]), r[j].tier, -score[r[j]], r[j].id>>
  BY <1>6, <1>8 DEF KeyTold
<1>. HIDE DEF key
<1>10. /\ Len(key(r[i], T)) >= 2 /\ key(r[i], T)[1] = 1
       /\ Len(key(r[j], T)) >= 2 /\ key(r[j], T)[1] = 0
  BY <1>9
<1>11. key(r[i], T)[1] < key(r[j], T)[1] \/ key(r[i], T)[1] = key(r[j], T)[1]
  BY <1>2, <1>8, <1>10, LessAtHead
<1>. QED  BY <1>10, <1>11

MeritOf(s, q) == [i \in DOMAIN s |-> <<Score(s[i], ToSet(s), q), s[i].tier>>]

(* A ranking is of every candidate, once. *)
LEMMA RankedIsWhole ==
  ASSUME NEW S \in SUBSET Models, IsFiniteSet(S), Distinct(S), NEW q \in Question,
         NEW aim \in Objective, NEW r, RankedWell(r, S, q, aim)
  PROVE  /\ ToSet(r) = Eligible(S, q) /\ IsInjective(r)
         /\ DOMAIN r = 1..Len(r) /\ Len(r) \in Nat /\ Len(r) = Cardinality(Eligible(S, q))
<1>1. /\ r \in Seq(Eligible(S, q)) /\ Len(r) = Cardinality(Eligible(S, q))
      /\ \A m \in Eligible(S, q) : \E i \in 1..Len(r) : r[i] = m
      /\ \A i, j \in 1..Len(r) : i < j => r[i] # r[j]
  BY DEF RankedWell
<1> DEFINE E == Eligible(S, q)
<1>. HIDE DEF E
<1>2. /\ r \in Seq(E) /\ Len(r) = Cardinality(E)
      /\ \A m \in E : \E i \in 1..Len(r) : r[i] = m
  BY <1>1 DEF E
<1>3. DOMAIN r = 1..Len(r) /\ Len(r) \in Nat /\ \A i \in 1..Len(r) : r[i] \in E
  BY <1>2
<1>4. ToSet(r) = E
  BY <1>2, <1>3 DEF ToSet
<1>5. \A i, j \in 1..Len(r) : r[i] = r[j] => i = j
  <2>1. \A i, j \in Int : i < j \/ j < i \/ i = j
    OBVIOUS
  <2>. QED  BY <1>1, <2>1
<1>. QED  BY <1>2, <1>3, <1>4, <1>5 DEF IsInjective, E

LEMMA MeritIsGrade ==
  ASSUME NEW S \in SUBSET Models, IsFiniteSet(S), Distinct(S), NEW q \in Question,
         NEW aim \in Objective, NEW r, RankedWell(r, S, q, aim)
  PROVE  MeritOf(r, q) =
           [i \in 1..Len(r) |-> <<GradeOf(r[i], S, q).score, GradeOf(r[i], S, q).tier>>]
<1>1. ToSet(r) = Eligible(S, q) /\ DOMAIN r = 1..Len(r)
  BY RankedIsWhole
<1>2. \A i \in 1..Len(r) : r[i] \in Eligible(S, q)
  BY <1>1 DEF ToSet
<1>3. \A i \in 1..Len(r) : /\ GradeOf(r[i], S, q).score = Score(r[i], ToSet(r), q)
                           /\ GradeOf(r[i], S, q).tier = r[i].tier
  BY <1>1, <1>2 DEF GradeOf, ScoresOf
<1>. QED  BY <1>1, <1>3 DEF MeritOf

FreeOf(S) == {Free(m) : m \in S}

(* What a model costs does not decide who is tried first for quality. *)
LEMMA PriceDecidesNothing ==
  ASSUME NEW S \in SUBSET Models, IsFiniteSet(S), Distinct(S), NEW q \in Question
  PROVE  MeritOf(Ranked(S, q, "quality"), q) = MeritOf(Ranked(FreeOf(S), q, "quality"), q)
<1> DEFINE F == FreeOf(S)
           r == Ranked(S, q, "quality")
           f == Ranked(F, q, "quality")
           E == Eligible(S, q)
           n == Len(r)
           v == [i \in 1..n |-> GradeOf(r[i], S, q)]
           w == [i \in 1..n |-> GradeOf(f[i], F, q)]
           p == [i \in 1..n |-> CHOOSE k \in 1..n : f[k] = Free(r[i])]
<1>1. /\ F \in SUBSET Models /\ IsFiniteSet(F) /\ Distinct(F)
      /\ Eligible(F, q) = {Free(m) : m \in E}
      /\ Cardinality(Eligible(F, q)) = Cardinality(E)
      /\ \A m \in E : GradeOf(Free(m), F, q) = GradeOf(m, S, q)
  BY FreeScoresSame DEF FreeOf
<1>. HIDE DEF F
<1>2. RankedWell(r, S, q, "quality") /\ RankedWell(f, F, q, "quality") /\ "quality" \in Objective
  <2>1. "quality" \in Objective
    BY DEF Objective
  <2>. QED  BY <1>1, <2>1, RankedAreRankedWell
<1>. HIDE DEF r, f
<1>3. /\ ToSet(r) = E /\ IsInjective(r) /\ DOMAIN r = 1..n /\ n \in Nat
      /\ ToSet(f) = Eligible(F, q) /\ IsInjective(f) /\ DOMAIN f = 1..Len(f) /\ Len(f) = n
  BY <1>1, <1>2, RankedIsWhole
<1>4. Graded(v, n) /\ Graded(w, n)
  BY <1>1, <1>2, <1>3, QualityIsGraded
<1>5. \A i \in 1..n : r[i] \in E
  BY <1>3 DEF ToSet
<1>6. \A i \in 1..n : p[i] \in 1..n /\ f[p[i]] = Free(r[i])
  <2>. TAKE i \in 1..n
  <2>1. Free(r[i]) \in ToSet(f)
    <3>. HIDE DEF E
    <3>. QED  BY <1>1, <1>3, <1>5
  <2>2. \E k \in 1..n : f[k] = Free(r[i])
    BY <1>3, <2>1 DEF ToSet
  <2>. HIDE DEF n
  <2>. QED  BY <2>2
<1>7. \A k, l \in 1..n : p[k] = p[l] => k = l
  <2>. SUFFICES ASSUME NEW k \in 1..n, NEW l \in 1..n, p[k] = p[l] PROVE k = l
    OBVIOUS
  <2>1. Free(r[k]) = Free(r[l])
    <3>. HIDE DEF p
    <3>. QED  BY <1>6
  <2>2. r[k] \in S /\ r[l] \in S
    BY <1>5 DEF Eligible
  <2>3. r[k].id = r[l].id
    <3>1. Free(r[k]).id = r[k].id /\ Free(r[l]).id = r[l].id
      BY <2>2, FreeIsModel
    <3>. QED  BY <2>1, <3>1
  <2>4. r[k] = r[l]
    BY <2>2, <2>3 DEF Distinct
  <2>. QED  BY <1>3, <2>4 DEF IsInjective
<1>8. \A k \in 1..n : w[p[k]] = v[k]
  <2>. TAKE k \in 1..n
  <2>1. w[p[k]] = GradeOf(f[p[k]], F, q)
    <3>. HIDE DEF p
    <3>. QED  BY <1>6
  <2>2. GradeOf(f[p[k]], F, q) = GradeOf(Free(r[k]), F, q)
    <3>. HIDE DEF p
    <3>. QED  BY <1>6
  <2>3. GradeOf(Free(r[k]), F, q) = GradeOf(r[k], S, q)
    BY <1>1, <1>5
  <2>. QED  BY <2>1, <2>2, <2>3
<1>9. \A i \in 1..n : v[i] = w[i]
  <2>1. p \in [1..n -> 1..n]
    BY <1>6
  <2>2. n \in Nat
    BY <1>3
  <2>. HIDE DEF p, v, w, n
  <2>. QED  BY SMTT(30), <1>4, <1>7, <1>8, <2>1, <2>2, SortedSame
<1>10. \A i \in 1..n : GradeOf(r[i], S, q) = GradeOf(f[i], F, q)
  BY <1>9
<1>11. /\ MeritOf(r, q) = [i \in 1..n |-> <<GradeOf(r[i], S, q).score, GradeOf(r[i], S, q).tier>>]
       /\ MeritOf(f, q) = [i \in 1..n |-> <<GradeOf(f[i], F, q).score, GradeOf(f[i], F, q).tier>>]
  <2>1. MeritOf(r, q) = [i \in 1..n |-> <<GradeOf(r[i], S, q).score, GradeOf(r[i], S, q).tier>>]
    BY <1>2, MeritIsGrade
  <2>2. MeritOf(f, q) =
          [i \in 1..Len(f) |-> <<GradeOf(f[i], F, q).score, GradeOf(f[i], F, q).tier>>]
    <3>1. F \in SUBSET Models /\ IsFiniteSet(F) /\ Distinct(F)
      BY <1>1
    <3>2. RankedWell(f, F, q, "quality") /\ "quality" \in Objective
      BY <1>2
    <3>. HIDE DEF E, n, v, w, p
    <3>. QED  BY <3>1, <3>2, MeritIsGrade
  <2>3. Len(f) = n
    BY <1>3
  <2>. QED  BY <2>1, <2>2, <2>3
<1>12. MeritOf(r, q) = MeritOf(f, q)
  <2> DEFINE a(i) == GradeOf(r[i], S, q)
             b(i) == GradeOf(f[i], F, q)
  <2>. HIDE DEF a, b, n
  <2>1. \A i \in 1..n : a(i) = b(i)
    BY <1>10 DEF a, b
  <2>2. [i \in 1..n |-> <<a(i).score, a(i).tier>>] = [i \in 1..n |-> <<b(i).score, b(i).tier>>]
    BY <2>1
  <2>. QED  BY <1>11, <2>2 DEF a, b
<1>. QED  BY <1>12 DEF r, f, F

-----------------------------------------------------------------------------
(* The configuration, and the ranking of its candidates. *)

(* The configuration: what Init draws and no step changes. *)
ConfigInv ==
  /\ inventory \in SUBSET Table /\ inventory # {} /\ Distinct(inventory)
  /\ prefer \in Objective
  /\ estimate \in Estimates
  /\ streams \in BOOLEAN /\ verifies \in BOOLEAN

LEMMA InitConfig == Init => ConfigInv
<1>. SUFFICES ASSUME Init PROVE ConfigInv
  OBVIOUS
<1>1. inventory \in SUBSET Table /\ Cardinality(inventory) \in 1..MaxModels /\ Distinct(inventory)
  BY DEF Init
<1>2. inventory # {}
  BY <1>1, FS_EmptySet, DirectAssumption
<1>. QED  BY <1>1, <1>2 DEF Init, ConfigInv

LEMMA StepConfig == [Next]_vars => UNCHANGED config
<1>1. ASSUME Progress PROVE UNCHANGED config
  <2>1. CASE ProbeCalls \/ BuildDone \/ BuildFails \/ Routes
    BY <2>1 DEF ProbeCalls, BuildDone, BuildFails, Routes
  <2>2. CASE Calls \/ HttpStep \/ CliStep
    BY <2>2 DEF Calls, HttpStep, CliStep
  <2>3. CASE ProviderFailed \/ Escaped \/ Incomplete \/ Blank \/ Answered
    BY <2>3 DEF ProviderFailed, Escaped, Incomplete, Blank, Answered
  <2>4. CASE NotDerived \/ Derived
    BY <2>4 DEF NotDerived, Derived, Detected
  <2>5. CASE Exhausted \/ Records \/ Prints
    BY <2>5 DEF Exhausted, Records, Prints
  <2>. QED  BY <1>1, <2>1, <2>2, <2>3, <2>4, <2>5 DEF Progress
<1>2. CASE ReaderCloses \/ Interrupted
  BY <1>2 DEF ReaderCloses, Interrupted
<1>3. CASE UNCHANGED vars
  BY <1>3 DEF vars
<1>. QED  BY <1>1, <1>2, <1>3 DEF Next

LEMMA ConfigKept == ConfigInv /\ [Next]_vars => ConfigInv'
BY StepConfig DEF ConfigInv, config

LEMMA ConfigHolds == Spec => []ConfigInv
<1>1. Init => ConfigInv
  BY InitConfig
<1>2. ConfigInv /\ [Next]_vars => ConfigInv'
  BY ConfigKept
<1>. QED  BY <1>1, <1>2, PTL DEF Spec

(* What there is to rank. *)
LEMMA InventoryIsFine ==
  ASSUME ConfigInv
  PROVE  /\ inventory \in SUBSET Models /\ IsFiniteSet(inventory) /\ Distinct(inventory)
         /\ inventory # {}
BY DirectAssumption, FS_Subset DEF ConfigInv

LEMMA GoalsAreQuestions ==
  ASSUME ConfigInv, NEW difficulty \in Difficulty, NEW agentic \in BOOLEAN
  PROVE  /\ Goal \in Question
         /\ [Goal EXCEPT !.difficulty = difficulty, !.agentic = agentic] \in Question
         /\ [Goal EXCEPT !.difficulty = difficulty, !.agentic = agentic].difficulty = difficulty
<1>1. estimate \in Nat /\ "medium" \in Difficulty /\ "code" \in DOMAIN Required
  BY DirectAssumption DEF ConfigInv, Difficulty, Required
<1>. QED  BY <1>1 DEF Goal, Question

LEMMA ObjectiveHonoured == ConfigInv => RankingHonoursObjective
<1>. SUFFICES ASSUME ConfigInv, NEW difficulty \in Difficulty, NEW agentic \in BOOLEAN
     PROVE LET q == [Goal EXCEPT !.difficulty = difficulty, !.agentic = agentic]
               r == Ranked(inventory, q, prefer)
               free == {[m EXCEPT !.costIn = 0, !.costOut = 0] : m \in inventory}
               merit(s) == [i \in DOMAIN s |-> <<Score(s[i], ToSet(s), q), s[i].tier>>]
           IN  /\ ToSet(r) = Eligible(inventory, q) /\ IsInjective(r)
               /\ \A i, j \in DOMAIN r :
                    i < j => ~(Truncates(r[i], q) /\ ~Truncates(r[j], q))
               /\ prefer = "cash_protect_quota" /\ difficulty # "hard" =>
                    \A i, j \in DOMAIN r :
                      /\ i < j /\ IsPlan(r[i]) /\ ~IsPlan(r[j])
                      /\ Truncates(r[i], q) = Truncates(r[j], q)
                      /\ \E k \in DOMAIN r : ~Truncates(r[k], q)
                      => r[j].tier < DesiredTier[difficulty]
               /\ prefer = "quality" => merit(r) = merit(Ranked(free, q, prefer))
  BY DEF RankingHonoursObjective
<1> DEFINE q == [Goal EXCEPT !.difficulty = difficulty, !.agentic = agentic]
           r == Ranked(inventory, q, prefer)
<1>1. /\ inventory \in SUBSET Models /\ IsFiniteSet(inventory) /\ Distinct(inventory)
      /\ q \in Question /\ q.difficulty = difficulty /\ prefer \in Objective
  BY InventoryIsFine, GoalsAreQuestions DEF ConfigInv
<1>. HIDE DEF q
<1>2. RankedWell(r, inventory, q, prefer)
  BY <1>1, RankedAreRankedWell
<1>. HIDE DEF r
<1>3. ToSet(r) = Eligible(inventory, q) /\ IsInjective(r) /\ DOMAIN r = 1..Len(r)
  BY <1>1, <1>2, RankedIsWhole
<1>4. \A i, j \in DOMAIN r : i < j => ~(Truncates(r[i], q) /\ ~Truncates(r[j], q))
  BY <1>2, <1>3 DEF RankedWell
<1>5. ASSUME prefer = "cash_protect_quota", difficulty # "hard",
             NEW i \in DOMAIN r, NEW j \in DOMAIN r, i < j, IsPlan(r[i]), ~IsPlan(r[j]),
             Truncates(r[i], q) = Truncates(r[j], q), \E k \in DOMAIN r : ~Truncates(r[k], q)
      PROVE  r[j].tier < DesiredTier[difficulty]
  <2>1. PICK k \in DOMAIN r : ~Truncates(r[k], q)
    BY <1>5
  <2>2. r[k] \in Whole(inventory, q)
    BY <1>3, <2>1 DEF ToSet, Whole
  <2>3. r[i].billing \in Subscription /\ r[j].billing \notin Subscription
    BY <1>5 DEF IsPlan
  <2>4. RankedWell(r, inventory, q, "cash_protect_quota")
    BY <1>2, <1>5
  <2>5. Truncates(r[i], q) <=> Truncates(r[j], q)
    BY <1>5
  <2>6. Whole(inventory, q) # {}
    BY <2>2
  <2>7. i \in 1..Len(r) /\ j \in 1..Len(r)
    BY <1>3
  <2>. QED  BY <1>1, <1>5, <2>3, <2>4, <2>5, <2>6, <2>7, QuotaIsProtected
<1>6. ASSUME prefer = "quality"
      PROVE  [i \in DOMAIN r |-> <<Score(r[i], ToSet(r), q), r[i].tier>>] =
             LET s == Ranked({[m EXCEPT !.costIn = 0, !.costOut = 0] : m \in inventory}, q, prefer)
             IN  [i \in DOMAIN s |-> <<Score(s[i], ToSet(s), q), s[i].tier>>]
  <2>1. MeritOf(Ranked(inventory, q, "quality"), q) =
          MeritOf(Ranked(FreeOf(inventory), q, "quality"), q)
    BY <1>1, PriceDecidesNothing
  <2>. QED  BY <1>6, <2>1 DEF MeritOf, FreeOf, Free, r
<1>. QED  BY <1>3, <1>4, <1>5, <1>6 DEF q, r

LEMMA ReweightedFairly == ConfigInv => ReweightingIsFair
<1>. SUFFICES ASSUME ConfigInv PROVE ReweightingIsFair
  OBVIOUS
<1> DEFINE S == Eligible(inventory, Goal)
<1>1. S \in SUBSET Models /\ IsFiniteSet(S) /\ Goal \in Question
  <2>1. inventory \in SUBSET Models /\ IsFiniteSet(inventory) /\ S \subseteq inventory
    BY InventoryIsFine DEF Eligible
  <2>2. Goal \in Question
    BY GoalsAreQuestions DEF Difficulty
  <2>. QED  BY <2>1, <2>2, FS_Subset
<1>2. ASSUME NEW m \in S, NEW n \in S, RawScore(m, Goal) > RawScore(n, Goal) + 100
      PROVE  Score(m, S, Goal) > Score(n, S, Goal)
  <2>. HIDE DEF S
  <2>. QED  BY <1>1, <1>2, ReweightingKeepsOrder
<1>. QED  BY <1>2 DEF ReweightingIsFair, RawScore

(* At any difficulty and under every objective, of any models: every       *)
(* eligible model is ranked once, who must cut the input comes last, the   *)
(* quota is drawn on after the adequate card models, price never decides   *)
(* on quality, and reweighting turns no two candidates round               *)
(* (Router.route_ranked).                                                  *)
THEOREM RankingFair == Spec => []RankingIsFair
<1>1. ConfigInv => RankingIsFair
  BY ObjectiveHonoured, ReweightedFairly DEF RankingIsFair
<1>. QED  BY <1>1, ConfigHolds, PTL

-----------------------------------------------------------------------------
(* The course of a run. *)

Ranking == Ranked(inventory, Goal, prefer)
Whys == {"pipe", "unavailable", "blank"}
Try == [id : Nat, why : Whys]
Walking == {"choosing", "calling", "replied", "verifying"}
Told == result.status # "none"

(* What is left to try and what was tried make up the ranking. *)
WalkInv ==
  at \in Walking \/ Told =>
    /\ walk \in Seq(Models) /\ tried \in Seq(Try)
    /\ Len(walk) + Len(tried) = Len(Ranking)
    /\ \A i \in 1..Len(walk) : walk[i] = Ranking[Len(tried) + i]
    /\ \A i \in 1..Len(tried) : tried[i].id = Ranking[i].id

(* Where a run is, and what has come of it by then. *)
PlaceInv ==
  /\ at \in Walking \cup {"building", "routing", "returned", "printing", "exited", "interrupted"}
  /\ at \in {"building", "routing"} => reply.kind = "none" /\ tried = <<>> /\ counted = 0
  /\ at \in {"calling", "replied", "verifying"} => walk # <<>>
  /\ at \in Walking \cup {"building", "routing"} => ~Told
  /\ at \in {"returned", "printing"} => Told
  /\ result.status \in {"none", "success", "failed"}
  /\ result.status = "failed" => walk = <<>>
  /\ result.status = "success" => walk # <<>> /\ result.model = Head(walk).id

(* Who has the connection, and what a reply says of what came over it. *)
WireInv ==
  /\ http \in {"closed", "opening", "streaming"}
  /\ at \notin {"calling", "exited", "interrupted"} => http = "closed"
  /\ at = "calling" => reply.kind = "none" /\ (IsCli(Head(walk)) <=> http = "closed")
  /\ http = "streaming" => streams
  /\ pipe \in {"open", "closed"}

Faithful == streams /\ ~IsCli(Head(walk)) => reply.text = pieces /\ reply.stop = Canonical(stop)
ReplyInv ==
  /\ at = "replied" => reply.kind \in {"error", "response", "raised"}
  /\ at = "replied" /\ reply.kind = "response" => Faithful
  /\ at = "verifying" => reply.kind = "response" /\ reply.stop \in Complete /\ Faithful
  /\ at = "replied" /\ reply.kind = "raised" /\ reply.why = "BrokenPipeError" => pipe = "closed"
  /\ Answering => /\ reply.kind = "response" /\ reply.stop \in Complete /\ Faithful
                  /\ result.text = reply.text
  /\ Final /\ reply.kind = "error" => walk = <<>>

RecordInv ==
  /\ at # "interrupted" => recorded = IF at \in {"printing", "exited"} /\ Told THEN 1 ELSE 0
  /\ at = "interrupted" => recorded \in {0, 1} /\ (recorded = 1 => Told) /\ code # 0
  /\ at = "exited" => /\ code = 0 => Answering \/ pipe = "closed"
                      /\ Answering => code = 0 \/ pipe = "closed"

CourseInv == WalkInv /\ PlaceInv /\ WireInv /\ ReplyInv /\ RecordInv

LEMMA RankingTold ==
  ASSUME ConfigInv
  PROVE  /\ RankedWell(Ranking, inventory, Goal, prefer)
         /\ Ranking \in Seq(Models) /\ Len(Ranking) \in Nat
         /\ \A i \in 1..Len(Ranking) : Ranking[i] \in inventory
<1>1. /\ inventory \in SUBSET Models /\ IsFiniteSet(inventory) /\ Distinct(inventory)
      /\ Goal \in Question /\ prefer \in Objective
  <2>1. "medium" \in Difficulty
    BY DEF Difficulty
  <2>. QED  BY <2>1, InventoryIsFine, GoalsAreQuestions DEF ConfigInv
<1>2. RankedWell(Ranking, inventory, Goal, prefer)
  BY <1>1, RankedAreRankedWell DEF Ranking
<1>3. Ranking \in Seq(Eligible(inventory, Goal)) /\ Eligible(inventory, Goal) \subseteq inventory
  BY <1>2 DEF RankedWell, Eligible
<1>. HIDE DEF Ranking
<1> DEFINE E == Eligible(inventory, Goal)
<1>. HIDE DEF E
<1>4. Ranking \in Seq(E) /\ E \subseteq inventory
  BY <1>3 DEF E
<1>5. \A i \in 1..Len(Ranking) : Ranking[i] \in inventory
  BY <1>4
<1>6. Ranking \in Seq(Models) /\ Len(Ranking) \in Nat
  BY <1>1, <1>4, <1>5
<1>. QED  BY <1>2, <1>5, <1>6

LEMMA RankingSame ==
  ASSUME UNCHANGED config PROVE Ranking' = Ranking /\ PlannerIsPlan' = PlannerIsPlan
BY DEF config, Ranking, Goal, PlannerIsPlan, Planner

LEMMA BillTold ==
  ASSUME NEW status, NEW calls, NEW book
  PROVE  LET r == Bill(status, calls, book) IN
         /\ r.status = status /\ r.calls = calls /\ r.checks = NoChecks
         /\ r.billed = CostsUsd(book, inventory).billed
         /\ r.credit = CostsUsd(book, inventory).credit /\ r.estimated = book.estimated
BY DEF Bill, NoResult

LEMMA AnswerTold ==
  ASSUME NEW calls, NEW book, NEW checks
  PROVE  LET r == Answer(calls, book, checks) IN
         /\ r.status = "success" /\ r.calls = calls /\ r.checks = checks
         /\ r.model = Head(walk).id /\ r.text = reply.text
         /\ r.billed = CostsUsd(book, inventory).billed
         /\ r.credit = CostsUsd(book, inventory).credit /\ r.estimated = book.estimated
BY DEF Answer, Bill, NoResult

(* The model being tried is one of the user's. *)
LEMMA HeadIsOurs ==
  ASSUME ConfigInv, WalkInv, at \in Walking \/ Told, walk # <<>>
  PROVE  Head(walk) \in inventory /\ Head(walk) \in Models /\ Len(walk) \in Nat \ {0}
<1>1. walk \in Seq(Models) /\ Len(walk) + Len(tried) = Len(Ranking)
      /\ \A i \in 1..Len(walk) : walk[i] = Ranking[Len(tried) + i]
      /\ Len(tried) \in Nat
  BY DEF WalkInv
<1>2. Len(walk) \in Nat \ {0} /\ Head(walk) = walk[1]
  BY <1>1
<1>3. 1 \in 1..Len(walk) /\ Len(tried) + 1 \in 1..Len(Ranking)
  BY <1>1, <1>2, RankingTold
<1>4. Head(walk) = Ranking[Len(tried) + 1]
  BY <1>1, <1>2, <1>3
<1>. QED  BY <1>1, <1>2, <1>3, <1>4, RankingTold

LEMMA InitCourse == Init => CourseInv
<1>. SUFFICES ASSUME Init PROVE CourseInv
  OBVIOUS
<1>1. ~Told /\ result.status = "none"
  BY DEF Init, Told, NoResult
<1>2. WalkInv
  BY <1>1 DEF Init, WalkInv, Walking
<1>3. PlaceInv
  BY <1>1 DEF Init, PlaceInv, Walking, HttpInit, NoReply
<1>4. WireInv
  BY <1>1 DEF Init, WireInv, HttpInit
<1>5. ReplyInv
  BY <1>1 DEF Init, ReplyInv, Answering, Final
<1>6. RecordInv
  BY <1>1 DEF Init, RecordInv
<1>. QED  BY <1>2, <1>3, <1>4, <1>5, <1>6 DEF CourseInv

LEMMA WalkKept ==
  ASSUME ConfigInv, WalkInv, PlaceInv, [Next]_vars PROVE WalkInv'
<1>1. UNCHANGED config /\ Ranking' = Ranking
  BY StepConfig, RankingSame
<1> DEFINE Kept == UNCHANGED <<walk, tried>>
           WasWalking == at \in Walking \/ Told
<1>2. ASSUME Kept, (at \in Walking \/ Told)' => WasWalking PROVE WalkInv'
  BY <1>1, <1>2 DEF WalkInv
<1>3. CASE Routes
  <2>1. tried = <<>> /\ tried' = <<>> /\ walk' = Ranking
    BY <1>3 DEF Routes, PlaceInv, Ranking
  <2>2. Ranking \in Seq(Models) /\ Len(Ranking) \in Nat
    BY RankingTold
  <2>. QED  BY <1>1, <2>1, <2>2 DEF WalkInv
<1>4. ASSUME NEW why \in Whys, MovesOn(why), at = "replied" PROVE WalkInv'
  <2>1. /\ tried' = Append(tried, [id |-> Head(walk).id, why |-> why])
        /\ walk' = Tail(walk) /\ walk # <<>>
        /\ walk \in Seq(Models) /\ tried \in Seq(Try)
        /\ Len(walk) + Len(tried) = Len(Ranking)
        /\ \A i \in 1..Len(walk) : walk[i] = Ranking[Len(tried) + i]
        /\ \A i \in 1..Len(tried) : tried[i].id = Ranking[i].id
    BY <1>4 DEF MovesOn, PlaceInv, WalkInv, Walking
  <2>2. Head(walk) \in Models /\ Head(walk) = walk[1] /\ Len(walk) \in Nat \ {0} /\ Len(tried) \in Nat
    BY <2>1
  <2>3. Head(walk).id \in Nat
    BY <2>2 DEF Models
  <2> DEFINE entry == [id |-> Head(walk).id, why |-> why]
  <2>4. entry \in Try /\ entry.id = Head(walk).id
    BY <2>3 DEF Try
  <2>. HIDE DEF entry
  <2>5. /\ tried' \in Seq(Try) /\ Len(tried') = Len(tried) + 1
        /\ \A i \in 1..Len(tried) : tried'[i] = tried[i]
        /\ tried'[Len(tried) + 1] = entry
    BY <2>1, <2>4 DEF entry
  <2>6. /\ walk' \in Seq(Models) /\ Len(walk') = Len(walk) - 1
        /\ \A i \in 1..Len(walk') : walk'[i] = walk[i + 1]
    BY <2>1
  <2>7. \A i \in 1..Len(walk') : walk'[i] = Ranking[Len(tried') + i]
    <3>. TAKE i \in 1..Len(walk')
    <3>1. i + 1 \in 1..Len(walk) /\ Len(tried') + i = Len(tried) + (i + 1)
      BY <2>2, <2>5, <2>6
    <3>. QED  BY <2>1, <2>6, <3>1
  <2>8. \A i \in 1..Len(tried') : tried'[i].id = Ranking[i].id
    <3>. TAKE i \in 1..Len(tried')
    <3>1. CASE i \in 1..Len(tried)
      BY <2>1, <2>5, <3>1
    <3>2. CASE i = Len(tried) + 1
      <4>1. walk[1] = Ranking[Len(tried) + 1]
        BY <2>1, <2>2
      <4>. QED  BY <2>2, <2>4, <2>5, <3>2, <4>1
    <3>. QED  BY <2>2, <2>5, <3>1, <3>2
  <2>9. Len(walk') + Len(tried') = Len(Ranking)
    BY <2>1, <2>2, <2>5, <2>6
  <2>. QED  BY <1>1, <2>5, <2>6, <2>7, <2>8, <2>9 DEF WalkInv
<1>5. CASE ProviderFailed
  <2> DEFINE why == IF reply.err = BrokenPipe THEN "pipe" ELSE "unavailable"
  <2>1. MovesOn(why) /\ at = "replied"
    BY <1>5 DEF ProviderFailed
  <2>2. why \in Whys
    BY DEF Whys
  <2>. HIDE DEF why
  <2>. QED  BY <1>4, <2>1, <2>2
<1>6. CASE Blank
  <2>1. MovesOn("blank") /\ at = "replied" /\ "blank" \in Whys
    BY <1>6 DEF Blank, Whys
  <2>. QED  BY <1>4, <2>1
<1>7. CASE ProbeCalls \/ BuildDone \/ BuildFails
  BY <1>2, <1>7 DEF ProbeCalls, BuildDone, BuildFails, walkVars, endVars, Exits, Walking, Told
<1>8. CASE Calls \/ HttpStep \/ CliStep
  BY <1>2, <1>8 DEF Calls, HttpStep, CliStep, walkVars, endVars, Walking, Told
<1>9. CASE Escaped \/ Incomplete
  BY <1>2, <1>9 DEF Escaped, Incomplete, walkVars, Exits, HandlesBrokenPipe, Walking, Told
<1>15. CASE Interrupted
  BY <1>2, <1>15 DEF Interrupted, NoResult, walkVars, Walking, Told
<1>10. CASE Answered
  BY <1>2, <1>10 DEF Answered, walkVars, Walking
<1>11. CASE NotDerived \/ Derived
  BY <1>2, <1>11 DEF NotDerived, Derived, Detected, walkVars, Walking
<1>12. CASE Exhausted \/ Records \/ Prints
  BY <1>2, <1>12 DEF Exhausted, Records, Prints, walkVars, Exits, HandlesBrokenPipe, Walking, Told
<1>13. CASE ReaderCloses
  BY <1>2, <1>13 DEF ReaderCloses, walkVars, endVars, Walking, Told
<1>14. CASE UNCHANGED vars
  BY <1>2, <1>14 DEF vars, walkVars, endVars, Walking, Told
<1>. QED  BY <1>3, <1>5, <1>6, <1>7, <1>8, <1>9, <1>10, <1>11, <1>12, <1>13, <1>14, <1>15 DEF Next, Progress

LEMMA PlaceKept ==
  ASSUME ConfigInv, WalkInv, PlaceInv, ReplyInv, [Next]_vars PROVE PlaceInv'
<1>1. CASE ProbeCalls \/ BuildDone \/ BuildFails
  BY <1>1 DEF ProbeCalls, BuildDone, BuildFails, PlaceInv, Walking, Told, Exits, httpVars, walkVars, endVars
<1>2. CASE Routes
  BY <1>2 DEF Routes, PlaceInv, Walking, Told, Exits, httpVars
<1>3. CASE Calls
  BY <1>3 DEF Calls, PlaceInv, Walking, Told, endVars
<1>4. CASE HttpStep \/ CliStep
  BY <1>4 DEF HttpStep, CliStep, PlaceInv, Walking, Told, walkVars, endVars
<1>5. CASE ProviderFailed \/ Blank
  BY <1>5 DEF ProviderFailed, Blank, MovesOn, PlaceInv, Walking, Told
<1>6. CASE Escaped \/ Incomplete
  BY <1>6 DEF Escaped, Incomplete, Exits, HandlesBrokenPipe, PlaceInv, Walking, Told, walkVars
<1>13. CASE Interrupted
  BY <1>13 DEF Interrupted, NoResult, PlaceInv, Walking, Told, walkVars
<1>7. CASE Answered
  <2>1. CASE verifies
    BY <1>7, <2>1 DEF Answered, PlaceInv, Walking, Told, walkVars
  <2>2. CASE ~verifies
    <3>1. result'.status = "success" /\ result'.model = Head(walk).id
      BY <1>7, <2>2, AnswerTold DEF Answered
    <3>. QED  BY <1>7, <2>2, <3>1 DEF Answered, PlaceInv, Walking, Told, walkVars
  <2>. QED  BY <2>1, <2>2
<1>8. ASSUME NEW checks, Detected(checks), at = "verifying" PROVE PlaceInv'
  <2>1. result'.status = "success" /\ result'.model = Head(walk).id
    BY <1>8, AnswerTold DEF Detected
  <2>. QED  BY <1>8, <2>1 DEF Detected, PlaceInv, Walking, Told, walkVars
<1>9. CASE NotDerived \/ Derived
  <2>1. PICK checks : Detected(checks) /\ at = "verifying"
    BY <1>9 DEF NotDerived, Derived
  <2>. QED  BY <1>8, <2>1
<1>10. CASE Exhausted
  <2>1. result'.status = "failed"
    BY <1>10, BillTold DEF Exhausted
  <2>. QED  BY <1>10, <2>1 DEF Exhausted, PlaceInv, Walking, Told, walkVars
<1>11. CASE Records \/ Prints
  BY <1>11 DEF Records, Prints, Exits, HandlesBrokenPipe, PlaceInv, Walking, Told, walkVars
<1>12. CASE ReaderCloses \/ UNCHANGED vars
  BY <1>12 DEF ReaderCloses, vars, PlaceInv, Walking, Told, walkVars, endVars, httpVars
<1>. QED
  BY <1>1, <1>2, <1>3, <1>4, <1>5, <1>6, <1>7, <1>9, <1>10, <1>11, <1>12, <1>13 DEF Next, Progress

LEMMA WireKept ==
  ASSUME ConfigInv, PlaceInv, WireInv, [Next]_vars PROVE WireInv'
<1>1. CASE ProbeCalls \/ BuildDone \/ BuildFails \/ Routes
  BY <1>1 DEF ProbeCalls, BuildDone, BuildFails, Routes, WireInv, Exits, httpVars, config, worldVars
<1>2. CASE Calls
  BY <1>2 DEF Calls, WireInv, HttpOpens, NoReply, config
<1>3. CASE HttpStep
  <2>1. /\ http' \in {"closed", "opening", "streaming"}
        /\ http' # "closed" => reply' = reply
        /\ http' = "streaming" => streams
    BY <1>3 DEF HttpStep, HttpFails, HttpAnswers, HttpStartsStream, HttpPiece, HttpStopReason,
                HttpEndsStream, Returns, WireInv
  <2>. QED  BY <1>3, <2>1 DEF HttpStep, WireInv, config, walkVars, worldVars
<1>4. CASE CliStep
  BY <1>4 DEF CliStep, WireInv, config, worldVars
<1>5. CASE ProviderFailed \/ Blank
  BY <1>5 DEF ProviderFailed, Blank, MovesOn, WireInv, httpVars, config, worldVars
<1>6. CASE Escaped \/ Incomplete \/ Interrupted
  BY <1>6 DEF Escaped, Incomplete, Interrupted, Exits, HandlesBrokenPipe, WireInv, httpVars, config,
              worldVars
<1>7. CASE Answered \/ NotDerived \/ Derived
  BY <1>7 DEF Answered, NotDerived, Derived, Detected, WireInv, httpVars, config
<1>8. CASE Exhausted \/ Records \/ Prints
  BY <1>8 DEF Exhausted, Records, Prints, Exits, HandlesBrokenPipe, WireInv, httpVars, config, worldVars
<1>9. CASE ReaderCloses \/ UNCHANGED vars
  BY <1>9 DEF ReaderCloses, vars, WireInv, httpVars, config, walkVars, worldVars
<1>. QED
  BY <1>1, <1>2, <1>3, <1>4, <1>5, <1>6, <1>7, <1>8, <1>9 DEF Next, Progress

(* What comes over the wire is what the caller is told. *)
LEMMA RepliesFaithful ==
  ASSUME WireInv, PlaceInv, HttpStep \/ CliStep, at' = "replied"
  PROVE  /\ reply'.kind \in {"error", "response", "raised"}
         /\ reply'.kind = "response" => Faithful'
         /\ reply'.kind = "raised" /\ reply'.why = "BrokenPipeError" => pipe' = "closed"
<1>1. walk' = walk /\ streams' = streams /\ pipe' = pipe /\ (IsCli(Head(walk))' <=> IsCli(Head(walk)))
  BY DEF HttpStep, CliStep, walkVars, config, worldVars, IsCli
<1>2. CASE CliStep
  <2>1. IsCli(Head(walk)) /\ (reply'.kind = "raised" => pipe = "closed")
        /\ reply'.kind \in {"error", "response", "raised"}
    BY <1>2 DEF CliStep, Response, Error, Escapes
  <2>. QED  BY <1>1, <2>1 DEF Faithful
<1>3. CASE HttpStep
  <2>1. http' = "closed" /\ http # "closed"
    BY <1>3 DEF HttpStep
  <2>2. ASSUME NEW adapter, NEW billing, HttpFails(adapter, billing) PROVE reply'.kind = "error"
    BY <2>2 DEF HttpFails, Returns, Error
  <2>3. ASSUME NEW adapter, HttpAnswers(adapter)
        PROVE  \/ reply'.kind = "response"
               \/ reply'.kind = "raised" /\ reply'.why # "BrokenPipeError"
    BY <2>3 DEF HttpAnswers, Returns, Response, Escapes
  <2>4. ASSUME NEW adapter, NEW billing, NEW printable, HttpPiece(adapter, billing, printable)
        PROVE  reply'.kind = "error"
    BY <2>1, <2>4 DEF HttpPiece, Returns, Error
  <2>5. ASSUME HttpEndsStream
        PROVE  reply'.kind = "response" /\ reply'.text = pieces' /\ reply'.stop = Canonical(stop')
    <3>1. reply' = Response(pieces, Canonical(stop)) /\ pieces' = pieces /\ stop' = stop
      BY <2>5 DEF HttpEndsStream, Returns
    <3>. QED  BY <3>1 DEF Response
  <2>6. ~HttpStartsStream /\ \A wire : ~HttpStopReason(wire)
    BY <2>1 DEF HttpStartsStream, HttpStopReason
  <2>7. \/ reply'.kind = "error"
        \/ ~streams /\ reply'.kind = "response"
        \/ reply'.kind = "raised" /\ reply'.why # "BrokenPipeError"
        \/ reply'.kind = "response" /\ reply'.text = pieces' /\ reply'.stop = Canonical(stop')
    BY <1>3, <2>2, <2>3, <2>4, <2>5, <2>6 DEF HttpStep
  <2>8. Canonical(stop)' = Canonical(stop')
    BY DEF Canonical
  <2>. QED  BY <1>1, <2>7, <2>8 DEF Faithful
<1>. QED  BY <1>2, <1>3

LEMMA ReplyKept ==
  ASSUME ConfigInv, PlaceInv, WireInv, ReplyInv, [Next]_vars PROVE ReplyInv'
<1>1. ASSUME UNCHANGED httpVars, UNCHANGED walk PROVE (Faithful' <=> Faithful) /\ UNCHANGED <<reply, walk>>
  <2>1. streams' = streams
    BY StepConfig DEF config
  <2>. QED  BY <1>1, <2>1 DEF Faithful, httpVars, IsCli, Canonical
<1>2. CASE ProbeCalls \/ BuildDone \/ BuildFails \/ Routes
  BY <1>2 DEF ProbeCalls, BuildDone, BuildFails, Routes, ReplyInv, Answering, Final, Exits, httpVars,
              endVars, PlaceInv, Walking, Told
<1>3. CASE Calls
  BY <1>3 DEF Calls, ReplyInv, Answering, Final, PlaceInv, Walking, Told, endVars
<1>4. CASE HttpStep \/ CliStep
  <2>1. at' \in {"calling", "replied"} /\ result' = result /\ ~Told
    BY <1>4 DEF HttpStep, CliStep, endVars, PlaceInv, Walking
  <2>. QED  BY <1>4, <2>1, RepliesFaithful DEF ReplyInv, Answering, Final, Told
<1>5. CASE ProviderFailed \/ Blank
  BY <1>5 DEF ProviderFailed, Blank, MovesOn, ReplyInv, Answering, Final, PlaceInv, Walking, Told
<1>6. CASE Escaped \/ Incomplete
  BY <1>6 DEF Escaped, Incomplete, Exits, HandlesBrokenPipe, ReplyInv, Answering, Final, PlaceInv, Walking,
              Told, httpVars
<1>12. CASE Interrupted
  <2>1. /\ (Faithful' <=> Faithful) /\ UNCHANGED <<reply, walk>>
        /\ at' = "interrupted" /\ (Answering' => result' = result)
    BY <1>1, <1>12 DEF Interrupted, walkVars, Answering, NoResult
  <2>. QED  BY <2>1 DEF ReplyInv, Answering, Final
<1>7. CASE Answered
  <2>1. (Faithful' <=> Faithful) /\ UNCHANGED <<reply, walk>>
    BY <1>1, <1>7 DEF Answered, walkVars
  <2>2. CASE verifies
    BY <1>7, <2>1, <2>2 DEF Answered, ReplyInv, Answering, Final, PlaceInv, Walking, Told
  <2>3. CASE ~verifies
    <3>1. result'.status = "success" /\ result'.text = reply.text
      BY <1>7, <2>3, AnswerTold DEF Answered
    <3>. QED  BY <1>7, <2>1, <2>3, <3>1 DEF Answered, ReplyInv, Final
  <2>. QED  BY <2>2, <2>3
<1>8. CASE NotDerived \/ Derived
  <2>1. PICK checks : Detected(checks) /\ at = "verifying"
    BY <1>8 DEF NotDerived, Derived
  <2>2. (Faithful' <=> Faithful) /\ UNCHANGED <<reply, walk>>
    BY <1>1, <2>1 DEF Detected, walkVars
  <2>3. result'.status = "success" /\ result'.text = reply.text
    BY <2>1, AnswerTold DEF Detected
  <2>. QED  BY <2>1, <2>2, <2>3 DEF Detected, ReplyInv, Final
<1>9. CASE Exhausted
  <2>1. result'.status = "failed"
    BY <1>9, BillTold DEF Exhausted
  <2>. QED  BY <1>9, <2>1 DEF Exhausted, ReplyInv, Answering, Final
<1>10. CASE Records \/ Prints
  <2>1. (Faithful' <=> Faithful) /\ UNCHANGED <<reply, walk>>
    BY <1>1, <1>10 DEF Records, Prints, walkVars
  <2>. QED  BY <1>10, <2>1 DEF Records, Prints, Exits, HandlesBrokenPipe, ReplyInv, Answering, Final, PlaceInv, Told
<1>11. CASE ReaderCloses \/ UNCHANGED vars
  <2>1. (Faithful' <=> Faithful) /\ UNCHANGED <<reply, walk>>
    BY <1>1, <1>11 DEF ReaderCloses, vars, walkVars
  <2>. QED  BY <1>11, <2>1 DEF ReaderCloses, vars, endVars, worldVars, ReplyInv, Answering, Final
<1>. QED
  BY <1>2, <1>3, <1>4, <1>5, <1>6, <1>7, <1>8, <1>9, <1>10, <1>11, <1>12 DEF Next, Progress

LEMMA RecordKept ==
  ASSUME ConfigInv, PlaceInv, WireInv, ReplyInv, RecordInv, [Next]_vars PROVE RecordInv'
<1>1. CASE ProbeCalls \/ BuildDone \/ BuildFails \/ Routes
  BY <1>1 DEF ProbeCalls, BuildDone, BuildFails, Routes, RecordInv, Answering, Exits, endVars, PlaceInv,
              Walking, Told
<1>2. CASE Calls \/ HttpStep \/ CliStep
  BY <1>2 DEF Calls, HttpStep, CliStep, RecordInv, PlaceInv, Walking, Told, endVars
<1>3. CASE ProviderFailed \/ Blank
  BY <1>3 DEF ProviderFailed, Blank, MovesOn, RecordInv
<1>4. CASE Escaped \/ Incomplete
  BY <1>4 DEF Escaped, Incomplete, Exits, HandlesBrokenPipe, RecordInv, Answering, PlaceInv, Walking, Told,
              ReplyInv, worldVars
<1>9. CASE Interrupted
  <2>1. /\ at' = "interrupted" /\ code' \in {120, 130} /\ recorded' = recorded
        /\ at = "printing" => result' = result
    BY <1>9 DEF Interrupted
  <2>2. recorded \in {0, 1} /\ (recorded = 1 => at = "printing" /\ Told)
    BY <1>9 DEF Interrupted, RecordInv
  <2>. QED  BY <2>1, <2>2 DEF RecordInv, Told
<1>5. CASE Answered \/ NotDerived \/ Derived \/ Exhausted
  BY <1>5 DEF Answered, NotDerived, Derived, Detected, Exhausted, RecordInv
<1>6. CASE Records
  BY <1>6 DEF Records, RecordInv, PlaceInv, Told
<1>7. CASE Prints
  BY <1>7 DEF Prints, Exits, HandlesBrokenPipe, One, RecordInv, PlaceInv, Told, Answering, worldVars
<1>8. CASE ReaderCloses \/ UNCHANGED vars
  BY <1>8 DEF ReaderCloses, vars, endVars, worldVars, RecordInv, Told, Answering
<1>. QED
  BY <1>1, <1>2, <1>3, <1>4, <1>5, <1>6, <1>7, <1>8, <1>9 DEF Next, Progress

LEMMA CourseHolds == Spec => [](ConfigInv /\ CourseInv)
<1>1. Init => ConfigInv /\ CourseInv
  BY InitConfig, InitCourse
<1>2. ConfigInv /\ CourseInv /\ [Next]_vars => (ConfigInv /\ CourseInv)'
  BY ConfigKept, WalkKept, PlaceKept, WireKept, ReplyKept, RecordKept DEF CourseInv
<1>. QED  BY <1>1, <1>2, PTL DEF Spec

-----------------------------------------------------------------------------
(* What the walk and the report say. *)

LEMMA IdsAre ==
  ASSUME NEW s, s \in Seq(Models) \/ s \in Seq(Try)
  PROVE  /\ Ids(s) \in Seq(Nat) /\ Len(Ids(s)) = Len(s) /\ Len(s) \in Nat
         /\ \A i \in 1..Len(s) : Ids(s)[i] = s[i].id
<1>1. Len(s) \in Nat /\ DOMAIN s = 1..Len(s)
  OBVIOUS
<1>2. \A i \in 1..Len(s) : s[i].id \in Nat
  <2>1. \A i \in 1..Len(s) : s[i] \in Models \/ s[i] \in Try
    OBVIOUS
  <2>2. (\A m \in Models : m.id \in Nat) /\ (\A t \in Try : t.id \in Nat)
    BY DEF Models, Try
  <2>. QED  BY <2>1, <2>2
<1>3. Ids(s) = [i \in 1..Len(s) |-> s[i].id]
  BY <1>1 DEF Ids
<1>4. Ids(s) \in [1..Len(s) -> Nat]
  BY <1>2, <1>3
<1>. QED  BY <1>1, <1>3, <1>4

LEMMA WalkTold == ConfigInv /\ CourseInv => WalkIsComplete
<1>. SUFFICES ASSUME ConfigInv, CourseInv PROVE WalkIsComplete
  OBVIOUS
<1>1. WalkInv /\ PlaceInv /\ ReplyInv
  BY DEF CourseInv
<1>2. Final /\ reply.kind = "error" => walk = <<>>
  BY <1>1 DEF ReplyInv
<1> DEFINE end == IF Answering THEN <<result.model>> ELSE <<>>
           n == Len(tried) + One(Answering)
<1>3. ASSUME at = "returned"
      PROVE  /\ Ids(tried) \o end = SubSeq(Ids(Ranking), 1, n)
             /\ ~Answering => Len(Ids(tried)) = Len(Ids(Ranking))
  <2>1. /\ walk \in Seq(Models) /\ tried \in Seq(Try)
        /\ Len(walk) + Len(tried) = Len(Ranking)
        /\ \A i \in 1..Len(walk) : walk[i] = Ranking[Len(tried) + i]
        /\ \A i \in 1..Len(tried) : tried[i].id = Ranking[i].id
    BY <1>1, <1>3 DEF WalkInv, PlaceInv
  <2>2. Ranking \in Seq(Models)
    BY RankingTold
  <2>3. /\ Ids(tried) \in Seq(Nat) /\ Len(Ids(tried)) = Len(tried) /\ Len(tried) \in Nat
        /\ \A i \in 1..Len(tried) : Ids(tried)[i] = tried[i].id
        /\ Ids(Ranking) \in Seq(Nat) /\ Len(Ids(Ranking)) = Len(Ranking) /\ Len(Ranking) \in Nat
        /\ \A i \in 1..Len(Ranking) : Ids(Ranking)[i] = Ranking[i].id
    BY <2>1, <2>2, IdsAre
  <2>4. CASE ~Answering
    <3>1. Len(walk) = 0
      BY <1>1, <1>3, <2>4 DEF PlaceInv, Answering, Told
    <3>2. Len(tried) = Len(Ranking) /\ end = <<>> /\ n = Len(tried)
      BY <2>1, <2>3, <2>4, <3>1 DEF One
    <3>. HIDE DEF end, n
    <3>3. Ids(tried) \o end = Ids(tried)
      BY <2>3, <3>2
    <3>4. \A i \in 1..Len(tried) : Ids(tried)[i] = Ids(Ranking)[i]
      BY <2>1, <2>3, <3>2
    <3>5. Ids(tried) = Ids(Ranking)
      BY <2>3, <3>2, <3>4, SeqEqual
    <3>6. SubSeq(Ids(Ranking), 1, Len(Ids(Ranking))) = Ids(Ranking)
      BY <2>3, SubSeqFull
    <3>. QED  BY <2>3, <3>2, <3>3, <3>5, <3>6
  <2>5. CASE Answering
    <3>1. walk # <<>> /\ result.model = Head(walk).id
      BY <1>1, <2>5 DEF PlaceInv, Answering
    <3>2. Head(walk) = walk[1] /\ Len(walk) \in Nat \ {0}
      BY <2>1, <3>1
    <3>3. n = Len(tried) + 1 /\ n \in 1..Len(Ranking) /\ result.model = Ranking[n].id
      BY <2>1, <2>3, <2>5, <3>1, <3>2 DEF One
    <3>4. result.model \in Nat
      <4>1. Head(walk) \in Models
        BY <2>1, <3>2
      <4>. QED  BY <3>1, <4>1 DEF Models
    <3>5. end = <<result.model>>
      BY <2>5
    <3>. HIDE DEF end, n
    <3> DEFINE a == Ids(tried) \o end
               b == SubSeq(Ids(Ranking), 1, n)
    <3>6. /\ a \in Seq(Nat) /\ Len(a) = n
          /\ \A i \in 1..Len(tried) : a[i] = Ids(tried)[i]
          /\ a[n] = result.model
      <4>1. end \in Seq(Nat) /\ Len(end) = 1 /\ end[1] = result.model
        BY <3>4, <3>5
      <4>2. /\ a \in Seq(Nat) /\ Len(a) = Len(Ids(tried)) + Len(end)
            /\ \A i \in 1..Len(a) :
                 a[i] = IF i <= Len(Ids(tried)) THEN Ids(tried)[i] ELSE end[i - Len(Ids(tried))]
        <5>. HIDE DEF a
        <5>1. a = Ids(tried) \o end
          BY DEF a
        <5>2. Ids(tried) \in Seq(Nat) /\ end \in Seq(Nat)
          BY <2>3, <4>1
        <5>. QED  BY <5>1, <5>2, Joins
      <4>. HIDE DEF a
      <4>3. n \in 1..Len(a) /\ ~(n <= Len(tried)) /\ n - Len(tried) = 1 /\ Len(a) = n
        BY <2>3, <3>3, <4>1, <4>2
      <4>4. \A i \in 1..Len(tried) : i \in 1..Len(a) /\ i <= Len(tried)
        BY <2>3, <4>3, <3>3
      <4>. QED  BY <2>3, <4>1, <4>2, <4>3, <4>4
    <3>7. b \in Seq(Nat) /\ Len(b) = n /\ \A i \in 1..n : b[i] = Ids(Ranking)[i]
      BY <2>3, <3>3
    <3>8. ASSUME NEW i \in 1..n PROVE a[i] = b[i]
      <4>. HIDE DEF a, b
      <4>1. CASE i \in 1..Len(tried)
        <5>1. i \in 1..Len(Ranking)
          BY <2>1, <2>3, <3>3
        <5>. QED  BY <2>1, <2>3, <3>6, <3>7, <4>1, <5>1
      <4>2. CASE i = n
        BY <2>3, <3>3, <3>6, <3>7, <4>2
      <4>. QED  BY <2>3, <3>3, <4>1, <4>2
    <3>9. a = b
      <4>. HIDE DEF a, b
      <4>. QED  BY <3>6, <3>7, <3>8, SeqEqual
    <3>. QED  BY <2>5, <3>9
  <2>. QED  BY <2>4, <2>5
<1>. QED  BY <1>2, <1>3 DEF WalkIsComplete, Ranking

(* answer_directly forgets no candidate, skips none and tries none twice:  *)
(* an error ends a run only when the ranking is exhausted.                 *)
THEOREM WalkComplete == Spec => []WalkIsComplete
BY WalkTold, CourseHolds, PTL

LEMMA WholeTold == ConfigInv /\ CourseInv => AnswerIsWhole
<1>. SUFFICES ASSUME ConfigInv, CourseInv, Answering, streams,
                     NEW m \in inventory, m.id = result.model, ~IsCli(m)
     PROVE stop = "stop" /\ result.text = pieces
  BY DEF AnswerIsWhole
<1>1. walk # <<>> /\ result.model = Head(walk).id
  BY DEF CourseInv, PlaceInv, Answering
<1>2. Head(walk) \in inventory
  BY <1>1, HeadIsOurs DEF CourseInv, Answering, Told
<1>3. m = Head(walk)
  BY <1>1, <1>2 DEF ConfigInv, Distinct
<1>4. reply.stop \in Complete /\ reply.text = pieces /\ reply.stop = Canonical(stop)
      /\ result.text = reply.text
  BY <1>3 DEF CourseInv, ReplyInv, Faithful
<1>5. stop = "stop"
  BY <1>4 DEF Canonical, Complete
<1>. QED  BY <1>4, <1>5

LEMMA ReportTold == ConfigInv /\ CourseInv => ReportIsTrue
BY DEF CourseInv, PlaceInv, RecordInv, ReportIsTrue, Final, One, Told

-----------------------------------------------------------------------------
(* What the detector says. *)

(* extract_python takes a block that parses wherever it may be closed. *)
LEMMA ParsesAnywhere ==
  ASSUME NEW text \in BOOLEAN, NEW closes \in {<<>>, <<TRUE>>, <<FALSE>>, <<FALSE, TRUE>>}
  PROVE  /\ Parses(text, closes) \in BOOLEAN
         /\ Parses(text, closes) <=> (IF closes = <<>> THEN text ELSE TRUE \in ToSet(closes))
<1> DEFINE parsing == {i \in DOMAIN closes : closes[i]}
<1>1. CASE closes = <<>>
  BY <1>1 DEF Parses
<1>2. CASE closes = <<TRUE>>
  <2>1. DOMAIN closes = {1} /\ closes[1] = TRUE /\ closes # <<>>
    BY <1>2
  <2>2. parsing = {1}
    BY <2>1
  <2>3. Closing(closes) = 1
    BY <2>2 DEF Closing
  <2>4. TRUE \in ToSet(closes)
    BY <2>1 DEF ToSet
  <2>. QED  BY <2>1, <2>3, <2>4 DEF Parses
<1>3. CASE closes = <<FALSE>>
  <2>1. DOMAIN closes = {1} /\ closes[1] = FALSE /\ closes # <<>>
    BY <1>3
  <2>2. parsing = {}
    BY <2>1
  <2>3. Closing(closes) = 1
    BY <2>2 DEF Closing
  <2>4. TRUE \notin ToSet(closes)
    BY <2>1 DEF ToSet
  <2>. QED  BY <2>1, <2>3, <2>4 DEF Parses
<1>4. CASE closes = <<FALSE, TRUE>>
  <2>1. DOMAIN closes = {1, 2} /\ closes[1] = FALSE /\ closes[2] = TRUE /\ closes # <<>>
    BY <1>4
  <2>2. parsing = {2}
    BY <2>1
  <2>3. Closing(closes) = 2
    BY <2>2 DEF Closing
  <2>4. TRUE \in ToSet(closes)
    BY <2>1 DEF ToSet
  <2>. QED  BY <2>1, <2>3, <2>4 DEF Parses
<1>. QED  BY <1>1, <1>2, <1>3, <1>4

(* What the detector may come to. *)
Grounded(r, p) ==
  LET said == IF Ran(r) THEN Reading(r) ELSE "not shown" IN
  /\ said = "all passed" => p.whole /\ p.wrong = 0 /\ p.total >= MinGroundedChecks
  /\ r.total > 0 => (r.error <=> ~p.whole)
  /\ said = "some failed" => p.wrong > 0

LEMMA NothingSaid ==
  ASSUME NEW p PROVE Grounded(NoChecks, p) /\ Grounded(NotChecked, p)
BY DEF Grounded, NoChecks, NotChecked, CheckReport, Ran, Reading, Inconclusive

LEMMA VerifiedGrounded ==
  ASSUME NEW total \in Nat, NEW wrong \in Nat, wrong <= total, NEW whole \in BOOLEAN
  PROVE  Grounded(Verified(total, wrong, whole), [whole |-> whole, total |-> total, wrong |-> wrong])
<1>1. MinGroundedChecks \in Nat \ {0}
  BY VerificationAssumption
<1>. QED  BY <1>1 DEF Grounded, Verified, ReadReport, CheckReport, Ran, Reading, Inconclusive

ChecksInv == Answering => Grounded(result.checks, program)

LEMMA DerivedGrounded ==
  ASSUME Derived \/ NotDerived
  PROVE  \E checks : Detected(checks) /\ Grounded(checks, program') /\ at = "verifying"
<1>1. CASE NotDerived
  BY <1>1, NothingSaid DEF NotDerived
<1>2. CASE Derived
  <2>1. CASE Detected(NotChecked)
    BY <1>2, <2>1, NothingSaid DEF Derived
  <2>2. CASE ~Detected(NotChecked)
    <3>1. PICK total \in {0, MinGroundedChecks - 1, MinGroundedChecks}, text \in BOOLEAN,
               finishes \in BOOLEAN, closes \in {<<>>, <<TRUE>>, <<FALSE>>, <<FALSE, TRUE>>} :
            \E wrong \in {0, 1} \cap 0..total :
              /\ program' = [whole |-> finishes /\ IF closes = <<>> THEN text ELSE TRUE \in ToSet(closes),
                             total |-> total, wrong |-> wrong]
              /\ Detected(Verified(total, wrong, Parses(text, closes) /\ finishes))
      BY <1>2, <2>2 DEF Derived
    <3>2. PICK wrong \in {0, 1} \cap 0..total :
            /\ program' = [whole |-> finishes /\ IF closes = <<>> THEN text ELSE TRUE \in ToSet(closes),
                           total |-> total, wrong |-> wrong]
            /\ Detected(Verified(total, wrong, Parses(text, closes) /\ finishes))
      BY <3>1
    <3> DEFINE whole == Parses(text, closes) /\ finishes
    <3>3. /\ whole \in BOOLEAN
          /\ whole = (finishes /\ IF closes = <<>> THEN text ELSE TRUE \in ToSet(closes))
      BY ParsesAnywhere
    <3>4. total \in Nat /\ wrong \in Nat /\ wrong <= total
      BY VerificationAssumption
    <3>5. program' = [whole |-> whole, total |-> total, wrong |-> wrong]
      BY <3>2, <3>3
    <3>6. Detected(Verified(total, wrong, whole)) /\ at = "verifying"
      BY <1>2, <3>2 DEF Derived
    <3>. HIDE DEF whole
    <3>. QED  BY <3>3, <3>4, <3>5, <3>6, VerifiedGrounded
  <2>. QED  BY <2>1, <2>2
<1>. QED  BY <1>1, <1>2

LEMMA ChecksKept ==
  ASSUME PlaceInv, ChecksInv, [Next]_vars PROVE ChecksInv'
<1>1. CASE ProbeCalls \/ BuildDone \/ BuildFails \/ Routes \/ Calls \/ HttpStep \/ CliStep
  BY <1>1 DEF ProbeCalls, BuildDone, BuildFails, Routes, Calls, HttpStep, CliStep, ChecksInv, Answering,
              PlaceInv, Walking, Told, endVars
<1>2. CASE ProviderFailed \/ Blank \/ Escaped \/ Incomplete
  BY <1>2 DEF ProviderFailed, Blank, MovesOn, Escaped, Incomplete, ChecksInv, Answering, PlaceInv,
              Walking, Told
<1>3. CASE Answered
  <2>1. CASE verifies
    BY <1>3, <2>1 DEF Answered, ChecksInv, Answering, PlaceInv, Walking, Told
  <2>2. CASE ~verifies
    <3>1. result'.checks = NoChecks
      BY <1>3, <2>2, AnswerTold DEF Answered
    <3>. QED  BY <3>1, NothingSaid DEF ChecksInv
  <2>. QED  BY <2>1, <2>2
<1>4. CASE NotDerived \/ Derived
  <2>1. PICK checks : Detected(checks) /\ Grounded(checks, program')
    BY <1>4, DerivedGrounded
  <2>2. result'.checks = checks
    BY <2>1, AnswerTold DEF Detected
  <2>. QED  BY <2>1, <2>2 DEF ChecksInv
<1>5. CASE Exhausted
  <2>1. result'.status = "failed"
    BY <1>5, BillTold DEF Exhausted
  <2>. QED  BY <2>1 DEF ChecksInv, Answering
<1>6. CASE Records \/ Prints \/ Interrupted
  BY <1>6 DEF Records, Prints, Interrupted, NoResult, ChecksInv, Answering, worldVars
<1>7. CASE ReaderCloses \/ UNCHANGED vars
  BY <1>7 DEF ReaderCloses, vars, endVars, worldVars, ChecksInv, Answering
<1>. QED
  BY <1>1, <1>2, <1>3, <1>4, <1>5, <1>6, <1>7 DEF Next, Progress

LEMMA ChecksTold == ChecksInv => ChecksAreTrue
BY DEF ChecksInv, ChecksAreTrue, Grounded, Summary

-----------------------------------------------------------------------------
(* The money. *)

(* What a meter holds of a model, and what a call may say it used. *)
Tokens == [in : Nat, out : Nat, estimated : BOOLEAN, usd : Nat]
Used == [in : Nat \ {0}, out : Nat, estimated : BOOLEAN, usd : {NoPrice} \cup (Nat \ {0})]

(* Of what is in the meter the part with a price of its own is a part. *)
MeterOK(book) ==
  /\ DOMAIN book.direct \subseteq DOMAIN book.totals
  /\ book.estimated \in BOOLEAN
  /\ \A id \in DOMAIN book.totals :
       LET all == At(book.totals, id)
           named == At(book.direct, id)
       IN  /\ all \in Tokens /\ named \in Tokens
           /\ named.in <= all.in /\ named.out <= all.out
           /\ named.usd > 0 \/ (named.in = 0 /\ named.out = 0)

(* A meter and what the calls cost agree. *)
Costs == [billed : Nat, credit : Nat, estimated : BOOLEAN, models : SUBSET Models]
Settles(book, models, cost) ==
  /\ cost \in Costs
  /\ CostsUsd(book, models).billed = cost.billed
  /\ CostsUsd(book, models).credit = cost.credit
  /\ book.estimated = cost.estimated
  /\ \A m \in cost.models :
       m \in models /\ m.id \in DOMAIN book.totals /\ At(book.totals, m.id).in > 0

Pending == at = "replied" /\ reply.kind = "response"
MoneyInv ==
  /\ MeterOK(meter) /\ pieces \in Nat
  /\ Pending => use \in Used /\ Settles(Add(meter, Head(walk).id, use), inventory, spent)
  /\ ~Pending => Settles(meter, inventory, spent)
  /\ Told => /\ result.billed = spent.billed /\ result.credit = spent.credit
             /\ result.estimated = spent.estimated

(* What is counted is what was called, the probe apart. *)
CallsInv ==
  /\ counted \in Nat /\ preflight \in Nat /\ physical \in Nat
  /\ ~Told /\ at \notin {"exited", "interrupted"} =>
       physical = preflight + counted + (IF at = "verifying" /\ PlannerIsPlan THEN 1 ELSE 0)
  /\ Told => result.calls = physical - preflight

SubscriptionUsed == \E m \in inventory : IsPlan(m) /\ m.id \in DOMAIN meter.totals
PlansInv ==
  /\ at \in Walking => walk # <<>> \/ tried # <<>>
  /\ at \in {"calling", "replied", "verifying"} => (IsPlan(Head(walk)) => counted > 0)
  /\ at \in Walking /\ PlannerIsPlan /\ tried # <<>> => counted > 0
  /\ at \in Walking \cup {"building", "routing"} /\ ~PlannerIsPlan /\ SubscriptionUsed => counted > 0
  /\ Told /\ SubscriptionUsed => result.calls > 0
BillInv == MoneyInv /\ CallsInv /\ PlansInv /\ ChecksInv

LEMMA NoTokensTyped ==
  NoTokens \in Tokens /\ NoTokens.in = 0 /\ NoTokens.out = 0 /\ NoTokens.usd = 0 /\ ~NoTokens.estimated
BY DEF NoTokens, Tokens

(* What a meter holds of anyone. *)
LEMMA MeterTold ==
  ASSUME NEW book, MeterOK(book), NEW id
  PROVE  LET all == At(book.totals, id)
             named == At(book.direct, id)
         IN  /\ all \in Tokens /\ named \in Tokens
             /\ named.in <= all.in /\ named.out <= all.out
             /\ named.usd > 0 \/ (named.in = 0 /\ named.out = 0)
             /\ id \notin DOMAIN book.totals => all = NoTokens /\ named = NoTokens
<1>1. CASE id \in DOMAIN book.totals
  BY <1>1 DEF MeterOK
<1>2. CASE id \notin DOMAIN book.totals
  <2>1. At(book.totals, id) = NoTokens /\ At(book.direct, id) = NoTokens
    BY <1>2 DEF MeterOK, At
  <2>. QED  BY <1>2, <2>1, NoTokensTyped
<1>. QED  BY <1>1, <1>2

LEMMA JoinedAt ==
  ASSUME NEW a, NEW b, NEW id
  PROVE  /\ DOMAIN Joined(a, b) = DOMAIN a \cup DOMAIN b
         /\ At(Joined(a, b), id) =
              IF id \in DOMAIN a \cup DOMAIN b THEN Plus(At(a, id), At(b, id)) ELSE NoTokens
<1> DEFINE J == [i \in DOMAIN a \cup DOMAIN b |-> Plus(At(a, i), At(b, i))]
<1>1. Joined(a, b) = J /\ DOMAIN J = DOMAIN a \cup DOMAIN b
  BY DEF Joined
<1>. QED  BY <1>1 DEF At

(* What Add does to the model it is told of, and to the others. *)
Added(book, id, u, new) ==
  /\ DOMAIN new.totals = DOMAIN book.totals \cup {id}
  /\ DOMAIN new.direct = IF u.usd = NoPrice THEN DOMAIN book.direct ELSE DOMAIN book.direct \cup {id}
  /\ new.estimated = (book.estimated \/ u.estimated)
  /\ \A i : i # id => /\ At(new.totals, i) = At(book.totals, i)
                      /\ At(new.direct, i) = At(book.direct, i)
  /\ At(new.totals, id) \in Tokens /\ At(new.direct, id) \in Tokens
  /\ At(new.totals, id).in = At(book.totals, id).in + u.in
  /\ At(new.totals, id).out = At(book.totals, id).out + u.out
  /\ u.usd = NoPrice => At(new.direct, id) = At(book.direct, id)
  /\ u.usd # NoPrice =>
       /\ At(new.direct, id).in = At(book.direct, id).in + u.in
       /\ At(new.direct, id).out = At(book.direct, id).out + u.out
       /\ At(new.direct, id).usd = At(book.direct, id).usd + u.usd

LEMMA AddAt ==
  ASSUME NEW book, MeterOK(book), NEW id \in Nat, NEW u \in Used
  PROVE  Added(book, id, u, Add(book, id, u))
<1> DEFINE new == Add(book, id, u)
           t == [u EXCEPT !.usd = 0]
           d == [u EXCEPT !.estimated = FALSE]
           ft == [i \in {id} |-> t]
           fd == [i \in {id} |-> d]
<1>1. /\ t \in Tokens /\ t.in = u.in /\ t.out = u.out /\ t.usd = 0 /\ t.estimated = u.estimated
      /\ u.in \in Nat /\ u.out \in Nat /\ u.estimated \in BOOLEAN
      /\ u.usd # NoPrice => u.usd \in Nat \ {0} /\ d \in Tokens
      /\ d.in = u.in /\ d.out = u.out /\ d.usd = u.usd /\ d.estimated = FALSE
  BY DEF Used, Tokens
<1>2. /\ new.totals = Joined(book.totals, ft)
      /\ new.direct = IF u.usd = NoPrice THEN book.direct ELSE Joined(book.direct, fd)
      /\ new.estimated = (book.estimated \/ u.estimated)
  BY DEF Add
<1>. HIDE DEF t, d, new
<1>3. /\ DOMAIN ft = {id} /\ DOMAIN fd = {id} /\ At(ft, id) = t /\ At(fd, id) = d
      /\ \A i : i # id => At(ft, i) = NoTokens /\ At(fd, i) = NoTokens
  BY DEF At
<1>. HIDE DEF ft, fd
<1>4. \A x \in Tokens : Plus(x, NoTokens) = x
  BY DEF Plus, Tokens, NoTokens
<1>5. \A x, y \in Tokens : /\ Plus(x, y) \in Tokens /\ Plus(x, y).in = x.in + y.in
                           /\ Plus(x, y).out = x.out + y.out /\ Plus(x, y).usd = x.usd + y.usd
  BY DEF Plus, Tokens
<1>6. /\ DOMAIN new.totals = DOMAIN book.totals \cup {id}
      /\ DOMAIN new.direct = IF u.usd = NoPrice THEN DOMAIN book.direct ELSE DOMAIN book.direct \cup {id}
  BY <1>2, <1>3, JoinedAt
<1>7. ASSUME NEW i, i # id
      PROVE  At(new.totals, i) = At(book.totals, i) /\ At(new.direct, i) = At(book.direct, i)
  <2>1. At(book.totals, i) \in Tokens /\ At(book.direct, i) \in Tokens
    BY MeterTold
  <2>2. /\ i \notin DOMAIN book.totals => At(book.totals, i) = NoTokens
        /\ i \notin DOMAIN book.direct => At(book.direct, i) = NoTokens
    BY DEF At
  <2>3. At(Joined(book.totals, ft), i) = At(book.totals, i)
    <3>1. At(Joined(book.totals, ft), i) =
            IF i \in DOMAIN book.totals \cup {id} THEN Plus(At(book.totals, i), At(ft, i)) ELSE NoTokens
      BY <1>3, JoinedAt
    <3>2. At(ft, i) = NoTokens
      BY <1>3, <1>7
    <3>3. Plus(At(book.totals, i), NoTokens) = At(book.totals, i)
      BY <1>4, <2>1
    <3>. QED  BY <1>7, <2>2, <3>1, <3>2, <3>3, Zenon
  <2>4. At(Joined(book.direct, fd), i) = At(book.direct, i)
    <3>1. At(Joined(book.direct, fd), i) =
            IF i \in DOMAIN book.direct \cup {id} THEN Plus(At(book.direct, i), At(fd, i)) ELSE NoTokens
      BY <1>3, JoinedAt
    <3>2. At(fd, i) = NoTokens
      BY <1>3, <1>7
    <3>3. Plus(At(book.direct, i), NoTokens) = At(book.direct, i)
      BY <1>4, <2>1
    <3>. QED  BY <1>7, <2>2, <3>1, <3>2, <3>3, Zenon
  <2>. QED  BY <1>2, <2>3, <2>4
<1>8. At(book.totals, id) \in Tokens /\ At(book.direct, id) \in Tokens
  BY MeterTold
<1>9. At(new.totals, id) = Plus(At(book.totals, id), t)
  BY ZenonT(40), <1>2, <1>3, JoinedAt
<1>10. At(new.direct, id) = IF u.usd = NoPrice THEN At(book.direct, id) ELSE Plus(At(book.direct, id), d)
  BY ZenonT(40), <1>2, <1>3, JoinedAt
<1>. QED  BY <1>1, <1>2, <1>5, <1>6, <1>7, <1>8, <1>9, <1>10 DEF Added, new

LEMMA AddKeepsMeter ==
  ASSUME NEW book, MeterOK(book), NEW id \in Nat, NEW u \in Used
  PROVE  MeterOK(Add(book, id, u))
<1> DEFINE new == Add(book, id, u)
<1>. HIDE DEF new
<1>1. Added(book, id, u, new)
  BY AddAt DEF new
<1>2. /\ u.in \in Nat /\ u.out \in Nat /\ u.estimated \in BOOLEAN
      /\ u.usd # NoPrice => u.usd \in Nat \ {0}
  BY DEF Used
<1>3. DOMAIN new.direct \subseteq DOMAIN new.totals /\ new.estimated \in BOOLEAN
  BY <1>1, <1>2 DEF MeterOK, Added
<1>4. ASSUME NEW i \in DOMAIN new.totals
      PROVE  LET all == At(new.totals, i)
                 named == At(new.direct, i)
             IN  /\ all \in Tokens /\ named \in Tokens
                 /\ named.in <= all.in /\ named.out <= all.out
                 /\ named.usd > 0 \/ (named.in = 0 /\ named.out = 0)
  <2>1. LET all == At(book.totals, i)
            named == At(book.direct, i)
        IN  /\ all \in Tokens /\ named \in Tokens
            /\ named.in <= all.in /\ named.out <= all.out
            /\ named.usd > 0 \/ (named.in = 0 /\ named.out = 0)
    BY MeterTold
  <2>2. \A x \in Tokens : x.in \in Nat /\ x.out \in Nat /\ x.usd \in Nat
    BY DEF Tokens
  <2>3. CASE i # id
    BY <1>1, <2>1, <2>3 DEF Added
  <2>4. CASE i = id
    BY <1>1, <1>2, <2>1, <2>2, <2>4 DEF Added
  <2>. QED  BY <2>3, <2>4
<1>. QED  BY <1>3, <1>4 DEF MeterOK, new

LEMMA Product ==
  \A a, b, c \in Nat : (a + b) * c = a * c + b * c /\ a * c \in Nat
OBVIOUS

(* A call is charged what it costs, to its model and to no other. *)
LEMMA AddCharges ==
  ASSUME NEW book, MeterOK(book), NEW id \in Nat, NEW u \in Used, NEW m \in Models
  PROVE  /\ Charged(book, m) \in Nat
         /\ Charged(Add(book, id, u), m) = Charged(book, m) + (IF m.id = id THEN Owed(m, u) ELSE 0)
         /\ Owed(m, u) \in Nat
<1> DEFINE new == Add(book, id, u)
           all == At(book.totals, m.id)
           named == At(book.direct, m.id)
           more == At(new.totals, m.id)
           said == At(new.direct, m.id)
           rest(a, b) == IF a > b THEN a - b ELSE 0
<1>. HIDE DEF new
<1>1. /\ all \in Tokens /\ named \in Tokens /\ named.in <= all.in /\ named.out <= all.out
  BY MeterTold
<1>2. m.costIn \in Nat /\ m.costOut \in Nat
  BY DEF Models
<1>3. u.in \in Nat /\ u.out \in Nat /\ (u.usd # NoPrice => u.usd \in Nat)
  BY DEF Used
<1>4. \A x \in Tokens : x.in \in Nat /\ x.out \in Nat /\ x.usd \in Nat
  BY DEF Tokens
<1>5. MeterOK(new)
  BY AddKeepsMeter DEF new
<1>6. more \in Tokens /\ said \in Tokens /\ said.in <= more.in /\ said.out <= more.out
  BY <1>5, MeterTold
<1>7. /\ Charged(book, m) = (all.in - named.in) * m.costIn + (all.out - named.out) * m.costOut + named.usd
      /\ Charged(new, m) = (more.in - said.in) * m.costIn + (more.out - said.out) * m.costOut + said.usd
  <2>1. /\ Charged(book, m) = rest(all.in, named.in) * m.costIn + rest(all.out, named.out) * m.costOut
                              + named.usd
        /\ Charged(new, m) = rest(more.in, said.in) * m.costIn + rest(more.out, said.out) * m.costOut
                              + said.usd
    BY DEF Charged
  <2>2. \A a, b \in Nat : b <= a => rest(a, b) = a - b
    OBVIOUS
  <2>3. /\ rest(all.in, named.in) = all.in - named.in /\ rest(all.out, named.out) = all.out - named.out
        /\ rest(more.in, said.in) = more.in - said.in /\ rest(more.out, said.out) = more.out - said.out
    <3>. HIDE DEF rest, all, named, more, said
    <3>. QED  BY <1>1, <1>4, <1>6, <2>2
  <2>. HIDE DEF rest, all, named, more, said
  <2>. QED  BY <2>1, <2>3
<1>8. /\ Owed(m, u) = IF u.usd = NoPrice THEN u.in * m.costIn + u.out * m.costOut ELSE u.usd
  BY DEF Owed
<1>9. \A a, b, c \in Nat : (a + b) * c = a * c + b * c /\ a * c \in Nat
  BY Product
<1> DEFINE x == all.in - named.in
           y == all.out - named.out
<1>10. x \in Nat /\ y \in Nat
  <2>. HIDE DEF all, named
  <2>. QED  BY <1>1, <1>4
<1>11. Charged(book, m) = x * m.costIn + y * m.costOut + named.usd /\ named.usd \in Nat
  BY <1>1, <1>4, <1>7
<1>12. Charged(book, m) \in Nat /\ Owed(m, u) \in Nat
  <2>. HIDE DEF x, y, all, named
  <2>. QED  BY <1>2, <1>3, <1>8, <1>9, <1>10, <1>11
<1>13. Added(book, id, u, new)
  BY AddAt DEF new
<1>14. CASE m.id # id
  <2>1. more = all /\ said = named
    BY <1>14, <1>13 DEF Added
  <2>2. Charged(new, m) = Charged(book, m)
    <3>. HIDE DEF all, named, more, said
    <3>. QED  BY <1>7, <2>1
  <2>. QED  BY <1>12, <1>14, <2>2 DEF new
<1>15. CASE m.id = id /\ u.usd = NoPrice
  <2>1. more.in = all.in + u.in /\ more.out = all.out + u.out /\ said = named
    BY <1>15, <1>13 DEF Added
  <2>2. more.in - said.in = x + u.in /\ more.out - said.out = y + u.out
    <3>. HIDE DEF all, named, more, said
    <3>. QED  BY <1>1, <1>3, <1>4, <2>1
  <2>3. Charged(new, m) = (x + u.in) * m.costIn + (y + u.out) * m.costOut + named.usd
    <3>. HIDE DEF all, named, more, said, x, y
    <3>. QED  BY <1>7, <2>1, <2>2
  <2>4. Charged(new, m) = Charged(book, m) + Owed(m, u)
    <3>. HIDE DEF all, named, more, said, x, y
    <3>1. (x + u.in) * m.costIn = x * m.costIn + u.in * m.costIn
          /\ (y + u.out) * m.costOut = y * m.costOut + u.out * m.costOut
      BY <1>2, <1>3, <1>9, <1>10
    <3>2. x * m.costIn \in Nat /\ u.in * m.costIn \in Nat /\ y * m.costOut \in Nat /\ u.out * m.costOut \in Nat
      BY <1>2, <1>3, <1>9, <1>10
    <3>. QED  BY <1>8, <1>11, <1>15, <2>3, <3>1, <3>2
  <2>. QED  BY <1>12, <1>15, <2>4 DEF new
<1>16. CASE m.id = id /\ u.usd # NoPrice
  <2>1. /\ more.in = all.in + u.in /\ more.out = all.out + u.out
        /\ said.in = named.in + u.in /\ said.out = named.out + u.out /\ said.usd = named.usd + u.usd
    BY <1>16, <1>13 DEF Added
  <2>2. more.in - said.in = x /\ more.out - said.out = y
    <3>. HIDE DEF all, named, more, said
    <3>. QED  BY <1>1, <1>3, <1>4, <2>1
  <2>3. Charged(new, m) = x * m.costIn + y * m.costOut + (named.usd + u.usd)
    <3>. HIDE DEF all, named, more, said, x, y
    <3>. QED  BY <1>7, <2>1, <2>2
  <2>4. Charged(new, m) = Charged(book, m) + Owed(m, u)
    <3>. HIDE DEF all, named, more, said, x, y
    <3>1. x * m.costIn \in Nat /\ y * m.costOut \in Nat
      BY <1>2, <1>9, <1>10
    <3>. QED  BY <1>3, <1>8, <1>11, <1>16, <2>3, <3>1
  <2>. QED  BY <1>12, <1>16, <2>4 DEF new
<1>. QED  BY <1>14, <1>15, <1>16

-----------------------------------------------------------------------------
(* The two ledgers. *)

LEMMA EmptyMeter == MeterOK(NewMeter) /\ DOMAIN NewMeter.totals = {}
BY DEF NewMeter, MeterOK

LEMMA MergedSame ==
  ASSUME NEW book, MeterOK(book)
  PROVE  LET new == Merge(NewMeter, book) IN
         /\ MeterOK(new) /\ DOMAIN new.totals = DOMAIN book.totals
         /\ new.estimated = book.estimated
         /\ \A i : At(new.totals, i) = At(book.totals, i) /\ At(new.direct, i) = At(book.direct, i)
<1> DEFINE new == Merge(NewMeter, book)
<1>1. /\ new.totals = Joined(<<>>, book.totals) /\ new.direct = Joined(<<>>, book.direct)
      /\ new.estimated = (FALSE \/ book.estimated)
  BY DEF Merge, NewMeter
<1>. HIDE DEF new
<1>2. book.estimated \in BOOLEAN /\ DOMAIN book.direct \subseteq DOMAIN book.totals
  BY DEF MeterOK
<1>3. DOMAIN <<>> = {} /\ \A i : At(<<>>, i) = NoTokens
  BY DEF At
<1>4. \A x \in Tokens : Plus(NoTokens, x) = x
  BY DEF Plus, Tokens, NoTokens
<1>5. DOMAIN new.totals = DOMAIN book.totals /\ DOMAIN new.direct = DOMAIN book.direct
  <2>1. /\ DOMAIN Joined(<<>>, book.totals) = DOMAIN <<>> \cup DOMAIN book.totals
        /\ DOMAIN Joined(<<>>, book.direct) = DOMAIN <<>> \cup DOMAIN book.direct
    BY JoinedAt
  <2>2. DOMAIN new.totals = DOMAIN <<>> \cup DOMAIN book.totals
        /\ DOMAIN new.direct = DOMAIN <<>> \cup DOMAIN book.direct
    BY <1>1, <2>1, Zenon
  <2>. QED  BY <1>3, <2>2
<1>6. ASSUME NEW i
      PROVE  At(new.totals, i) = At(book.totals, i) /\ At(new.direct, i) = At(book.direct, i)
  <2>1. At(book.totals, i) \in Tokens /\ At(book.direct, i) \in Tokens
    BY MeterTold
  <2>2. /\ At(new.totals, i) = IF i \in DOMAIN <<>> \cup DOMAIN book.totals
                               THEN Plus(At(<<>>, i), At(book.totals, i)) ELSE NoTokens
        /\ At(new.direct, i) = IF i \in DOMAIN <<>> \cup DOMAIN book.direct
                               THEN Plus(At(<<>>, i), At(book.direct, i)) ELSE NoTokens
    <3>1. /\ At(Joined(<<>>, book.totals), i) = IF i \in DOMAIN <<>> \cup DOMAIN book.totals
                               THEN Plus(At(<<>>, i), At(book.totals, i)) ELSE NoTokens
          /\ At(Joined(<<>>, book.direct), i) = IF i \in DOMAIN <<>> \cup DOMAIN book.direct
                               THEN Plus(At(<<>>, i), At(book.direct, i)) ELSE NoTokens
      BY JoinedAt
    <3>. QED  BY <1>1, <3>1, Zenon
  <2>3. /\ At(new.totals, i) = IF i \in DOMAIN book.totals THEN At(book.totals, i) ELSE NoTokens
        /\ At(new.direct, i) = IF i \in DOMAIN book.direct THEN At(book.direct, i) ELSE NoTokens
    BY <1>3, <1>4, <2>1, <2>2
  <2>. QED  BY <2>3 DEF At
<1>7. MeterOK(new)
  BY <1>1, <1>2, <1>5, <1>6 DEF MeterOK
<1>. QED  BY <1>1, <1>2, <1>5, <1>6, <1>7 DEF new

(* What a ledger of the bill adds up: models of no use cost nothing. *)
LEMMA PartCosts ==
  ASSUME NEW S \in SUBSET Models, IsFiniteSet(S), NEW book, MeterOK(book), NEW G \in SUBSET S,
         NEW T, T = {m \in G : m.id \in DOMAIN book.totals}
  PROVE  /\ SumOver(T, [m \in T |-> Charged(book, m)]) = SumOver(G, [m \in S |-> Charged(book, m)])
         /\ SumOver(G, [m \in S |-> Charged(book, m)]) \in Int
<1> DEFINE f == [m \in S |-> Charged(book, m)]
           h == [m \in T |-> Charged(book, m)]
<1>1. \A m \in S : f[m] = Charged(book, m) /\ f[m] \in Int
  <2>1. \A m \in S : Charged(book, m) \in Nat
    <3>. TAKE m \in S
    <3> DEFINE u == [in |-> 1, out |-> 0, estimated |-> FALSE, usd |-> NoPrice]
    <3>1. u \in Used
      BY DEF Used
    <3>. HIDE DEF u
    <3>2. 0 \in Nat /\ m \in Models
      OBVIOUS
    <3>. QED  BY <3>1, <3>2, AddCharges
  <2>. QED  BY <2>1
<1>2. IsFiniteSet(G) /\ IsFiniteSet(T) /\ T \in SUBSET G /\ T \in SUBSET S
  BY FS_Subset
<1>3. \A m \in G \ T : f[m] = 0
  <2>. TAKE m \in G \ T
  <2>1. m.id \notin DOMAIN book.totals
    OBVIOUS
  <2>2. At(book.totals, m.id) = NoTokens /\ At(book.direct, m.id) = NoTokens
    BY <2>1, MeterTold
  <2>3. m.costIn \in Nat /\ m.costOut \in Nat
    BY DEF Models
  <2>4. Charged(book, m) = 0
    BY <2>2, <2>3 DEF Charged, NoTokens
  <2>. QED  BY <1>1, <2>4
<1>4. \A m \in T : h[m] = f[m]
  BY <1>2
<1>. HIDE DEF f, h
<1>5. SumOver(G, f) = SumOver(T, f) /\ SumOver(G, f) \in Int
  <2>1. \A m \in G : f[m] \in Int
    BY <1>1
  <2>. QED  BY <1>2, <1>3, <2>1, SumWithin, SumInt
<1>6. SumOver(T, h) = SumOver(T, f)
  <2>1. \A m \in T : f[m] \in Int
    BY <1>1, <1>2
  <2>. QED  BY <1>2, <1>4, <2>1, SumSame
<1>. QED  BY <1>5, <1>6 DEF f, h

Charges(book, S) == [m \in S |-> Charged(book, m)]
CardsOf(S) == {m \in S : m.billing = "card"}
PlansOf(S) == {m \in S : m.billing # "card"}

LEMMA CostsTold ==
  ASSUME NEW S \in SUBSET Models, IsFiniteSet(S), NEW book, MeterOK(book)
  PROVE  /\ CostsUsd(book, S).billed = SumOver(CardsOf(S), Charges(book, S))
         /\ CostsUsd(book, S).credit = SumOver(PlansOf(S), Charges(book, S))
<1> DEFINE used == {m \in S : m.id \in DOMAIN book.totals}
           cards == {m \in used : m.billing = "card"}
           plans == {m \in used : m.billing # "card"}
<1>1. /\ CostsUsd(book, S).billed = SumOver(cards, [m \in cards |-> Charged(book, m)])
      /\ CostsUsd(book, S).credit = SumOver(plans, [m \in plans |-> Charged(book, m)])
  BY DEF CostsUsd
<1>2. /\ cards = {m \in CardsOf(S) : m.id \in DOMAIN book.totals} /\ CardsOf(S) \in SUBSET S
      /\ plans = {m \in PlansOf(S) : m.id \in DOMAIN book.totals} /\ PlansOf(S) \in SUBSET S
  BY DEF CardsOf, PlansOf
<1>. HIDE DEF cards, plans
<1>3. SumOver(cards, [m \in cards |-> Charged(book, m)]) = SumOver(CardsOf(S), Charges(book, S))
  BY <1>2, PartCosts DEF Charges
<1>4. SumOver(plans, [m \in plans |-> Charged(book, m)]) = SumOver(PlansOf(S), Charges(book, S))
  BY <1>2, PartCosts DEF Charges
<1>. QED  BY <1>1, <1>3, <1>4

LEMMA AddSum ==
  ASSUME NEW S \in SUBSET Models, IsFiniteSet(S), Distinct(S), NEW book, MeterOK(book),
         NEW G \in SUBSET S, NEW p \in S, NEW u \in Used
  PROVE  SumOver(G, Charges(Add(book, p.id, u), S)) =
           SumOver(G, Charges(book, S)) + (IF p \in G THEN Owed(p, u) ELSE 0)
<1> DEFINE f == Charges(book, S)
           h == Charges(Add(book, p.id, u), S)
<1>1. p.id \in Nat
  BY DEF Models
<1>2. \A m \in S : /\ f[m] \in Int /\ h[m] = f[m] + (IF m.id = p.id THEN Owed(m, u) ELSE 0)
                   /\ Owed(m, u) \in Nat
  <2>. TAKE m \in S
  <2>1. /\ Charged(book, m) \in Nat /\ Owed(m, u) \in Nat
        /\ Charged(Add(book, p.id, u), m) =
             Charged(book, m) + (IF m.id = p.id THEN Owed(m, u) ELSE 0)
    BY <1>1, AddCharges
  <2>. QED  BY <2>1 DEF Charges
<1>3. \A m \in S : m.id = p.id <=> m = p
  BY DEF Distinct
<1>4. IsFiniteSet(G)
  BY FS_Subset
<1>. HIDE DEF f, h
<1>5. /\ \A m \in G : f[m] \in Int
      /\ \A m \in G \ {p} : h[m] = f[m]
      /\ h[p] = f[p] + Owed(p, u) /\ f[p] \in Int /\ h[p] \in Int /\ Owed(p, u) \in Int
  <2>1. \A m \in S \ {p} : h[m] = f[m]
    BY <1>2, <1>3
  <2>. QED  BY <1>2, <1>3, <2>1
<1>6. CASE p \in G
  <2>1. SumOver(G, h) = SumOver(G, f) + (h[p] - f[p])
    BY <1>4, <1>5, <1>6, SumChanged
  <2>2. h[p] - f[p] = Owed(p, u)
    BY <1>5
  <2>. QED  BY <1>6, <2>1, <2>2 DEF f, h
<1>7. CASE p \notin G
  <2>1. \A m \in G : h[m] = f[m]
    BY <1>5, <1>7
  <2>2. SumOver(G, h) = SumOver(G, f)
    BY <1>4, <1>5, <2>1, SumSame
  <2>3. SumOver(G, f) \in Int
    BY <1>4, <1>5, SumInt
  <2>. QED  BY <1>7, <2>2, <2>3 DEF f, h
<1>. QED  BY <1>6, <1>7

(* A call that is both metered and paid for keeps them in agreement. *)
LEMMA SpendSettles ==
  ASSUME NEW S \in SUBSET Models, IsFiniteSet(S), Distinct(S), NEW book, MeterOK(book),
         NEW p \in S, NEW u \in Used, NEW cost, Settles(book, S, cost)
  PROVE  Settles(Add(book, p.id, u), S, Paid(cost, p, u))
<1> DEFINE new == Add(book, p.id, u)
           more == Paid(cost, p, u)
<1>. HIDE DEF new, more
<1>1. /\ cost.billed \in Nat /\ cost.credit \in Nat /\ cost.estimated \in BOOLEAN
      /\ cost.models \in SUBSET Models /\ cost \in Costs
  BY DEF Settles, Costs
<1>2. p.id \in Nat /\ p.billing \in {"card"} \cup Subscription /\ p \in Models
  BY DEF Models
<1>3. Owed(p, u) \in Nat /\ u.estimated \in BOOLEAN /\ u.in \in Nat \ {0}
  BY <1>2, AddCharges DEF Used
<1>4. IsPlan(p) <=> p.billing # "card"
  BY <1>2 DEF IsPlan, Subscription
<1>5. /\ more \in Costs
      /\ more.estimated = (cost.estimated \/ u.estimated) /\ more.models = cost.models \cup {p}
      /\ more.billed = cost.billed + (IF IsPlan(p) THEN 0 ELSE Owed(p, u))
      /\ more.credit = cost.credit + (IF IsPlan(p) THEN Owed(p, u) ELSE 0)
  BY <1>1, <1>2, <1>3 DEF Paid, Costs, more
<1>6. MeterOK(new) /\ Added(book, p.id, u, new)
  BY <1>2, AddAt, AddKeepsMeter DEF new
<1>7. /\ CostsUsd(new, S).billed = cost.billed + (IF IsPlan(p) THEN 0 ELSE Owed(p, u))
      /\ CostsUsd(new, S).credit = cost.credit + (IF IsPlan(p) THEN Owed(p, u) ELSE 0)
  <2>1. /\ CardsOf(S) \in SUBSET S /\ PlansOf(S) \in SUBSET S
        /\ p \in CardsOf(S) <=> ~IsPlan(p)
        /\ p \in PlansOf(S) <=> IsPlan(p)
    BY <1>4 DEF CardsOf, PlansOf
  <2>2. /\ CostsUsd(new, S).billed = SumOver(CardsOf(S), Charges(new, S))
        /\ CostsUsd(new, S).credit = SumOver(PlansOf(S), Charges(new, S))
    BY <1>6, CostsTold
  <2>3. /\ cost.billed = SumOver(CardsOf(S), Charges(book, S))
        /\ cost.credit = SumOver(PlansOf(S), Charges(book, S))
    BY CostsTold DEF Settles
  <2>4. SumOver(CardsOf(S), Charges(new, S)) =
          SumOver(CardsOf(S), Charges(book, S))
          + (IF p \in CardsOf(S) THEN Owed(p, u) ELSE 0)
    BY <2>1, AddSum DEF new
  <2>5. SumOver(PlansOf(S), Charges(new, S)) =
          SumOver(PlansOf(S), Charges(book, S))
          + (IF p \in PlansOf(S) THEN Owed(p, u) ELSE 0)
    BY <2>1, AddSum DEF new
  <2>6. (IF p \in CardsOf(S) THEN Owed(p, u) ELSE 0) = (IF IsPlan(p) THEN 0 ELSE Owed(p, u))
    BY <2>1
  <2>7. (IF p \in PlansOf(S) THEN Owed(p, u) ELSE 0) = (IF IsPlan(p) THEN Owed(p, u) ELSE 0)
    BY <2>1
  <2>8. CostsUsd(new, S).billed = cost.billed + (IF p \in CardsOf(S) THEN Owed(p, u) ELSE 0)
    BY <2>2, <2>3, <2>4, Zenon
  <2>9. CostsUsd(new, S).credit = cost.credit + (IF p \in PlansOf(S) THEN Owed(p, u) ELSE 0)
    BY <2>2, <2>3, <2>5, Zenon
  <2>. QED  BY <2>6, <2>7, <2>8, <2>9, Zenon
<1>8. new.estimated = more.estimated
  BY <1>5, <1>6 DEF Added, Settles
<1>9. ASSUME NEW m \in more.models
      PROVE  m \in S /\ m.id \in DOMAIN new.totals /\ At(new.totals, m.id).in > 0
  <2>1. \A x \in Tokens : x.in \in Nat
    BY DEF Tokens
  <2>2. CASE m.id = p.id
    <3>1. m \in S
      BY <1>5, <1>9 DEF Settles
    <3>2. At(new.totals, p.id).in = At(book.totals, p.id).in + u.in /\ p.id \in DOMAIN new.totals
      BY <1>6 DEF Added
    <3>3. At(book.totals, p.id).in \in Nat
      BY <2>1, MeterTold
    <3>4. \A a \in Nat, b \in Nat \ {0} : a + b > 0
      OBVIOUS
    <3>5. At(book.totals, p.id).in + u.in > 0
      BY <1>3, <3>3, <3>4
    <3>6. At(new.totals, p.id).in > 0
      BY <3>2, <3>5
    <3>. QED  BY <2>2, <3>1, <3>2, <3>6
  <2>3. CASE m.id # p.id
    <3>1. m \in cost.models
      BY <1>5, <1>9, <2>3
    <3>2. m \in S /\ m.id \in DOMAIN book.totals /\ At(book.totals, m.id).in > 0
      BY <3>1 DEF Settles
    <3>. QED  BY <1>6, <2>3, <3>2 DEF Added
  <2>. QED  BY <2>2, <2>3
<1>. QED  BY <1>5, <1>7, <1>8, <1>9 DEF Settles, new, more

LEMMA MergedSettles ==
  ASSUME NEW S \in SUBSET Models, IsFiniteSet(S), NEW book, MeterOK(book),
         NEW cost, Settles(book, S, cost)
  PROVE  Settles(Merge(NewMeter, book), S, cost)
<1> DEFINE new == Merge(NewMeter, book)
<1>1. /\ MeterOK(new) /\ DOMAIN new.totals = DOMAIN book.totals
      /\ new.estimated = book.estimated
      /\ \A i : At(new.totals, i) = At(book.totals, i) /\ At(new.direct, i) = At(book.direct, i)
  BY MergedSame
<1>. HIDE DEF new
<1>2. \A m : Charged(new, m) = Charged(book, m)
  BY <1>1 DEF Charged
<1>3. Charges(new, S) = Charges(book, S)
  BY <1>2 DEF Charges
<1>4. /\ CostsUsd(new, S).billed = CostsUsd(book, S).billed
      /\ CostsUsd(new, S).credit = CostsUsd(book, S).credit
  BY <1>1, <1>3, CostsTold
<1>. QED  BY <1>1, <1>4 DEF Settles, new

-----------------------------------------------------------------------------
(* The planner, and what a call may cost. *)

(* Three keys in order. *)
LEMMA LessOfThree ==
  ASSUME NEW a \in Int, NEW b \in Int, NEW c \in Int, NEW d \in Int, NEW e \in Int, NEW f \in Int
  PROVE  Less(<<a, b, c>>, <<d, e, f>>) <=> a < d \/ (a = d /\ (b < e \/ (b = e /\ c < f)))
<1> DEFINE s == <<a, b, c>>
           t == <<d, e, f>>
<1>1. /\ Len(s) = 3 /\ Len(t) = 3
      /\ s[1] = a /\ s[2] = b /\ s[3] = c /\ t[1] = d /\ t[2] = e /\ t[3] = f
  OBVIOUS
<1>. HIDE DEF s, t
<1>2. Lesser(Len(s), Len(t)) = 3
  BY <1>1 DEF Lesser
<1>3. Less(s, t) <=> \E i \in 1..3 : s[i] < t[i] /\ \A j \in 1..(i - 1) : s[j] = t[j]
  BY <1>2 DEF Less
<1>4. ASSUME Less(s, t) PROVE a < d \/ (a = d /\ (b < e \/ (b = e /\ c < f)))
  <2>1. PICK i \in 1..3 : s[i] < t[i] /\ \A j \in 1..(i - 1) : s[j] = t[j]
    BY <1>3, <1>4
  <2>2. CASE i = 1
    BY <1>1, <2>1, <2>2
  <2>3. CASE i = 2
    <3>1. s[1] = t[1]
      BY <2>1, <2>3
    <3>. QED  BY <1>1, <2>1, <2>3, <3>1
  <2>4. CASE i = 3
    <3>1. s[1] = t[1] /\ s[2] = t[2]
      BY <2>1, <2>4
    <3>. QED  BY <1>1, <2>1, <2>4, <3>1
  <2>. QED  BY <2>2, <2>3, <2>4
<1>5. CASE a < d
  BY <1>1, <1>3, <1>5 DEF s, t
<1>6. CASE a = d /\ b < e
  <2>1. s[2] < t[2] /\ \A j \in 1..(2 - 1) : s[j] = t[j]
    BY <1>1, <1>6
  <2>. QED  BY <1>3, <1>6, <2>1 DEF s, t
<1>7. CASE a = d /\ b = e /\ c < f
  <2>1. s[3] < t[3] /\ \A j \in 1..(3 - 1) : s[j] = t[j]
    BY <1>1, <1>7
  <2>. QED  BY <1>3, <1>7, <2>1 DEF s, t
<1>. QED  BY <1>4, <1>5, <1>6, <1>7 DEF s, t

(* Whom a key puts first. *)
LEMMA FirstByKey ==
  ASSUME NEW S, S # {}, NEW key, Sortable(S, key)
  PROVE  \E m \in S : \A n \in S : n # m => Less(key[m], key[n])
<1> DEFINE r == ByKey(S, key)
<1>. HIDE DEF r
<1>1. /\ r \in Seq(S) /\ Len(r) = Cardinality(S)
      /\ \A m \in S : \E i \in 1..Len(r) : r[i] = m
      /\ \A i, j \in 1..Len(r) : i < j => Less(key[r[i]], key[r[j]])
  BY KeysOrder DEF r, Ordered
<1>2. Len(r) \in Nat /\ 1 \in 1..Len(r) /\ r[1] \in S
  BY <1>1
<1>3. ASSUME NEW n \in S, n # r[1] PROVE Less(key[r[1]], key[n])
  <2>1. PICK i \in 1..Len(r) : r[i] = n
    BY <1>1
  <2>2. 1 < i
    BY <1>2, <1>3, <2>1
  <2>. QED  BY <1>1, <1>2, <2>1, <2>2
<1>. QED  BY <1>2, <1>3

(* The planner is one of the user's models, and a card model if there is   *)
(* one.                                                                    *)
LEMMA PlannerIsOurs ==
  ASSUME ConfigInv
  PROVE  /\ Planner \in inventory /\ Planner \in Models /\ PlannerIsPlan \in BOOLEAN
         /\ PlannerIsPlan => \A m \in inventory : IsPlan(m)
<1> DEFINE cards == {m \in inventory : ~IsPlan(m)}
           before(m, n) == \/ m.tier > n.tier
                           \/ m.tier = n.tier /\ m.costOut < n.costOut
                           \/ m.tier = n.tier /\ m.costOut = n.costOut /\ m.id <= n.id
           best == CHOOSE m \in cards : \A n \in cards : before(m, n)
           first == CHOOSE m \in inventory : \A n \in inventory : m.id <= n.id
<1>1. /\ inventory \in SUBSET Models /\ IsFiniteSet(inventory) /\ inventory # {}
      /\ \A m, n \in inventory : m.id = n.id => m = n
  BY InventoryIsFine DEF Distinct
<1>2. \A m \in inventory : m.tier \in Nat /\ m.costOut \in Nat /\ m.id \in Nat
  BY <1>1 DEF Models
<1>3. Planner = IF cards # {} THEN best ELSE first
  BY DEF Planner
<1>. HIDE DEF best, first
<1>4. CASE cards # {}
  <2> DEFINE key == [m \in cards |-> <<-m.tier, m.costOut, m.id>>]
  <2>1. IsFiniteSet(cards) /\ cards \subseteq inventory
    BY <1>1, FS_Subset
  <2>2. \A m, n \in cards : /\ key[m] \in Seq(Int)
                            /\ Less(key[m], key[n]) <=>
                                 \/ -m.tier < -n.tier
                                 \/ /\ -m.tier = -n.tier
                                    /\ m.costOut < n.costOut \/ (m.costOut = n.costOut /\ m.id < n.id)
    <3>. TAKE m, n \in cards
    <3>1. /\ key[m] = <<-m.tier, m.costOut, m.id>> /\ key[n] = <<-n.tier, n.costOut, n.id>>
      OBVIOUS
    <3>2. /\ -m.tier \in Int /\ m.costOut \in Int /\ m.id \in Int
          /\ -n.tier \in Int /\ n.costOut \in Int /\ n.id \in Int
      BY <1>2, <2>1
    <3>3. <<-m.tier, m.costOut, m.id>> \in Seq(Int)
      BY <3>2
    <3>. HIDE DEF key
    <3> DEFINE a == -m.tier
               d == -n.tier
    <3>4. a \in Int /\ d \in Int
      BY <3>2
    <3>. HIDE DEF a, d
    <3>5. Less(<<a, m.costOut, m.id>>, <<d, n.costOut, n.id>>) <=>
             a < d \/ (a = d /\ (m.costOut < n.costOut \/ (m.costOut = n.costOut /\ m.id < n.id)))
      BY SMTT(30), <3>2, <3>4, LessOfThree
    <3>. QED  BY <3>1, <3>3, <3>5 DEF a, d
  <2>. HIDE DEF key
  <2>3. Sortable(cards, key)
    <3>1. ASSUME NEW m \in cards, NEW n \in cards, m # n
          PROVE  Less(key[m], key[n]) \/ Less(key[n], key[m])
      <4>1. m.id # n.id
        BY <1>1, <2>1, <3>1
      <4>2. /\ m.tier \in Nat /\ m.costOut \in Nat /\ m.id \in Nat
            /\ n.tier \in Nat /\ n.costOut \in Nat /\ n.id \in Nat
        BY <1>2, <2>1
      <4>. QED  BY <2>2, <4>1, <4>2
    <3>. QED  BY <2>1, <2>2, <3>1 DEF Sortable
  <2>4. PICK m \in cards : \A n \in cards : n # m => Less(key[m], key[n])
    <3>. HIDE DEF cards
    <3>. QED  BY <1>4, <2>3, FirstByKey
  <2>5. ASSUME NEW n \in cards PROVE before(m, n)
    <3>1. /\ m.tier \in Nat /\ m.costOut \in Nat /\ m.id \in Nat
          /\ n.tier \in Nat /\ n.costOut \in Nat /\ n.id \in Nat
      BY <1>2, <2>1
    <3>2. n # m => \/ -m.tier < -n.tier
                   \/ /\ -m.tier = -n.tier
                      /\ m.costOut < n.costOut \/ (m.costOut = n.costOut /\ m.id < n.id)
      BY <2>2, <2>4
    <3>. QED  BY <3>1, <3>2
  <2>6. Planner \in cards
    <3>1. \E c \in cards : \A n \in cards : before(c, n)
      BY <2>5
    <3> DEFINE leads(c) == \A n \in cards : before(c, n)
    <3>2. best = CHOOSE c \in cards : leads(c)
      BY DEF best
    <3>3. \E c \in cards : leads(c)
      BY <3>1
    <3>. HIDE DEF cards, leads
    <3>. QED  BY <1>3, <1>4, <3>2, <3>3
  <2>. QED  BY <1>1, <2>6 DEF PlannerIsPlan, IsPlan
<1>5. CASE cards = {}
  <2> DEFINE key == [m \in inventory |-> <<0, 0, m.id>>]
  <2>2. \A m, n \in inventory : /\ key[m] \in Seq(Int)
                                /\ Less(key[m], key[n]) <=> m.id < n.id
    <3>. TAKE m, n \in inventory
    <3>1. key[m] = <<0, 0, m.id>> /\ key[n] = <<0, 0, n.id>>
      OBVIOUS
    <3>2. 0 \in Int /\ m.id \in Int /\ n.id \in Int
      BY <1>2
    <3>3. <<0, 0, m.id>> \in Seq(Int)
      BY <3>2
    <3>. HIDE DEF key
    <3>4. Less(<<0, 0, m.id>>, <<0, 0, n.id>>) <=>
             0 < 0 \/ (0 = 0 /\ (0 < 0 \/ (0 = 0 /\ m.id < n.id)))
      BY <3>2, LessOfThree
    <3>. QED  BY <3>1, <3>3, <3>4
  <2>. HIDE DEF key
  <2>3. Sortable(inventory, key)
    <3>1. ASSUME NEW m \in inventory, NEW n \in inventory, m # n
          PROVE  Less(key[m], key[n]) \/ Less(key[n], key[m])
      <4>1. m.id # n.id /\ m.id \in Nat /\ n.id \in Nat
        BY <1>1, <1>2, <3>1
      <4>. QED  BY <2>2, <4>1
    <3>. QED  BY <1>1, <2>2, <3>1 DEF Sortable
  <2>4. PICK m \in inventory : \A n \in inventory : n # m => Less(key[m], key[n])
    BY <1>1, <2>3, FirstByKey
  <2>5. \A n \in inventory : m.id <= n.id
    BY <1>2, <2>2, <2>4
  <2>6. Planner \in inventory
    <3>1. first \in inventory
      BY <2>5 DEF first
    <3>. HIDE DEF cards
    <3>. QED  BY <1>3, <1>5, <3>1
  <2>7. \A n \in inventory : IsPlan(n)
    BY <1>5
  <2>. QED  BY <1>1, <2>6, <2>7 DEF PlannerIsPlan, IsPlan
<1>. QED  BY <1>4, <1>5

LEMMA UsesAreUsed ==
  ASSUME NEW m, NEW text \in Nat, NEW u \in Uses(m, text)
  PROVE  u \in Used
<1>1. PICK e \in BOOLEAN, usd \in {NoPrice} \cup (IF m.transport = "claude" THEN {9} ELSE {}) :
        u = Usage(2, text, e, usd)
  BY DEF Uses
<1>2. usd \in {NoPrice} \cup (Nat \ {0})
  BY <1>1
<1>. QED  BY <1>1, <1>2 DEF Usage, Used

(* A call that is paid for comes with an answer, and its text.             *)
LEMMA RepliesPaid ==
  ASSUME HttpStep \/ CliStep, WireInv, at = "calling", pieces \in Nat
  PROVE  /\ pieces' \in Nat
         /\ at' = "replied" /\ reply'.kind = "response" =>
              /\ reply'.text \in Nat
              /\ \E u \in Uses(Head(walk), reply'.text) : use' = u /\ Spend(Head(walk), u)
         /\ ~(at' = "replied" /\ reply'.kind = "response") => UNCHANGED <<use, spent>>
         /\ meter' = meter /\ walk' = walk /\ inventory' = inventory /\ result' = result
<1>1. /\ meter' = meter /\ walk' = walk /\ inventory' = inventory /\ result' = result
      /\ reply'.kind = "response" => \E u \in Uses(Head(walk), reply'.text) : use' = u /\ Spend(Head(walk), u)
      /\ reply'.kind # "response" => UNCHANGED <<use, spent>>
  BY DEF HttpStep, CliStep, Completes, walkVars, config, endVars
<1>2. MaxPieces \in Nat
  BY HttpAssumption
<1>3. CASE CliStep
  <2>1. at' = "replied" /\ pieces' = pieces
    BY <1>3 DEF CliStep
  <2>2. reply'.kind = "response" => reply'.text \in Nat
    BY <1>2, <1>3 DEF CliStep, Response, Error, Escapes
  <2>. QED  BY <1>1, <2>1, <2>2
<1>4. CASE HttpStep
  <2>1. /\ at' = IF http' = "closed" THEN "replied" ELSE "calling"
        /\ http' # "closed" => reply' = reply
        /\ reply.kind = "none"
    BY <1>4 DEF HttpStep, HttpFails, HttpAnswers, HttpStartsStream, HttpPiece, HttpStopReason,
                HttpEndsStream, Returns, WireInv
  <2>2. pieces' \in Nat
    BY <1>4 DEF HttpStep, HttpFails, HttpAnswers, HttpStartsStream, HttpPiece, HttpStopReason,
                HttpEndsStream
  <2>3. at' = "replied" /\ reply'.kind = "response" => reply'.text \in Nat
    <3>1. CASE HttpStartsStream \/ \E w : HttpStopReason(w)
      BY <2>1, <3>1 DEF HttpStartsStream, HttpStopReason
    <3>2. CASE \E a, b : HttpFails(a, b)
      BY <3>2 DEF HttpFails, Returns, Error
    <3>3. CASE \E a : HttpAnswers(a)
      BY <1>2, <3>3 DEF HttpAnswers, Returns, Response, Escapes
    <3>4. CASE \E a, b, p : HttpPiece(a, b, p)
      BY <2>1, <3>4 DEF HttpPiece, Returns, Error
    <3>5. CASE HttpEndsStream
      BY <3>5 DEF HttpEndsStream, Returns, Response
    <3>. QED  BY <1>4, <3>1, <3>2, <3>3, <3>4, <3>5 DEF HttpStep
  <2>. QED  BY <1>1, <2>1, <2>2, <2>3
<1>. QED  BY <1>3, <1>4

(* Nothing is charged or told: the money stays as it is.                   *)
LEMMA MoneySame ==
  ASSUME MoneyInv, UNCHANGED <<inventory, meter, spent, use, pieces, walk>>,
         Pending' <=> Pending, Told' => Told /\ result' = result
  PROVE  MoneyInv'
BY DEF MoneyInv, Told

LEMMA InitMoney == Init => MoneyInv
<1>. SUFFICES ASSUME Init PROVE MoneyInv
  OBVIOUS
<1>1. /\ meter = NewMeter /\ pieces = 0 /\ reply.kind = "none" /\ at = "building"
      /\ spent = [billed |-> 0, credit |-> 0, estimated |-> FALSE, models |-> {}]
      /\ result.status = "none"
  BY DEF Init, HttpInit, NoReply, NoResult
<1>2. ConfigInv
  BY InitConfig
<1>3. MeterOK(NewMeter) /\ DOMAIN NewMeter.totals = {} /\ NewMeter.estimated = FALSE
  BY EmptyMeter DEF NewMeter
<1>4. CostsUsd(NewMeter, inventory).billed = 0 /\ CostsUsd(NewMeter, inventory).credit = 0
  <2>1. {m \in inventory : m.id \in DOMAIN NewMeter.totals} = {}
    BY <1>3
  <2> DEFINE used == {m \in inventory : m.id \in DOMAIN NewMeter.totals}
             cards == {m \in used : m.billing = "card"}
             plans == {m \in used : m.billing # "card"}
  <2>2. /\ CostsUsd(NewMeter, inventory).billed = SumOver(cards, [m \in cards |-> Charged(NewMeter, m)])
        /\ CostsUsd(NewMeter, inventory).credit = SumOver(plans, [m \in plans |-> Charged(NewMeter, m)])
    BY DEF CostsUsd
  <2>3. cards = {} /\ plans = {}
    BY <2>1
  <2>. HIDE DEF cards, plans
  <2>4. \A f : SumOver({}, f) = 0
    BY SumEmpty
  <2>5. SumOver(cards, [m \in cards |-> Charged(NewMeter, m)]) = 0
    BY <2>3, <2>4, Zenon
  <2>6. SumOver(plans, [m \in plans |-> Charged(NewMeter, m)]) = 0
    BY <2>3, <2>4, Zenon
  <2>. QED  BY <2>2, <2>5, <2>6
<1>5. /\ spent \in Costs /\ spent.billed = 0 /\ spent.credit = 0
      /\ spent.estimated = FALSE /\ spent.models = {}
  BY <1>1 DEF Costs
<1>6. Settles(meter, inventory, spent)
  BY <1>1, <1>3, <1>4, <1>5 DEF Settles
<1>. QED  BY <1>1, <1>3, <1>6 DEF MoneyInv, Pending, Told

(* What a result says of the money is what the meter says.                 *)
LEMMA MoneyTold ==
  ASSUME Settles(meter', inventory, spent'),
         result'.billed = CostsUsd(meter', inventory).billed,
         result'.credit = CostsUsd(meter', inventory).credit, result'.estimated = meter'.estimated
  PROVE  /\ result'.billed = spent'.billed /\ result'.credit = spent'.credit
         /\ result'.estimated = spent'.estimated
BY DEF Settles

LEMMA MoneyKept ==
  ASSUME ConfigInv, CourseInv, MoneyInv, [Next]_vars PROVE MoneyInv'
<1>1. /\ inventory \in SUBSET Models /\ IsFiniteSet(inventory) /\ Distinct(inventory)
      /\ inventory' = inventory
  BY InventoryIsFine, StepConfig DEF config
<1>2. WalkInv /\ PlaceInv /\ WireInv /\ MeterOK(meter) /\ pieces \in Nat
  BY DEF CourseInv, MoneyInv
<1>3. ASSUME NEW p \in inventory, NEW u \in Used, Settles(meter, inventory, spent)
      PROVE  /\ MeterOK(Add(meter, p.id, u))
             /\ Settles(Add(meter, p.id, u), inventory, Paid(spent, p, u))
  <2>1. p.id \in Nat
    BY <1>1 DEF Models
  <2>2. MeterOK(Add(meter, p.id, u))
    BY <1>2, <2>1, AddKeepsMeter
  <2>3. Settles(Add(meter, p.id, u), inventory, Paid(spent, p, u))
    BY <1>1, <1>2, <1>3, SpendSettles
  <2>. QED  BY <2>2, <2>3
<1>4. Planner \in inventory /\ Uses(Planner, 1) \subseteq Used
  BY PlannerIsOurs, UsesAreUsed
<1>5. CASE ProbeCalls
  <2>1. PICK u \in Uses(Planner, 1) : meter' = Add(meter, Planner.id, u) /\ spent' = Paid(spent, Planner, u)
    BY <1>5 DEF ProbeCalls, Spend
  <2>2. /\ ~Pending /\ at' = at /\ at = "building" /\ ~Told /\ result' = result /\ pieces' = pieces
    BY <1>2, <1>5 DEF ProbeCalls, Pending, PlaceInv, Walking, endVars, httpVars
  <2>3. Settles(meter, inventory, spent)
    BY <2>2 DEF MoneyInv
  <2>4. u \in Used
    BY <1>4, <2>1
  <2>5. MeterOK(meter') /\ Settles(meter', inventory, spent')
    BY <1>3, <1>4, <2>1, <2>3, <2>4
  <2>. QED  BY <1>1, <1>2, <2>2, <2>5 DEF MoneyInv, Pending, Told
<1>6. CASE BuildDone
  <2>1. /\ ~Pending /\ ~Pending' /\ ~Told /\ result' = result /\ spent' = spent /\ pieces' = pieces
        /\ meter' = Merge(NewMeter, meter)
    BY <1>2, <1>6 DEF BuildDone, Pending, PlaceInv, Walking, endVars, httpVars
  <2>2. Settles(meter, inventory, spent)
    BY <2>1 DEF MoneyInv
  <2>3. Settles(Merge(NewMeter, meter), inventory, spent)
    BY <1>1, <1>2, <2>2, MergedSettles
  <2>4. MeterOK(Merge(NewMeter, meter))
    BY <1>2, MergedSame
  <2>. QED  BY <1>1, <1>2, <2>1, <2>3, <2>4 DEF MoneyInv, Told
<1>7. CASE BuildFails \/ Routes \/ Calls
  BY <1>2, <1>7 DEF BuildFails, Routes, Calls, HttpOpens, NoReply, Exits, MoneyInv, Pending, PlaceInv,
              Walking, Told, config, costVars, endVars, httpVars
<1>8. CASE HttpStep \/ CliStep
  <2>1. /\ pieces' \in Nat /\ meter' = meter /\ walk' = walk /\ result' = result
        /\ Pending' =>
             /\ reply'.text \in Nat
             /\ \E u \in Uses(Head(walk), reply'.text) : use' = u /\ spent' = Paid(spent, Head(walk), u)
        /\ ~Pending' => UNCHANGED <<use, spent>>
    <3>1. at = "calling"
      BY <1>8 DEF HttpStep, CliStep
    <3>. QED  BY <1>2, <1>8, <3>1, RepliesPaid DEF Pending, Spend
  <2>2. ~Pending /\ ~Told /\ Settles(meter, inventory, spent) /\ Head(walk) \in inventory
    <3>1. at = "calling"
      BY <1>8 DEF HttpStep, CliStep
    <3>2. ~Pending /\ ~Told /\ walk # <<>> /\ at \in Walking
      BY <1>2, <3>1 DEF Pending, PlaceInv, Walking
    <3>. QED  BY <1>2, <3>2, HeadIsOurs DEF MoneyInv
  <2>3. CASE Pending'
    <3>1. PICK u \in Uses(Head(walk), reply'.text) : use' = u /\ spent' = Paid(spent, Head(walk), u)
      BY <2>1, <2>3
    <3>2. use' \in Used
      BY <2>1, <2>3, <3>1, UsesAreUsed
    <3>3. Settles(Add(meter, Head(walk).id, use'), inventory, spent')
      BY <1>3, <2>2, <3>1, <3>2
    <3>. QED  BY <1>1, <1>2, <2>1, <2>2, <2>3, <3>2, <3>3 DEF MoneyInv, Told
  <2>4. CASE ~Pending'
    BY <1>1, <1>2, <2>1, <2>2, <2>4 DEF MoneyInv, Told
  <2>. QED  BY <2>3, <2>4
<1>9. CASE ProviderFailed \/ Escaped
  BY <1>2, <1>9 DEF ProviderFailed, MovesOn, Escaped, Exits, HandlesBrokenPipe, MoneyInv, Pending, PlaceInv, Walking, Told,
              config, costVars, httpVars
<1>10. ASSUME Metered, at = "replied", reply.kind = "response"
       PROVE  /\ MeterOK(meter') /\ Settles(meter', inventory, spent') /\ ~Told
  <2>1. use \in Used /\ Settles(Add(meter, Head(walk).id, use), inventory, spent)
    BY <1>10 DEF MoneyInv, Pending
  <2>2. ~Told /\ walk # <<>> /\ at \in Walking
    BY <1>2, <1>10 DEF PlaceInv, Walking
  <2>3. Head(walk) \in Models
    BY <1>2, <2>2, HeadIsOurs
  <2>4. Head(walk).id \in Nat
    BY <2>3 DEF Models
  <2>5. MeterOK(Add(meter, Head(walk).id, use))
    BY <1>2, <2>1, <2>4, AddKeepsMeter
  <2>. QED  BY <1>10, <2>1, <2>2, <2>5 DEF Metered
<1>11. CASE Incomplete \/ Blank
  <2>1. Metered /\ at = "replied" /\ reply.kind = "response" /\ ~Pending' /\ result' = result /\ pieces' = pieces
    BY <1>11 DEF Incomplete, Blank, MovesOn, Exits, Pending, httpVars
  <2>. QED  BY <1>1, <1>2, <1>10, <2>1 DEF MoneyInv, Told
<1>12. CASE Answered
  <2>1. Metered /\ at = "replied" /\ reply.kind = "response" /\ ~Pending' /\ pieces' = pieces
    BY <1>12 DEF Answered, Pending, httpVars
  <2>2. MeterOK(meter') /\ Settles(meter', inventory, spent') /\ ~Told
    BY <1>10, <2>1
  <2>3. CASE verifies
    <3>1. result' = result
      BY <1>12, <2>3 DEF Answered
    <3>. QED  BY <1>1, <1>2, <2>1, <2>2, <3>1 DEF MoneyInv, Told
  <2>4. CASE ~verifies
    <3>1. /\ result'.billed = CostsUsd(meter', inventory).billed
          /\ result'.credit = CostsUsd(meter', inventory).credit /\ result'.estimated = meter'.estimated
      BY <1>12, <2>4, AnswerTold DEF Answered
    <3>2. /\ result'.billed = spent'.billed /\ result'.credit = spent'.credit
          /\ result'.estimated = spent'.estimated
      BY <2>2, <3>1, MoneyTold
    <3>. QED  BY <1>1, <1>2, <2>1, <2>2, <3>2 DEF MoneyInv
  <2>. QED  BY <2>3, <2>4
<1>13. CASE NotDerived \/ Derived
  <2>1. PICK checks : Detected(checks) /\ at = "verifying"
    BY <1>13 DEF NotDerived, Derived
  <2>2. ~Pending /\ ~Pending' /\ pieces' = pieces
    BY <2>1 DEF Detected, Pending, httpVars
  <2>3. Settles(meter, inventory, spent)
    BY <2>2 DEF MoneyInv
  <2>4. MeterOK(meter') /\ Settles(meter', inventory, spent')
    <3>1. CASE NotDerived
      BY <1>2, <2>3, <3>1 DEF NotDerived
    <3>2. CASE Derived
      <4>1. PICK u \in Uses(Planner, 1) : meter' = Add(meter, Planner.id, u) /\ spent' = Paid(spent, Planner, u)
        BY <3>2 DEF Derived, Spend
      <4>2. u \in Used
        BY <1>4, <4>1
      <4>. QED  BY <1>3, <1>4, <2>3, <4>1, <4>2
    <3>. QED  BY <1>13, <3>1, <3>2
  <2>5. /\ result'.billed = CostsUsd(meter', inventory).billed
        /\ result'.credit = CostsUsd(meter', inventory).credit /\ result'.estimated = meter'.estimated
    BY <2>1, AnswerTold DEF Detected
  <2>6. /\ result'.billed = spent'.billed /\ result'.credit = spent'.credit
        /\ result'.estimated = spent'.estimated
    BY <2>4, <2>5, MoneyTold
  <2>. QED  BY <1>1, <1>2, <2>2, <2>4, <2>6 DEF MoneyInv
<1>14. CASE Exhausted
  <2>1. ~Pending /\ ~Pending' /\ UNCHANGED <<meter, spent, pieces>>
    BY <1>14 DEF Exhausted, Pending, httpVars, costVars
  <2>2. MeterOK(meter') /\ Settles(meter', inventory, spent')
    BY <1>2, <2>1 DEF MoneyInv
  <2>3. /\ result'.billed = CostsUsd(meter', inventory).billed
        /\ result'.credit = CostsUsd(meter', inventory).credit /\ result'.estimated = meter'.estimated
    BY <1>14, <2>1, BillTold DEF Exhausted
  <2>4. /\ result'.billed = spent'.billed /\ result'.credit = spent'.credit
        /\ result'.estimated = spent'.estimated
    BY <2>2, <2>3, MoneyTold
  <2>. QED  BY <1>1, <1>2, <2>1, <2>2, <2>4 DEF MoneyInv
<1>15. CASE Records \/ Prints \/ Interrupted
  <2>1. /\ ~Pending /\ ~Pending' /\ UNCHANGED <<meter, spent, use, pieces, walk>>
        /\ result' \in {result, NoResult}
    BY <1>2, <1>15 DEF Records, Prints, Interrupted, Exits, HandlesBrokenPipe, Pending, PlaceInv, httpVars,
                       costVars, walkVars
  <2>2. Told' => Told /\ result' = result
    BY <2>1 DEF Told, NoResult
  <2>. QED  BY <1>1, <2>1, <2>2, MoneySame
<1>16. CASE ReaderCloses \/ UNCHANGED vars
  <2>1. (Pending' <=> Pending) /\ UNCHANGED <<meter, spent, use, pieces, walk, result>>
    BY <1>16 DEF ReaderCloses, vars, Pending, httpVars, costVars, walkVars, endVars
  <2>. QED  BY <1>1, <2>1, MoneySame DEF Told
<1>. QED
  BY <1>5, <1>6, <1>7, <1>8, <1>9, <1>11, <1>12, <1>13, <1>14, <1>15, <1>16 DEF Next, Progress

-----------------------------------------------------------------------------
(* The calls of the subscriptions. *)

LEMMA InitCalls == Init => CallsInv /\ PlansInv /\ ChecksInv
<1>. SUFFICES ASSUME Init PROVE CallsInv /\ PlansInv /\ ChecksInv
  OBVIOUS
<1>1. /\ at = "building" /\ result.status = "none" /\ meter.totals = <<>>
      /\ preflight = 0 /\ counted = 0 /\ physical = 0
  BY DEF Init, NoResult, NewMeter
<1>2. ~SubscriptionUsed
  BY <1>1 DEF SubscriptionUsed
<1>. QED  BY <1>1, <1>2 DEF CallsInv, PlansInv, ChecksInv, Walking, Told, Answering

LEMMA CallsKept ==
  ASSUME ConfigInv, PlaceInv, CallsInv, [Next]_vars PROVE CallsInv'
<1>1. PlannerIsPlan' = PlannerIsPlan /\ PlannerIsPlan \in BOOLEAN
  BY StepConfig, RankingSame, PlannerIsOurs
<1>2. CASE ProbeCalls \/ BuildDone \/ BuildFails \/ Routes
  BY <1>1, <1>2 DEF ProbeCalls, BuildDone, BuildFails, Routes, Exits, CallsInv, PlaceInv, Walking, Told,
                    walkVars, endVars, worldVars
<1>3. CASE Calls
  BY <1>1, <1>3 DEF Calls, One, CallsInv, PlaceInv, Walking, Told, endVars
<1>4. CASE HttpStep \/ CliStep
  BY <1>1, <1>4 DEF HttpStep, CliStep, CallsInv, PlaceInv, Walking, Told, walkVars, endVars, worldVars
<1>5. CASE ProviderFailed \/ Blank
  BY <1>1, <1>5 DEF ProviderFailed, Blank, MovesOn, CallsInv, PlaceInv, Walking, Told, worldVars
<1>6. CASE Escaped \/ Incomplete
  BY <1>1, <1>6 DEF Escaped, Incomplete, Exits, HandlesBrokenPipe, CallsInv, PlaceInv, Walking, Told, walkVars, worldVars
<1>7. CASE Answered
  <2>1. CASE verifies
    BY <1>1, <1>7, <2>1 DEF Answered, One, CallsInv, PlaceInv, Walking, Told, walkVars
  <2>2. CASE ~verifies
    <3>1. result'.status = "success" /\ result'.calls = counted
      BY <1>7, <2>2, AnswerTold DEF Answered
    <3>. QED  BY <1>1, <1>7, <2>2, <3>1 DEF Answered, CallsInv, PlaceInv, Walking, Told, walkVars
  <2>. QED  BY <2>1, <2>2
<1>8. CASE NotDerived \/ Derived
  <2>1. PICK checks : Detected(checks) /\ at = "verifying"
    BY <1>8 DEF NotDerived, Derived
  <2>2. result'.status = "success" /\ result'.calls = counted + One(PlannerIsPlan)
    BY <2>1, AnswerTold DEF Detected
  <2>. QED  BY <1>1, <2>1, <2>2 DEF Detected, One, CallsInv, PlaceInv, Walking, Told, walkVars
<1>9. CASE Exhausted
  <2>1. result'.status = "failed" /\ result'.calls = counted
    BY <1>9, BillTold DEF Exhausted
  <2>. QED  BY <1>1, <1>9, <2>1 DEF Exhausted, CallsInv, PlaceInv, Walking, Told, walkVars, worldVars
<1>10. CASE Records \/ Prints \/ Interrupted
  BY <1>1, <1>10 DEF Records, Prints, Interrupted, NoResult, Exits, HandlesBrokenPipe, CallsInv, PlaceInv,
                     Told, walkVars, worldVars
<1>11. CASE ReaderCloses \/ UNCHANGED vars
  BY <1>1, <1>11 DEF ReaderCloses, vars, CallsInv, Told, walkVars, endVars, worldVars
<1>. QED
  BY <1>2, <1>3, <1>4, <1>5, <1>6, <1>7, <1>8, <1>9, <1>10, <1>11 DEF Next, Progress

(* Only a call to a subscription puts one in the meter. *)
LEMMA UsedByAdd ==
  ASSUME ConfigInv, MeterOK(meter), NEW p \in inventory, NEW u \in Used,
         meter' = Add(meter, p.id, u), inventory' = inventory, SubscriptionUsed'
  PROVE  SubscriptionUsed \/ IsPlan(p)
<1>1. p.id \in Nat /\ \A m \in inventory : m.id = p.id => m = p
  BY InventoryIsFine DEF Models, Distinct
<1>2. Added(meter, p.id, u, meter')
  BY <1>1, AddAt
<1>3. DOMAIN meter'.totals = DOMAIN meter.totals \cup {p.id}
  BY <1>2 DEF Added
<1>4. PICK m \in inventory : IsPlan(m) /\ m.id \in DOMAIN meter'.totals
  BY DEF SubscriptionUsed, IsPlan
<1>. QED  BY <1>1, <1>3, <1>4 DEF SubscriptionUsed

LEMMA PlansKept ==
  ASSUME ConfigInv, CourseInv, MoneyInv, CallsInv, PlansInv, [Next]_vars PROVE PlansInv'
<1>1. /\ PlannerIsPlan' = PlannerIsPlan /\ PlannerIsPlan \in BOOLEAN /\ inventory' = inventory
      /\ \A m : IsPlan(m)' <=> IsPlan(m)
  BY StepConfig, RankingSame, PlannerIsOurs DEF config, IsPlan
<1>2. PlaceInv /\ WalkInv /\ MeterOK(meter) /\ counted \in Nat
  BY DEF CourseInv, MoneyInv, CallsInv
<1>3. ASSUME meter' = meter PROVE SubscriptionUsed' <=> SubscriptionUsed
  BY <1>1, <1>3 DEF SubscriptionUsed, IsPlan
<1>4. CASE ProbeCalls \/ BuildFails
  BY <1>1, <1>2, <1>3, <1>4 DEF ProbeCalls, BuildFails, Exits, PlansInv, PlaceInv, Walking, Told, walkVars,
       endVars, costVars
<1>5. CASE BuildDone
  <2>1. meter' = Merge(NewMeter, meter)
    BY <1>5 DEF BuildDone
  <2>2. DOMAIN meter'.totals = DOMAIN meter.totals
    BY <1>2, <2>1, MergedSame
  <2>3. SubscriptionUsed' <=> SubscriptionUsed
    BY <1>1, <2>2 DEF SubscriptionUsed, IsPlan
  <2>. QED  BY <1>1, <1>2, <1>5, <2>3 DEF BuildDone, PlansInv, PlaceInv, Walking, Told, walkVars, endVars
<1>6. CASE Routes
  BY <1>1, <1>2, <1>3, <1>6 DEF Routes, Exits, PlansInv, PlaceInv, Walking, Told, costVars
<1>7. CASE Calls
  BY <1>1, <1>2, <1>3, <1>7 DEF Calls, One, PlansInv, PlaceInv, Walking, Told, costVars, endVars
<1>8. CASE HttpStep \/ CliStep
  <2>1. /\ at = "calling" /\ at' \in {"calling", "replied"} /\ meter' = meter
        /\ UNCHANGED <<walk, tried, counted, result>>
    BY <1>8 DEF HttpStep, CliStep, Completes, walkVars, endVars
  <2>. QED  BY <1>1, <1>2, <1>3, <2>1 DEF PlansInv, PlaceInv, Walking, Told
<1>9. ASSUME at = "replied", walk # <<>> PROVE Head(walk) \in inventory
  BY <1>2, <1>9, HeadIsOurs DEF Walking
<1>10. ASSUME Metered, at = "replied", reply.kind = "response", SubscriptionUsed'
       PROVE  SubscriptionUsed \/ IsPlan(Head(walk))
  <2>1. use \in Used /\ meter' = Add(meter, Head(walk).id, use) /\ walk # <<>>
    BY <1>2, <1>10 DEF MoneyInv, Pending, Metered, PlaceInv
  <2>. QED  BY <1>1, <1>2, <1>9, <1>10, <2>1, UsedByAdd
<1>11. ASSUME NEW why, MovesOn(why), at = "replied", counted' = counted,
              SubscriptionUsed' => SubscriptionUsed \/ IsPlan(Head(walk))
       PROVE  PlansInv'
  <2>1. /\ at' = "choosing" /\ result' = result /\ ~Told /\ walk # <<>>
        /\ tried' = Append(tried, [id |-> Head(walk).id, why |-> why])
    BY <1>2, <1>11 DEF MovesOn, PlaceInv, Walking
  <2>2. tried' # <<>>
    <3>1. Len(tried') = Len(tried) + 1 /\ Len(tried) \in Nat
      BY <1>2, <2>1 DEF WalkInv, Walking, Told
    <3>. QED  BY <3>1
  <2>3. PlannerIsPlan => IsPlan(Head(walk))
    BY <1>9, <1>11, <2>1, PlannerIsOurs
  <2>4. IsPlan(Head(walk)) => counted > 0
    BY <1>11 DEF PlansInv
  <2>5. PlannerIsPlan => counted > 0
    BY <2>3, <2>4
  <2>6. ~PlannerIsPlan /\ SubscriptionUsed' => counted > 0
    BY <1>11, <2>4 DEF PlansInv, Walking
  <2>. QED  BY <1>1, <1>11, <2>1, <2>2, <2>5, <2>6 DEF PlansInv, Told, Walking
<1>12. CASE ProviderFailed
  <2>1. /\ at = "replied" /\ meter' = meter /\ counted' = counted /\ \E why : MovesOn(why)
    BY <1>12 DEF ProviderFailed, costVars
  <2>. QED  BY <1>3, <1>11, <2>1
<1>13. CASE Blank
  <2>1. Metered /\ at = "replied" /\ reply.kind = "response" /\ counted' = counted /\ MovesOn("blank")
    BY <1>13 DEF Blank
  <2>. QED  BY <1>10, <1>11, <2>1
<1>14. CASE Escaped \/ Incomplete
  BY <1>1, <1>2, <1>14 DEF Escaped, Incomplete, Exits, HandlesBrokenPipe, PlansInv, PlaceInv, Walking, Told
<1>15. CASE Answered
  <2>1. /\ Metered /\ at = "replied" /\ reply.kind = "response" /\ walk # <<>> /\ ~Told
        /\ UNCHANGED <<walk, tried, counted>>
    BY <1>2, <1>15 DEF Answered, PlaceInv, Walking, walkVars
  <2>2. IsPlan(Head(walk)) => counted > 0
    BY <2>1 DEF PlansInv
  <2>3. PlannerIsPlan => counted > 0
    BY <1>9, <2>1, <2>2, PlannerIsOurs
  <2>4. ~PlannerIsPlan /\ SubscriptionUsed' => counted > 0
    BY <1>10, <2>1, <2>2 DEF PlansInv, Walking
  <2>5. CASE verifies
    BY <1>1, <1>15, <2>1, <2>2, <2>3, <2>4, <2>5 DEF Answered, PlansInv, Told, Walking
  <2>6. CASE ~verifies
    <3>1. result'.calls = counted
      BY <1>15, <2>6, AnswerTold DEF Answered
    <3>. QED  BY <1>1, <1>15, <2>1, <2>3, <2>4, <2>6, <3>1 DEF Answered, PlansInv, Walking
  <2>. QED  BY <2>5, <2>6
<1>16. CASE NotDerived \/ Derived
  <2>1. PICK checks : Detected(checks) /\ at = "verifying"
    BY <1>16 DEF NotDerived, Derived
  <2>2. result'.calls = counted + One(PlannerIsPlan) /\ at' = "returned"
    BY <2>1, AnswerTold DEF Detected
  <2>3. ~PlannerIsPlan /\ SubscriptionUsed' => SubscriptionUsed
    <3>1. CASE NotDerived
      BY <1>3, <3>1 DEF NotDerived
    <3>2. CASE Derived
      <4>1. PICK u \in Uses(Planner, 1) : meter' = Add(meter, Planner.id, u)
        BY <3>2 DEF Derived
      <4>2. u \in Used /\ Planner \in inventory
        BY <4>1, UsesAreUsed, PlannerIsOurs
      <4>3. SubscriptionUsed' => SubscriptionUsed \/ IsPlan(Planner)
        BY <1>1, <1>2, <4>1, <4>2, UsedByAdd
      <4>. QED  BY <4>3 DEF PlannerIsPlan
    <3>. QED  BY <1>16, <3>1, <3>2
  <2>4. SubscriptionUsed' => result'.calls > 0
    <3>1. CASE PlannerIsPlan
      BY <1>2, <2>2, <3>1 DEF One
    <3>2. CASE ~PlannerIsPlan
      <4>1. SubscriptionUsed' => counted > 0
        BY <2>1, <2>3, <3>2 DEF PlansInv, Walking
      <4>. QED  BY <1>2, <2>2, <3>2, <4>1 DEF One
    <3>. QED  BY <3>1, <3>2
  <2>. QED  BY <2>2, <2>4 DEF PlansInv, Walking
<1>17. CASE Exhausted
  <2>1. /\ result'.calls = counted /\ at' = "returned" /\ meter' = meter
        /\ at = "choosing" /\ walk = <<>>
    BY <1>17, BillTold DEF Exhausted, costVars
  <2>2. SubscriptionUsed' => counted > 0
    BY <1>3, <2>1 DEF PlansInv, Walking
  <2>. QED  BY <2>1, <2>2 DEF PlansInv, Walking
<1>18. CASE Records \/ Prints \/ Interrupted
  <2>1. /\ at' \in {"printing", "exited", "interrupted"} /\ meter' = meter
        /\ result' \in {result, NoResult}
    BY <1>18 DEF Records, Prints, Interrupted, Exits, HandlesBrokenPipe, costVars
  <2>. QED  BY <1>3, <2>1 DEF PlansInv, Walking, Told, NoResult
<1>19. CASE ReaderCloses \/ UNCHANGED vars
  BY <1>1, <1>3, <1>19 DEF ReaderCloses, vars, PlansInv, Told, walkVars, costVars, endVars
<1>. QED
  BY <1>4, <1>5, <1>6, <1>7, <1>8, <1>12, <1>13, <1>14, <1>15, <1>16, <1>17, <1>18, <1>19 DEF Next, Progress

LEMMA BillHolds == Spec => [](ConfigInv /\ CourseInv /\ BillInv)
<1>1. Init => ConfigInv /\ CourseInv /\ BillInv
  BY InitConfig, InitCourse, InitMoney, InitCalls DEF BillInv
<1>2. ConfigInv /\ CourseInv /\ BillInv /\ [Next]_vars => (ConfigInv /\ CourseInv /\ BillInv)'
  <2>. SUFFICES ASSUME ConfigInv, CourseInv, BillInv, [Next]_vars
       PROVE  (ConfigInv /\ CourseInv /\ BillInv)'
    OBVIOUS
  <2>1. ConfigInv' /\ CourseInv'
    BY ConfigKept, WalkKept, PlaceKept, WireKept, ReplyKept, RecordKept DEF CourseInv
  <2>2. PlaceInv /\ MoneyInv /\ CallsInv /\ PlansInv /\ ChecksInv
    BY DEF CourseInv, BillInv
  <2>3. MoneyInv' /\ CallsInv' /\ PlansInv' /\ ChecksInv'
    BY <2>2, MoneyKept, CallsKept, PlansKept, ChecksKept
  <2>. QED  BY <2>1, <2>3 DEF BillInv
<1>. QED  BY <1>1, <1>2, PTL DEF Spec

(* A use that is neither charged nor called unpriced is of a free input and *)
(* a blank answer.                                                          *)
LEMMA UseIsCharged ==
  ASSUME MeterOK(meter), inventory \in SUBSET Models, NEW m \in inventory,
         m.id \in DOMAIN meter.totals, At(meter.totals, m.id).in > 0
  PROVE  \/ m \in Unpriced(meter, inventory) \/ Charged(meter, m) > 0
         \/ m.costIn = 0 /\ At(meter.totals, m.id).out = 0
<1> DEFINE all == At(meter.totals, m.id)
           named == At(meter.direct, m.id)
           rest(a, b) == IF a > b THEN a - b ELSE 0
<1>1. /\ all \in Tokens /\ named \in Tokens /\ named.in <= all.in /\ named.out <= all.out
      /\ named.usd > 0 \/ (named.in = 0 /\ named.out = 0)
      /\ all.in > 0
  BY MeterTold
<1>2. Charged(meter, m) = rest(all.in, named.in) * m.costIn + rest(all.out, named.out) * m.costOut + named.usd
  BY DEF Charged
<1>3. /\ all.in \in Nat /\ all.out \in Nat /\ named.in \in Nat /\ named.out \in Nat /\ named.usd \in Nat
      /\ m.costIn \in Nat /\ m.costOut \in Nat
  BY <1>1 DEF Tokens, Models
<1>4. rest(all.in, named.in) \in Nat /\ rest(all.out, named.out) \in Nat
      /\ (named.in = 0 => rest(all.in, named.in) = all.in)
      /\ (named.out = 0 => rest(all.out, named.out) = all.out)
  <2>. HIDE DEF all, named
  <2>. QED  BY <1>3
<1>5. m.costIn = 0 /\ m.costOut = 0 => m \in Unpriced(meter, inventory)
  <2>1. all.in + all.out > 0
    <3>. HIDE DEF all, named
    <3>. QED  BY <1>1, <1>3
  <2>. QED  BY <2>1 DEF Unpriced
<1> DEFINE x == rest(all.in, named.in)
           y == rest(all.out, named.out)
<1>6. Charged(meter, m) = x * m.costIn + y * m.costOut + named.usd /\ x \in Nat /\ y \in Nat
  BY <1>2, <1>4
<1>7. (named.in = 0 => x > 0) /\ (named.out = 0 => y = all.out)
  <2>. HIDE DEF all, named, rest
  <2>. QED  BY <1>1, <1>4
<1>. HIDE DEF all, named, x, y
<1>8. \A a, b \in Nat : a * b \in Nat /\ (a > 0 /\ b > 0 => a * b > 0)
  <2>1. \A a, b \in Nat : a * b \in Nat
    OBVIOUS
  <2>2. ASSUME NEW a \in Nat \ {0}, NEW b \in Nat \ {0} PROVE a * b > 0
    OBVIOUS
  <2>. QED  BY <2>1, <2>2
<1>9. x * m.costIn \in Nat /\ y * m.costOut \in Nat
  BY <1>3, <1>6, <1>8
<1>10. CASE named.usd > 0
  BY <1>3, <1>6, <1>9, <1>10
<1>11. CASE named.in = 0 /\ named.out = 0 /\ m.costIn > 0
  <2>1. x * m.costIn > 0
    BY <1>3, <1>6, <1>7, <1>8, <1>11
  <2>. QED  BY <1>3, <1>6, <1>9, <2>1
<1>12. CASE named.in = 0 /\ named.out = 0 /\ m.costIn = 0 /\ m.costOut > 0 /\ all.out > 0
  <2>1. y * m.costOut > 0
    BY <1>3, <1>6, <1>7, <1>8, <1>12
  <2>. QED  BY <1>3, <1>6, <1>9, <2>1
<1>13. m.costIn = 0 /\ all.out = 0 => m.costIn = 0 /\ At(meter.totals, m.id).out = 0
  BY DEF all
<1>. QED  BY <1>1, <1>3, <1>5, <1>10, <1>11, <1>12, <1>13

LEMMA BillIsTold == ConfigInv /\ CourseInv /\ BillInv => BillIsTrue
<1>. SUFFICES ASSUME ConfigInv, CourseInv, BillInv, Told PROVE BillIsTrue
  BY DEF BillIsTrue, Told
<1>1. /\ Summary.calls = result.calls /\ Summary.billed = result.billed
      /\ Summary.credit = result.credit /\ Summary.estimated = result.estimated
      /\ Summary.unpriced = Unpriced(meter, inventory)
      /\ Summary.subscriptions = Cardinality(SubscriptionModels)
  BY DEF Summary
<1>2. ~Pending
  BY DEF CourseInv, PlaceInv, Pending, Walking
<1>3. MeterOK(meter) /\ Settles(meter, inventory, spent)
  BY <1>2 DEF BillInv, MoneyInv
<1>4. /\ result.calls = physical - preflight
      /\ result.billed = spent.billed /\ result.credit = spent.credit
      /\ result.estimated = spent.estimated
  BY DEF BillInv, MoneyInv, CallsInv
<1>5. ASSUME NEW m \in spent.models
      PROVE  \/ m \in Unpriced(meter, inventory) \/ Charged(meter, m) > 0
             \/ m.costIn = 0 /\ At(meter.totals, m.id).out = 0
  <2>1. m \in inventory /\ m.id \in DOMAIN meter.totals /\ At(meter.totals, m.id).in > 0
    BY <1>3 DEF Settles
  <2>2. inventory \in SUBSET Models
    BY InventoryIsFine
  <2>. QED  BY <1>3, <2>1, <2>2, UseIsCharged
<1>6. Summary.subscriptions > 0 => result.calls > 0
  <2>1. SubscriptionModels # {} => SubscriptionUsed
    BY DEF SubscriptionModels, SubscriptionUsed
  <2>2. SubscriptionModels = {} => Cardinality(SubscriptionModels) = 0
    BY FS_EmptySet
  <2>3. SubscriptionUsed => result.calls > 0
    BY DEF BillInv, PlansInv
  <2>. QED  BY <1>1, <2>1, <2>2, <2>3
<1>. QED  BY <1>1, <1>4, <1>5, <1>6 DEF BillIsTrue

(* The answer is whole, the bill is the sum of the calls, the checks are   *)
(* read as they ran, and a run that has a result is recorded once and told *)
(* by the right status: Ctrl-C may leave it out of the ledger, and a       *)
(* reader that has gone spoils the status, but neither makes up an answer  *)
(* (main, answer_directly, CostMeter, _verify_final).                      *)
THEOREM AnswerTrue == Spec => []AnswerIsTrue
<1>1. ConfigInv /\ CourseInv /\ BillInv => AnswerIsTrue
  BY WholeTold, ReportTold, ChecksTold, BillIsTold DEF AnswerIsTrue, BillInv
<1>. QED  BY <1>1, BillHolds, PTL
=============================================================================
