------------------------------- MODULE Routing -------------------------------
(***************************************************************************)
(* Router of router.py: who is eligible for a task, the score predicted    *)
(* for each, and the order in which they are tried.  A model is a record,  *)
(* with its quality profile (confidence, taskScore, overall, reliability)  *)
(* in hundredths, Unset where nothing was measured; ids are numbers, in    *)
(* the order of the names.  A question is a record type, difficulty,       *)
(* agentic, estimate.  Values, contributions and scores are in             *)
(* ten-thousandths, the digits the code rounds to.                         *)
(***************************************************************************)
EXTENDS Integers, Sequences, SequencesExt, Sums

Unset == -1
Objective == {"quality", "cash_protect_quota", "local", "cheap"}
Subscription == {"plan_included", "plan_credit"}
Difficulty == {"trivial", "easy", "medium", "hard"}

(* What _validate_model asks, or less; a registry holds an id once. *)
Models ==
  [id : Nat, transport : STRING, tier : Nat, strengths : SUBSET STRING, tools : BOOLEAN,
   billing : {"card"} \cup Subscription, costIn : Nat, costOut : Nat,
   context : Nat, maxOut : Nat, local : BOOLEAN,
   confidence : Nat, taskScore : Int, overall : Int, reliability : Int]
Distinct(S) == \A m, n \in S : m.id = n.id => m = n

Required ==
  [code |-> {"coding"}, research |-> {"reasoning"},
   write |-> {"reasoning"}, analyze |-> {"reasoning"}]
Optional ==
  [code |-> {"software_engineering", "debugging", "instruction_following"},
   research |-> {"research", "grounding", "long_context"},
   write |-> {"writing", "creativity", "instruction_following"},
   analyze |-> {"analysis", "math", "long_context"}]
DesiredTier == [trivial |-> 1, easy |-> 2, medium |-> 3, hard |-> 4]
ContextTarget == [trivial |-> 4096, easy |-> 8192, medium |-> 32768, hard |-> 131072]
OutputTarget == [trivial |-> 512, easy |-> 1024, medium |-> 2048, hard |-> 4096]

Lesser(x, y) == IF x <= y THEN x ELSE y
Greater(x, y) == IF x >= y THEN x ELSE y

(* round: to the nearest, a tie to the even neighbour. *)
Rounded(n, d) ==
  LET whole == n \div d
      rest == 2 * (n % d)
  IN  IF rest > d \/ (rest = d /\ whole % 2 = 1) THEN whole + 1 ELSE whole

(* model_input_token_budget: int(x * 0.85). *)
Usable(m) ==
  (85 * Greater(m.context - Lesser(m.maxOut, Greater(1, m.context \div 2)), 1)) \div 100

Truncates(m, q) == Usable(m) < q.estimate

Eligible(S, q) ==
  {m \in S : Required[q.type] \subseteq m.strengths /\ (q.agentic => m.tools)}

Cash(m) == IF m.billing \in Subscription THEN 0 ELSE m.costOut

-----------------------------------------------------------------------------
Weight == [task_fit |-> 45, overall |-> 28, readiness |-> 10,
           headroom |-> 8, output |-> 5, reliability |-> 4]
Component == DOMAIN Weight
Droppable == {"task_fit", "reliability"}

(* A component's value and its contribution are rounded apart; estimates, *)
(* like the targets, are multiples of sixteen.                             *)
Exact(value, w) == [value |-> value, contribution |-> value * w]
Ratio(n, d, w) ==
  IF n >= d THEN Exact(10000, w)
  ELSE [value |-> Rounded(n * 625, d \div 16), contribution |-> Rounded(n * 625 * w, d \div 16)]

(* _profile_blend. *)
Blend(m, measured, prior) ==
  IF measured = Unset THEN prior
  ELSE m.confidence * measured + (100 - m.confidence) * (prior \div 100)

(* _quality_components, with _metadata_task_fit. *)
Components(m, q) ==
  LET tags == Cardinality(m.strengths \cap Optional[q.type]) IN
  [task_fit |-> Exact(Blend(m, m.taskScore, 7000 + 1000 * tags), 45),
   overall |-> Exact(Blend(m, m.overall, 2500 * m.tier), 28),
   readiness |-> Ratio(m.tier * 16, DesiredTier[q.difficulty] * 16, 10),
   headroom |-> Ratio(Usable(m), Greater(q.estimate, ContextTarget[q.difficulty]), 8),
   output |-> Ratio(m.maxOut, OutputTarget[q.difficulty], 5),
   reliability |-> Exact(Blend(m, m.reliability, 7500), 4)]

(* _uninformative_components: the priors all candidates share. *)
Uninformative(S, q) ==
  IF Cardinality(S) < 2 THEN {}
  ELSE {name \in Droppable :
          Cardinality({Components(m, q)[name].value : m \in S}) = 1}

(* _reweight_without: the rounded values, on the weights that are left.    *)
Reweighted(parts, left) ==
  LET weight == SumOver(left, Weight)
  IN  SumOver(left, [name \in left |-> Rounded(parts[name].value * Weight[name] * 100, weight)])

(* Mutant: each candidate drops the priors nobody measured for it. *)
ScoreUneven(m, S, q) ==
  LET dropped == (IF m.taskScore = Unset THEN {"task_fit"} ELSE {})
                   \cup (IF m.reliability = Unset THEN {"reliability"} ELSE {})
      parts == Components(m, q)
  IN  Reweighted(parts, Component \ dropped)

(* _score. *)
Score(m, S, q) ==
  LET dropped == Uninformative(S, q)
      parts == Components(m, q)
  IN  IF dropped = {}
      THEN SumOver(Component, [name \in Component |-> parts[name].contribution])
      ELSE Reweighted(parts, Component \ dropped)

-----------------------------------------------------------------------------
(* Python compares tuples. *)
Less(s, t) ==
  \E i \in 1..Lesser(Len(s), Len(t)) :
    s[i] < t[i] /\ \A j \in 1..(i - 1) : s[j] = t[j]

No(b) == IF b THEN 0 ELSE 1

(* The keys of _objective_ranking.  group is what is ranked, score the     *)
(* score of each model of it.                                              *)
QualityKey(m, score) == <<-score[m], -m.tier, Cash(m), m.id>>
LocalKey(m, score) == <<No(m.local), -score[m], -m.tier, Cash(m), m.id>>
CheapKey(m, score) == <<m.costOut, m.costIn, -score[m], -m.tier, m.id>>

(* The pool that protects the quota: adequate models if there are any, and *)
(* of those the direct ones if there are any and the work is not hard.     *)
Pool(group, q) ==
  LET adequate == {m \in group : m.tier >= DesiredTier[q.difficulty]}
      pool == IF adequate = {} THEN group ELSE adequate
      direct == {m \in pool : m.billing \notin Subscription}
  IN  IF q.difficulty = "hard" \/ direct = {} THEN pool ELSE direct

QuotaKey(m, score, group, q) ==
  IF m \in Pool(group, q) THEN <<0, Cash(m), m.tier, -score[m], m.id>>
  ELSE <<1, IF q.difficulty = "hard" THEN 0 ELSE No(m.billing \notin Subscription), Cash(m),
         Greater(m.tier - DesiredTier[q.difficulty], DesiredTier[q.difficulty] - m.tier),
         -score[m], m.id>>

Key(m, score, group, q, prefer) ==
  IF prefer = "quality" THEN QualityKey(m, score)
  ELSE IF prefer = "local" THEN LocalKey(m, score)
  ELSE IF prefer = "cheap" THEN CheapKey(m, score)
  ELSE QuotaKey(m, score, group, q)

(* A set in the order of its members' keys, which are all different.       *)
ByKey(S, key) ==
  LET keyed == {<<key[m], m>> : m \in S}
  IN  [i \in 1..Cardinality(S) |->
         (CHOOSE k \in keyed : Cardinality({l \in keyed : Less(l[1], k[1])}) = i - 1)[2]]

(* _objective_ranking of a group. *)
ObjectiveRanking(group, score, q, prefer) ==
  ByKey(group, [m \in group |-> Key(m, score, group, q, prefer)])

(* route_ranked: who takes the input whole comes first; when nobody does,  *)
(* who takes most of it.  Empty where the code raises NoEligibleModelError. *)
Ranked(S, q, prefer) ==
  LET candidates == Eligible(S, q)
      score == [m \in candidates |-> Score(m, candidates, q)]
      cut == {m \in candidates : Truncates(m, q)}
      short == ObjectiveRanking(cut, score, q, prefer)
      place == [m \in cut |-> CHOOSE i \in DOMAIN short : short[i] = m]
  IN  IF cut # candidates
      THEN ObjectiveRanking(candidates \ cut, score, q, prefer) \o short
      ELSE ByKey(cut, [m \in cut |-> <<-Usable(m), place[m]>>])
=============================================================================
