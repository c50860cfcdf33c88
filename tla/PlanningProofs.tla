-------------------------- MODULE PlanningProofs ---------------------------
(***************************************************************************)
(* validate_plan decides acyclicity, for plans of any length and with any  *)
(* repetition in their dependency lists.  A task is settled when it was    *)
(* popped; the invariant counts the listings that are not settled, and     *)
(* says that every set of tasks that meets the settled ones has a member   *)
(* with no dependency inside it (the one that was popped first).           *)
(*                                                                         *)
(* Then the walk of a phase component over its candidates, for any number  *)
(* of them, any deadline, grace and allowance: every one of them keeps its *)
(* share of the time, and the phase makes the calls PhaseContract allows.  *)
(***************************************************************************)
EXTENDS PlanGraph, Phases, FiniteSetTheorems, SequenceTheorems, TLAPS

Settled == {t \in Ids : indegree[t] = 0 /\ t \notin ready}
Unsettled(t) == {i \in DOMAIN DependsOn(t) : DependsOn(t)[i] \notin Settled}

DegreesCount ==
  /\ indegree \in [Ids -> Nat]
  /\ \A t \in Ids : indegree[t] = Cardinality(Unsettled(t))
ReadyFree == ready \subseteq Ids /\ \A t \in ready : indegree[t] = 0
PoppedFirst ==
  \A S \in SUBSET Ids : S \cap Settled # {} => \E t \in S : Dependencies[t] \cap S = {}
GraphInv ==
  /\ WellFormed
  /\ DegreesCount
  /\ ReadyFree
  /\ resolved = Cardinality(Settled)
  /\ PoppedFirst

SchemaVerdict == {"none", "empty", "too_many", "duplicate", "unknown"}
IInv ==
  /\ plan \in Plan
  /\ checking \in {"schema", "graph"}
  /\ checking = "schema" => verdict \in SchemaVerdict /\ ready = {} /\ resolved = 0
  /\ checking = "graph" => GraphInv /\ verdict \in {"none", "accepted", "cycle"}
  /\ AcceptedIsSchedulable
  /\ CycleIsReal

-----------------------------------------------------------------------------
(* A sequence holds elements of its set, at finitely many positions. *)
LEMMA PositionsFinite ==
  ASSUME NEW S, NEW s \in Seq(S)
  PROVE  /\ \A i \in DOMAIN s : s[i] \in S
         /\ IsFiniteSet(DOMAIN s) /\ Cardinality(DOMAIN s) = Len(s) /\ Len(s) \in Nat
<1>1. DOMAIN s = 1..Len(s) /\ Len(s) \in Nat /\ \A i \in 1..Len(s) : s[i] \in S
  OBVIOUS
<1>2. 1 \in Int /\ Len(s) \in Int
  BY <1>1
<1>3. IsFiniteSet(1..Len(s)) /\ Cardinality(1..Len(s)) = IF 1 > Len(s) THEN 0 ELSE Len(s) - 1 + 1
  BY <1>2, FS_Interval
<1> QED BY <1>1, <1>3

(* What a plan is made of. *)
LEMMA PlanFacts ==
  ASSUME plan \in Plan
  PROVE  /\ plan \in Seq([id : Name, depends_on : Seq(Name)])
         /\ Ids \subseteq Name
         /\ \A t \in Ids : DependsOn(t) \in Seq(Name)
<1>1. plan \in Seq([id : Name, depends_on : Seq(Name)])
  <2>1. Plan \subseteq Seq([id : Name, depends_on : Seq(Name)])
    BY PlanAssumption
  <2> QED BY <2>1
<1>2. \A i \in DOMAIN plan : plan[i] \in [id : Name, depends_on : Seq(Name)]
  BY <1>1, PositionsFinite
<1>3. \A t \in Ids : DependsOn(t) \in Seq(Name)
  <2> TAKE t \in Ids
  <2>1. \E i \in DOMAIN plan : plan[i].id = t
    BY DEF Ids
  <2> QED BY <2>1, <1>2 DEF DependsOn
<1> QED BY <1>1, <1>2, <1>3 DEF Ids

(* With distinct ids there are as many of them as tasks. *)
LEMMA IdsCounted ==
  ASSUME plan \in Plan, IdsDistinct
  PROVE  IsFiniteSet(Ids) /\ Cardinality(Ids) = Len(plan) /\ Len(plan) \in Nat
<1>1. IsFiniteSet(DOMAIN plan) /\ Cardinality(DOMAIN plan) = Len(plan) /\ Len(plan) \in Nat
  BY PlanFacts, PositionsFinite
<1> DEFINE f == [i \in DOMAIN plan |-> plan[i].id]
<1>3. f \in Bijection(DOMAIN plan, Ids)
  BY DEF Bijection, Injection, Surjection, IsInjective, Ids, IdsDistinct
<1>4. ExistsBijection(DOMAIN plan, Ids)
  BY <1>3 DEF ExistsBijection
<1> QED BY <1>1, <1>4, FS_Bijection

(* What is read off the plan stays as it is while the plan does. *)
LEMMA SamePlan ==
  ASSUME plan' = plan
  PROVE  /\ Ids' = Ids
         /\ \A t : DependsOn(t)' = DependsOn(t)
         /\ Dependencies' = Dependencies
         /\ WellFormed' = WellFormed
<1>1. Ids' = Ids
  BY DEF Ids
<1>2. \A t : DependsOn(t)' = DependsOn(t)
  BY DEF DependsOn
<1>3. Dependencies' = Dependencies
  BY <1>1, <1>2 DEF Dependencies
<1>4. IdsDistinct' = IdsDistinct
  BY DEF IdsDistinct
<1>5. NamesKnown' = NamesKnown
  BY <1>1, <1>3 DEF NamesKnown
<1> QED BY <1>1, <1>2, <1>3, <1>4, <1>5 DEF WellFormed

LEMMA SameGraph ==
  ASSUME UNCHANGED <<plan, indegree, ready, resolved>>
  PROVE  GraphInv' = GraphInv
<1>1. Ids' = Ids /\ Dependencies' = Dependencies /\ WellFormed' = WellFormed
  BY SamePlan
<1>2. Settled' = Settled
  BY <1>1 DEF Settled
<1>3. \A t : Unsettled(t)' = Unsettled(t)
  BY <1>2, SamePlan DEF Unsettled
<1>4. DegreesCount' = DegreesCount
  BY <1>1, <1>3 DEF DegreesCount
<1>5. ReadyFree' = ReadyFree
  BY <1>1 DEF ReadyFree
<1>6. PoppedFirst' = PoppedFirst
  BY <1>1, <1>2 DEF PoppedFirst
<1> QED BY <1>1, <1>2, <1>4, <1>5, <1>6 DEF GraphInv

-----------------------------------------------------------------------------
(* Nothing is settled when the graph check starts. *)
LEMMA GraphStarts ==
  ASSUME IInv, StartGraph
  PROVE  GraphInv'
<1> USE DEF StartGraph
<1>1. plan \in Plan /\ plan' = plan /\ Ids' = Ids /\ resolved = 0 /\ resolved' = 0
  BY SamePlan DEF IInv
<1>2. WellFormed'
  <2>1. plan # <<>> /\ ~(Len(plan) > MaxTasks) /\ IdsDistinct /\ NamesKnown
    BY DEF Refusal
  <2>2. Len(plan) \in Nat
    BY <1>1, PlanFacts, PositionsFinite
  <2>3. Len(plan) <= MaxTasks
    BY <2>1, <2>2, PlanAssumption
  <2> QED BY <2>1, <2>3, SamePlan DEF WellFormed
<1>3. \A t \in Ids : InitialDegree(t) \in Nat
  BY <1>1, PlanFacts, PositionsFinite DEF InitialDegree
<1>4. Settled' = {}
  BY <1>1 DEF Settled
<1>5. \A t \in Ids : Unsettled(t)' = DOMAIN DependsOn(t)
  BY <1>1, <1>4, SamePlan DEF Unsettled
<1>6. DegreesCount'
  <2>1. indegree' \in [Ids -> Nat]
    BY <1>1, <1>3
  <2>2. \A t \in Ids : indegree'[t] = Cardinality(DOMAIN DependsOn(t))
    BY <1>1, PlanFacts, PositionsFinite DEF InitialDegree
  <2> QED BY <1>1, <1>5, <2>1, <2>2 DEF DegreesCount
<1>7. ReadyFree'
  BY <1>1 DEF ReadyFree
<1>8. resolved' = Cardinality(Settled')
  BY <1>1, <1>4, FS_EmptySet
<1>9. PoppedFirst'
  BY <1>4 DEF PoppedFirst
<1> QED BY <1>2, <1>6, <1>7, <1>8, <1>9 DEF GraphInv

(* Popping a task settles it and nothing else. *)
LEMMA ResolveSettles ==
  ASSUME IInv, NEW x \in Name, Resolve(x)
  PROVE  /\ x \in Ids \ Settled
         /\ \A i \in DOMAIN DependsOn(x) : DependsOn(x)[i] \in Settled
         /\ Settled' = Settled \cup {x}
         /\ DegreesCount' /\ ReadyFree'
<1> USE DEF Resolve
<1>1. GraphInv /\ plan \in Plan /\ plan' = plan /\ Ids' = Ids
  BY DEF IInv, Ids
<1>2. x \in Ids /\ indegree[x] = 0 /\ x \notin Settled
  BY <1>1 DEF GraphInv, ReadyFree, Settled
<1>3. \A t \in Ids : IsFiniteSet(Unsettled(t)) /\ IsFiniteSet(Occurrences(x, t))
  BY <1>1, PlanFacts, PositionsFinite, FS_Subset DEF Unsettled, Occurrences
<1>4. \A t \in Ids : Occurrences(x, t) \subseteq Unsettled(t)
  BY <1>2 DEF Unsettled, Occurrences
<1>5. \A t \in Ids : indegree[t] = 0 => Unsettled(t) = {}
  BY <1>1, <1>3, FS_EmptySet DEF GraphInv, DegreesCount
<1>6. \A t \in Ids : Unsettled(t) = {} => Occurrences(x, t) = {}
  BY <1>4
<1>7. \A t \in Ids :
        Lowered(x)[t] = Cardinality(Unsettled(t) \ Occurrences(x, t)) /\ Lowered(x)[t] \in Nat
  <2> TAKE t \in Ids
  <2>1. Unsettled(t) \cap Occurrences(x, t) = Occurrences(x, t)
    BY <1>4
  <2>2. Cardinality(Unsettled(t) \ Occurrences(x, t))
          = Cardinality(Unsettled(t)) - Cardinality(Occurrences(x, t))
    BY <1>3, <2>1, FS_Difference
  <2>3. Cardinality(Unsettled(t) \ Occurrences(x, t)) \in Nat
    BY <1>3, FS_Difference, FS_CardinalityType
  <2> QED BY <1>1, <2>2, <2>3 DEF Lowered, GraphInv, DegreesCount
<1>8. \A t \in Ids : Occurrences(x, t) = {} => Lowered(x)[t] = indegree[t]
  <2> SUFFICES ASSUME NEW t \in Ids, Occurrences(x, t) = {} PROVE Lowered(x)[t] = indegree[t]
    OBVIOUS
  <2>1. Cardinality(Occurrences(x, t)) = 0 /\ indegree[t] \in Nat
    BY <1>1, FS_EmptySet DEF GraphInv, DegreesCount
  <2>2. Lowered(x)[t] = indegree[t] - Cardinality(Occurrences(x, t))
    BY DEF Lowered
  <2> QED BY <2>1, <2>2
<1>9. Settled' = Settled \cup {x}
  <2>1. ASSUME NEW t \in Settled PROVE t \in Settled'
    BY <1>1, <1>5, <1>6, <1>8 DEF Settled, Freed
  <2>2. x \in Settled'
    BY <1>1, <1>2, <1>5, <1>6, <1>8 DEF Settled, Freed
  <2>3. ASSUME NEW t \in Settled', t # x PROVE t \in Settled
    <3>1. t \in Ids /\ Lowered(x)[t] = 0 /\ t \notin ready /\ t \notin Freed(x)
      BY <1>1, <2>3 DEF Settled
    <3>2. Occurrences(x, t) = {}
      BY <3>1 DEF Freed
    <3> QED BY <3>1, <3>2, <1>8 DEF Settled
  <2> QED BY <2>1, <2>2, <2>3
<1>10. \A t \in Ids : Unsettled(t)' = Unsettled(t) \ Occurrences(x, t)
  BY <1>1, <1>9, SamePlan DEF Unsettled, Occurrences
<1>11. DegreesCount'
  BY <1>1, <1>7, <1>10 DEF DegreesCount, Lowered
<1>12. ReadyFree'
  <2>1. ASSUME NEW t \in ready PROVE t \in Ids /\ Lowered(x)[t] = 0
    BY <1>1, <1>5, <1>6, <1>8 DEF GraphInv, ReadyFree
  <2>2. ASSUME NEW t \in Freed(x) PROVE t \in Ids /\ Lowered(x)[t] = 0
    BY DEF Freed
  <2> QED BY <1>1, <2>1, <2>2 DEF ReadyFree
<1>13. \A i \in DOMAIN DependsOn(x) : DependsOn(x)[i] \in Settled
  BY <1>2, <1>5 DEF Unsettled
<1> QED BY <1>2, <1>9, <1>11, <1>12, <1>13

LEMMA GraphAdvances ==
  ASSUME IInv, NEW x \in Name, Resolve(x)
  PROVE  GraphInv'
<1>1. GraphInv /\ plan \in Plan /\ plan' = plan /\ Ids' = Ids /\ Dependencies' = Dependencies
  BY SamePlan DEF IInv, Resolve
<1>2. /\ x \in Ids \ Settled
      /\ \A i \in DOMAIN DependsOn(x) : DependsOn(x)[i] \in Settled
      /\ Settled' = Settled \cup {x}
      /\ DegreesCount' /\ ReadyFree'
  BY ResolveSettles
<1>3. WellFormed'
  BY <1>1, SamePlan DEF GraphInv
<1>4. IsFiniteSet(Settled)
  BY <1>1, IdsCounted, FS_Subset DEF GraphInv, WellFormed, Settled
<1>5. resolved' = Cardinality(Settled')
  BY <1>1, <1>2, <1>4, FS_AddElement DEF Resolve, GraphInv
<1>6. PoppedFirst'
  <2> SUFFICES ASSUME NEW S \in SUBSET Ids, S \cap (Settled \cup {x}) # {}
               PROVE  \E t \in S : Dependencies[t] \cap S = {}
    BY <1>1, <1>2 DEF PoppedFirst
  <2>1. CASE S \cap Settled # {}
    BY <1>1, <2>1 DEF GraphInv, PoppedFirst
  <2>2. CASE S \cap Settled = {}
    <3>1. x \in S
      BY <2>2
    <3>2. Dependencies[x] \subseteq Settled
      BY <1>2 DEF Dependencies
    <3> QED BY <2>2, <3>1, <3>2
  <2> QED BY <2>1, <2>2
<1> QED BY <1>2, <1>3, <1>5, <1>6 DEF GraphInv

(* When nothing is ready, the count tells whether everything is settled. *)
LEMMA CountDecides ==
  ASSUME plan \in Plan, GraphInv, ready = {}
  PROVE  /\ resolved = Len(plan) => Acyclic(Dependencies)
         /\ resolved # Len(plan) => ~Acyclic(Dependencies)
<1>1. IsFiniteSet(Ids) /\ Cardinality(Ids) = Len(plan)
  BY IdsCounted DEF GraphInv, WellFormed
<1>2. Settled \subseteq Ids /\ DOMAIN Dependencies = Ids
  BY DEF Settled, Dependencies
<1>3. ASSUME resolved = Len(plan) PROVE Acyclic(Dependencies)
  <2>1. Settled = Ids
    BY <1>1, <1>2, <1>3, FS_Subset DEF GraphInv
  <2> QED BY <1>2, <2>1 DEF Acyclic, GraphInv, PoppedFirst
<1>4. ASSUME resolved # Len(plan) PROVE ~Acyclic(Dependencies)
  <2> DEFINE Stuck == Ids \ Settled
  <2>1. Stuck # {}
    BY <1>1, <1>2, <1>4 DEF GraphInv
  <2>2. ASSUME NEW t \in Stuck PROVE Dependencies[t] \cap Stuck # {}
    <3>1. t \in Ids /\ indegree[t] # 0
      BY DEF Settled
    <3>2. Unsettled(t) # {}
      BY <3>1, FS_EmptySet DEF GraphInv, DegreesCount
    <3>3. PICK i \in DOMAIN DependsOn(t) : DependsOn(t)[i] \notin Settled
      BY <3>2 DEF Unsettled
    <3>4. DependsOn(t)[i] \in Dependencies[t] /\ DependsOn(t)[i] \in Ids
      BY <3>1 DEF Dependencies, GraphInv, WellFormed, NamesKnown
    <3> QED BY <3>3, <3>4
  <2> QED BY <1>2, <2>1, <2>2 DEF Acyclic
<1> QED BY <1>3, <1>4

-----------------------------------------------------------------------------
LEMMA InitIInv == Init => IInv
BY DEF Init, IInv, SchemaVerdict, AcceptedIsSchedulable, CycleIsReal

LEMMA StepIInv == IInv /\ [Next]_vars => IInv'
<1> SUFFICES ASSUME IInv, [Next]_vars PROVE IInv'
  OBVIOUS
<1>1. CASE CheckSchema
  BY <1>1 DEF IInv, CheckSchema, Reject, Refusal, SchemaVerdict, AcceptedIsSchedulable, CycleIsReal
<1>2. CASE StartGraph
  <2>1. GraphInv'
    BY <1>2, GraphStarts
  <2> QED BY <1>2, <2>1 DEF IInv, StartGraph, AcceptedIsSchedulable, CycleIsReal
<1>3. ASSUME NEW x \in Name, Resolve(x) PROVE IInv'
  <2>1. GraphInv'
    BY <1>3, GraphAdvances
  <2> QED BY <1>3, <2>1 DEF IInv, Resolve, AcceptedIsSchedulable, CycleIsReal
<1>4. CASE Conclude
  <2> USE <1>4 DEF Conclude
  <2>1. GraphInv /\ plan \in Plan /\ ready = {}
    BY DEF IInv
  <2>2. UNCHANGED <<plan, checking, indegree, ready, resolved>>
    OBVIOUS
  <2>3. GraphInv' /\ WellFormed' /\ Dependencies' = Dependencies
    BY <2>1, <2>2, SameGraph, SamePlan DEF GraphInv
  <2>4. /\ verdict' = "accepted" => Acyclic(Dependencies)
        /\ verdict' = "cycle" => ~Acyclic(Dependencies)
    BY <2>1, CountDecides
  <2>5. AcceptedIsSchedulable' /\ CycleIsReal'
    BY <2>3, <2>4 DEF AcceptedIsSchedulable, CycleIsReal, Acyclic
  <2> QED BY <2>1, <2>3, <2>5 DEF IInv
<1>5. CASE UNCHANGED vars
  <2>1. plan' = plan /\ UNCHANGED <<verdict, checking, indegree, ready, resolved>>
    BY <1>5 DEF vars
  <2>2. GraphInv' = GraphInv /\ WellFormed' = WellFormed /\ Dependencies' = Dependencies
    BY <2>1, SameGraph, SamePlan
  <2> QED BY <2>1, <2>2 DEF IInv, AcceptedIsSchedulable, CycleIsReal, Acyclic
<1> QED BY <1>1, <1>2, <1>3, <1>4, <1>5 DEF Next

THEOREM Inductive == Spec => []IInv
<1> QED BY InitIInv, StepIInv, PTL DEF Spec

(* validate_plan accepts no plan that could leave the scheduler of aexecute
   with tasks it can never start, whatever the plan's size and repetitions. *)
THEOREM AcceptedSchedulable == Spec => []AcceptedIsSchedulable
<1>1. IInv => AcceptedIsSchedulable
  BY DEF IInv
<1> QED BY <1>1, Inductive, PTL

(* And it refuses no plan for a cycle it does not have. *)
THEOREM CycleReal == Spec => []CycleIsReal
<1>1. IInv => CycleIsReal
  BY DEF IInv
<1> QED BY <1>1, Inductive, PTL

(* The stack, the counter and the degrees stay in their ranges: no degree is
   lowered below zero by a dependency listed more than once. *)
THEOREM GraphTypes == Spec => []TypeOK
<1>1. IInv => TypeOK
  <2> SUFFICES ASSUME IInv PROVE TypeOK
    OBVIOUS
  <2>1. CASE checking = "schema"
    <3>1. Len(plan) \in Nat
      BY PlanFacts DEF IInv
    <3> QED BY <2>1, <3>1 DEF IInv, TypeOK, SchemaVerdict
  <2>2. CASE checking = "graph"
    <3>1. IsFiniteSet(Ids) /\ Cardinality(Ids) = Len(plan) /\ Len(plan) \in Nat
      BY <2>2, IdsCounted DEF IInv, GraphInv, WellFormed
    <3>2. resolved \in 0..Len(plan)
      <4>1. Settled \in SUBSET Ids
        BY DEF Settled
      <4> QED BY <2>2, <3>1, <4>1, FS_Subset, FS_CardinalityType DEF IInv, GraphInv
    <3> QED BY <2>2, <3>2 DEF IInv, TypeOK, GraphInv, DegreesCount, ReadyFree
  <2> QED BY <2>1, <2>2 DEF IInv
<1> QED BY <1>1, Inductive, PTL

(* The verdict of validate_plan is exact on every plan. *)
THEOREM VerdictExact == Spec => []VerdictIsExact
BY AcceptedSchedulable, CycleReal, PTL DEF VerdictIsExact

-----------------------------------------------------------------------------
(***************************************************************************)
(* The phases around the plan.  What is left of the deadline, late calls   *)
(* put back, is an equal share for every candidate to come: that is the    *)
(* invariant TimeIsShared needs.  Products and quotients of the shares are *)
(* met in two lemmas of arithmetic and hidden behind names elsewhere.      *)
(***************************************************************************)
Errors == PlanReply \cup TextReply \cup Faults \cup
            {"provider_timeout", "context_unavailable", "quota_exhausted"}
Asking == {"ask", "waiting", "settling"}
Answers == PlanReply \cup TextReply

(* The candidates left, the current one included. *)
Remaining == Width - cand + 1

PhaseTypes ==
  /\ kind \in {"planning", "synthesis"}
  /\ assembles \in BOOLEAN
  /\ step \in {"choose", "over"} \cup Asking
  /\ cand \in 1..Width
  /\ {began, limit, now, late} \subseteq Nat
  /\ replies \in Seq(Answers)
  /\ spent \in 0..Cap
  /\ outcome \in [status : {"open", "success", "failed"}, why : Errors, answer : Nat]

(* The time left and the time lost to late calls make up the shares of the *)
(* candidates to come.                                                     *)
SharesLeft(r) == (Deadline - now) + late >= r * (Deadline \div Width)

TimeInv ==
  /\ now <= Deadline + Grace
  /\ step = "choose" => SharesLeft(Remaining)
  /\ step \in Asking =>
       /\ limit <= Deadline /\ SharesLeft(Remaining - 1)
  /\ step \in {"ask", "waiting"} =>
       /\ now <= limit
       /\ (Deadline - limit) + late >= (Remaining - 1) * (Deadline \div Width)
       /\ limit - began >= (Deadline \div Width) - late

(* Rejected or broken, until an answer ends the phase. *)
RepliesInv ==
  /\ step = "over" <=> outcome.status # "open"
  /\ step # "over" => outcome = Open
  /\ step = "choose" => replies = <<>>
  /\ step \in Asking =>
       IF kind = "planning"
       THEN /\ Len(replies) < MaxPlanAttempts
            /\ \A i \in DOMAIN replies : replies[i] \in {"malformed", "cut"}
       ELSE replies \in {<<>>, <<"broken">>}

PhaseInv == PhaseTypes /\ TimeInv /\ RepliesInv /\ FirstRejectionReported /\ BestAnswerTaken

-----------------------------------------------------------------------------
LEMMA Quotient ==
  ASSUME NEW a \in Nat, NEW b \in Nat \ {0}
  PROVE  LET d == a \div b IN d \in Nat /\ b * d <= a /\ a < b * (d + 1)
BY SMT

(* Whoever takes an equal part of what is left, late calls apart, has at   *)
(* least an equal part of the whole and leaves the others theirs.          *)
LEMMA EqualShares ==
  ASSUME NEW r \in Nat \ {0}, NEW s \in Nat, NEW q \in Nat, NEW lost \in Nat,
         NEW rest \in Int, r * s <= rest, rest < r * (s + 1), rest + lost >= r * q
  PROVE  /\ s >= q - lost
         /\ (rest - s) + lost >= (r - 1) * q
BY SMT

LEMMA TwoReplies == ASSUME NEW S, NEW a \in S, NEW b \in S PROVE Append(<<a>>, b) = <<a, b>>
<1>1. <<a>> \in Seq(S) /\ <<a, b>> \in Seq(S)
  OBVIOUS
<1>2. Append(<<a>>, b) \in Seq(S)
  BY <1>1
<1>3. Len(Append(<<a>>, b)) = 2 /\ Len(<<a, b>>) = 2
  BY <1>1
<1>4. Append(<<a>>, b)[1] = a /\ Append(<<a>>, b)[2] = b
  BY <1>1, Len(<<a>>) = 1, <<a>>[1] = a
<1> DEFINE s == Append(<<a>>, b)
           t == <<a, b>>
<1>5. t[1] = a /\ t[2] = b
  OBVIOUS
<1>6. s \in Seq(S) /\ t \in Seq(S) /\ Len(s) = 2 /\ Len(t) = 2 /\ s[1] = a /\ s[2] = b
  BY <1>1, <1>2, <1>3, <1>4
<1> HIDE DEF s, t
<1>7. s = t
  BY <1>5, <1>6, SeqEqual
<1> QED BY <1>7 DEF s, t

LEMMA Numbers ==
  /\ Width \in Nat \ {0}
  /\ Deadline \in Nat \ {0} /\ MaxPlanAttempts \in Nat \ {0} /\ Cap \in Nat /\ Grace \in Nat
  /\ (Deadline \div Width) \in Nat /\ Width * (Deadline \div Width) <= Deadline
<1>1. Width \in Nat \ {0}
  BY CandidatesAssumption, EmptySeq, LenProperties DEF Width, PhaseModels
<1> QED BY <1>1, NumbersAssumption, Quotient

LEMMA PhaseInitHolds == PhaseInit => PhaseInv
<1> SUFFICES ASSUME PhaseInit PROVE PhaseInv
  OBVIOUS
<1>0. Open \in [status : {"open", "success", "failed"}, why : Errors, answer : Nat]
  BY DEF Open, Errors, Faults
<1>a. assembles \in BOOLEAN
  BY DEF PhaseInit
<1>b. replies \in Seq(Answers)
  BY EmptySeq DEF PhaseInit
<1>c. cand \in 1..Width /\ {began, limit, now, late} \subseteq Nat
  BY Numbers DEF PhaseInit
<1>1. PhaseTypes
  BY <1>0, <1>a, <1>b, <1>c DEF PhaseInit, PhaseTypes
<1>2. TimeInv
  BY Numbers DEF PhaseInit, TimeInv, SharesLeft, Remaining, Asking
<1>3. RepliesInv /\ FirstRejectionReported /\ BestAnswerTaken
  BY DEF PhaseInit, RepliesInv, FirstRejectionReported, BestAnswerTaken, Open, Asking
<1> QED BY <1>1, <1>2, <1>3 DEF PhaseInv

-----------------------------------------------------------------------------
(* A candidate that fails hands the time left to the next one; the last     *)
(* one's error, or one the phase does not move on from, is what it reports. *)
LEMMA FailsHolds ==
  ASSUME PhaseInv, step # "over",
         NEW error \in Errors, NEW heard \in Seq(Answers), Fails(error, heard),
         UNCHANGED <<Clocks, spent>>, Fixed,
         SharesLeft(Remaining - 1),
         kind = "planning" /\ error \in {"malformed", "cut"} => error = heard[1]
  PROVE  PhaseInv'
<1> USE DEF Clocks, Fixed
<1>0. outcome = Open /\ now <= Deadline + Grace
  BY DEF PhaseInv, RepliesInv, TimeInv
<1>1. CASE Reason(error) = "none" \/ cand = Width
  <2>1. /\ outcome' = [status |-> "failed", why |-> error, answer |-> 0]
        /\ step' = "over" /\ replies' = heard /\ UNCHANGED <<cand, trace>>
    BY <1>1 DEF Fails
  <2>2. outcome' \in [status : {"open", "success", "failed"}, why : Errors, answer : Nat]
    BY <2>1
  <2>3. PhaseTypes'
    BY <2>1, <2>2 DEF PhaseInv, PhaseTypes
  <2>4. TimeInv'
    BY <2>1, <1>0 DEF TimeInv, Asking
  <2>5. RepliesInv'
    BY <2>1 DEF RepliesInv, Asking
  <2>6. FirstRejectionReported' /\ BestAnswerTaken'
    BY <2>1 DEF FirstRejectionReported, BestAnswerTaken
  <2> QED BY <2>3, <2>4, <2>5, <2>6 DEF PhaseInv
<1>2. CASE ~(Reason(error) = "none" \/ cand = Width)
  <2>1. /\ cand' = cand + 1 /\ step' = "choose" /\ replies' = <<>> /\ UNCHANGED outcome
    BY <1>2 DEF Fails
  <2>2. cand' \in 1..Width /\ Remaining' = Remaining - 1
    <3>1. cand \in 1..Width /\ Width \in Nat
      BY Numbers DEF PhaseInv, PhaseTypes
    <3> QED BY <2>1, <1>2, <3>1 DEF Remaining
  <2>3. replies' \in Seq(Answers)
    BY <2>1, EmptySeq
  <2>4. PhaseTypes'
    BY <2>1, <2>2, <2>3 DEF PhaseInv, PhaseTypes
  <2>5. TimeInv'
    BY <2>1, <2>2, <1>0 DEF TimeInv, SharesLeft, Asking
  <2>6. RepliesInv'
    BY <2>1, <1>0 DEF RepliesInv, Asking, Open
  <2>7. FirstRejectionReported' /\ BestAnswerTaken'
    BY <2>1, <1>0 DEF FirstRejectionReported, BestAnswerTaken, Open
  <2> QED BY <2>4, <2>5, <2>6, <2>7 DEF PhaseInv
<1> QED BY <1>1, <1>2

(* An answer that ends the phase is a good one, or the first of two broken. *)
LEMMA SucceedsHolds ==
  ASSUME PhaseInv, step # "over",
         NEW answer \in Nat, NEW heard \in Seq(Answers), Succeeds(answer, heard),
         UNCHANGED <<Clocks, spent>>, Fixed,
         answer = 0 \/ heard[answer] = "good"
           \/ (answer = 1 /\ heard = <<"broken", "broken">> /\ kind = "synthesis")
  PROVE  PhaseInv'
<1> USE DEF Clocks, Fixed
<1>1. /\ outcome' = [status |-> "success", why |-> "none", answer |-> answer]
      /\ step' = "over" /\ replies' = heard /\ UNCHANGED <<cand, trace>>
  BY DEF Succeeds
<1>2. outcome' \in [status : {"open", "success", "failed"}, why : Errors, answer : Nat]
  BY <1>1 DEF Errors, Faults
<1>3. PhaseTypes'
  BY <1>1, <1>2 DEF PhaseInv, PhaseTypes
<1>4. TimeInv'
  BY <1>1 DEF PhaseInv, TimeInv, Asking
<1>5. RepliesInv'
  BY <1>1 DEF RepliesInv, Asking
<1>6. FirstRejectionReported' /\ BestAnswerTaken'
  <2>1. (<<"broken", "broken">>)[1] = "broken"
    OBVIOUS
  <2> QED BY <1>1, <2>1 DEF FirstRejectionReported, BestAnswerTaken
<1> QED BY <1>3, <1>4, <1>5, <1>6 DEF PhaseInv

(* A correction or a repair is asked for within the same share of time.     *)
LEMMA AsksAgainHolds ==
  ASSUME PhaseInv, step = "waiting",
         NEW heard \in Seq(Answers), AsksAgain(heard),
         UNCHANGED <<Clocks, spent>>, Fixed,
         IF kind = "planning"
         THEN /\ Len(heard) < MaxPlanAttempts
              /\ \A i \in DOMAIN heard : heard[i] \in {"malformed", "cut"}
         ELSE heard \in {<<>>, <<"broken">>}
  PROVE  PhaseInv'
<1> USE DEF Clocks, Fixed
<1>1. step' = "ask" /\ replies' = heard /\ UNCHANGED <<cand, trace, outcome>>
  BY DEF AsksAgain
<1>2. PhaseTypes'
  BY <1>1 DEF PhaseInv, PhaseTypes, Asking
<1>3. TimeInv'
  BY <1>1 DEF PhaseInv, TimeInv, SharesLeft, Remaining, Asking
<1>4. RepliesInv'
  BY <1>1 DEF PhaseInv, RepliesInv, Asking
<1>5. FirstRejectionReported' /\ BestAnswerTaken'
  BY <1>1 DEF PhaseInv, RepliesInv, FirstRejectionReported, BestAnswerTaken, Open
<1> QED BY <1>2, <1>3, <1>4, <1>5 DEF PhaseInv

(* The clock, the gate and the cancellation leave what was heard alone.     *)
LEMMA WaitingHolds ==
  ASSUME PhaseInv, UNCHANGED <<cand, replies, outcome>>, Fixed,
         step \in {"choose"} \cup Asking, step' \in Asking,
         {began, limit, now, late}' \subseteq Nat, spent' \in 0..Cap, TimeInv'
  PROVE  PhaseInv'
<1> USE DEF Fixed
<1>1. PhaseTypes'
  BY DEF PhaseInv, PhaseTypes
<1>2. RepliesInv'
  <2>1. kind \in {"planning", "synthesis"} /\ Len(<<>>) < MaxPlanAttempts /\ DOMAIN <<>> = {}
    BY Numbers DEF PhaseInv, PhaseTypes
  <2> QED BY <2>1 DEF PhaseInv, RepliesInv, Asking
<1>3. FirstRejectionReported' /\ BestAnswerTaken'
  BY DEF PhaseInv, FirstRejectionReported, BestAnswerTaken
<1> QED BY <1>1, <1>2, <1>3 DEF PhaseInv

LEMMA ChooseHolds == PhaseInv /\ Choose => PhaseInv'
<1> SUFFICES ASSUME PhaseInv, Choose PROVE PhaseInv'
  OBVIOUS
<1> DEFINE q == Deadline \div Width
<1>1. /\ step = "choose" /\ now < Deadline
      /\ began' = now /\ limit' = now + Share /\ step' = "ask"
      /\ UNCHANGED <<cand, now, late, replies, spent, trace, outcome>> /\ Fixed
  BY DEF Choose
<1>2. /\ Remaining \in Nat \ {0} /\ now \in Nat /\ late \in Nat /\ q \in Nat
      /\ Deadline - now \in Nat /\ Deadline - now + late >= Remaining * q
  <2>1. cand \in 1..Width /\ {now, late} \subseteq Nat /\ now < Deadline
    BY <1>1 DEF PhaseInv, PhaseTypes
  <2>2. Remaining \in Nat \ {0} /\ Deadline - now \in Nat /\ q \in Nat
    BY <2>1, Numbers DEF Remaining
  <2>3. SharesLeft(Remaining)
    BY <1>1 DEF PhaseInv, TimeInv
  <2> QED BY <2>1, <2>2, <2>3 DEF SharesLeft
<1>3. /\ Share \in Nat /\ Remaining * Share <= Deadline - now
      /\ Deadline - now < Remaining * (Share + 1)
  BY <1>2, Quotient DEF Share, Remaining
<1> HIDE DEF q
<1>4. /\ Share >= q - late
      /\ ((Deadline - now) - Share) + late >= (Remaining - 1) * q
  <2>1. Deadline - now \in Int
    BY <1>2
  <2> QED BY <1>2, <1>3, <2>1, EqualShares
<1>5. Share <= Deadline - now
  BY <1>2, <1>3
<1>6. Remaining' = Remaining
  BY <1>1 DEF Remaining
<1> DEFINE rest == (Remaining - 1) * q
<1>a. Remaining - 1 \in Int /\ q \in Int
  BY <1>2
<1>b. rest \in Int
  BY <1>a
<1>c. ((Deadline - now) - Share) + late >= rest
  BY <1>4
<1> HIDE DEF rest
<1>d. {Deadline, now, Share, late} \subseteq Nat
  BY <1>2, <1>3, Numbers
<1>7. (Deadline - limit') + late >= rest /\ (Deadline - now) + late >= rest
  BY <1>1, <1>b, <1>c, <1>d
<1>8. TimeInv'
  <2>1. now' <= Deadline + Grace /\ limit' <= Deadline /\ now' <= limit'
    BY <1>1, <1>2, <1>3, <1>5, Numbers
  <2>2. limit' - began' >= q - late'
    BY <1>1, <1>2, <1>3, <1>4
  <2>3. (Deadline - limit') + late' >= (Remaining' - 1) * q
    BY <1>1, <1>6, <1>7 DEF rest
  <2>4. (Deadline - now') + late' >= (Remaining' - 1) * q
    BY <1>1, <1>6, <1>7 DEF rest
  <2> QED BY <2>1, <2>2, <2>3, <2>4, <1>1 DEF TimeInv, SharesLeft, q
<1>9. {began, limit, now, late}' \subseteq Nat /\ spent' \in 0..Cap
  BY <1>1, <1>2, <1>3 DEF PhaseInv, PhaseTypes
<1> QED BY <1>1, <1>8, <1>9, WaitingHolds DEF Asking

(* What is left when a phase is settling or choosing is the shares of the   *)
(* candidates to come.                                                      *)
LEMMA SharesToCome == PhaseInv /\ step # "over" => SharesLeft(Remaining - 1)
<1> SUFFICES ASSUME PhaseInv, step = "choose" PROVE SharesLeft(Remaining - 1)
  BY DEF PhaseInv, PhaseTypes, TimeInv
<1> DEFINE q == Deadline \div Width
<1>1. Remaining \in Nat \ {0} /\ q \in Nat /\ now \in Nat /\ late \in Nat
  BY Numbers DEF PhaseInv, PhaseTypes, Remaining
<1>2. (Deadline - now) + late >= Remaining * q
  BY DEF PhaseInv, TimeInv, SharesLeft
<1> HIDE DEF q
<1>3. (Remaining - 1) * q <= Remaining * q
  BY <1>1
<1>4. (Deadline - now) + late >= (Remaining - 1) * q
  BY <1>1, <1>2, <1>3, Numbers
<1> QED BY <1>4 DEF SharesLeft, q

LEMMA PlanRepliedHolds ==
  ASSUME PhaseInv, step = "waiting", kind = "planning",
         NEW reply \in PlanReply, NEW fits \in BOOLEAN, PlanReplied(reply, fits),
         UNCHANGED <<Clocks, spent>>, Fixed
  PROVE  PhaseInv'
<1> DEFINE heard == Append(replies, reply)
<1>1. /\ replies \in Seq(Answers) /\ heard \in Seq(Answers)
      /\ Len(replies) < MaxPlanAttempts /\ Len(heard) = Len(replies) + 1
      /\ heard[Len(heard)] = reply /\ Len(heard) \in Nat
      /\ \A i \in DOMAIN replies : replies[i] \in {"malformed", "cut"} /\ heard[i] = replies[i]
  BY DEF PhaseInv, PhaseTypes, RepliesInv, Asking, Answers
<1>2. DOMAIN heard = 1..(Len(replies) + 1)
  BY <1>1
<1> HIDE DEF heard
<1>3. reply = "good" => Succeeds(Len(heard), heard)
  BY DEF PlanReplied, heard
<1>4. reply = "refused" => Fails(reply, heard)
  BY DEF PlanReplied, heard
<1>5. reply \in {"malformed", "cut"} =>
        IF Len(heard) = MaxPlanAttempts \/ ~fits THEN Fails(heard[1], heard)
                                                 ELSE AsksAgain(heard)
  BY DEF PlanReplied, GivesUp, heard
<1>6. CASE reply = "good"
  BY <1>1, <1>3, <1>6, SucceedsHolds
<1>7. CASE reply = "refused"
  BY <1>1, <1>4, <1>7, SharesToCome, FailsHolds DEF Errors, PlanReply
<1>8. CASE reply \in {"malformed", "cut"}
  <2>1. \A i \in DOMAIN heard : heard[i] \in {"malformed", "cut"}
    <3> SUFFICES ASSUME NEW i \in DOMAIN heard PROVE heard[i] \in {"malformed", "cut"}
      OBVIOUS
    <3>1. CASE i = Len(replies) + 1
      BY <3>1, <1>1, <1>8
    <3>2. CASE i # Len(replies) + 1
      <4>1. i \in DOMAIN replies
        BY <3>2, <1>1, <1>2
      <4> QED BY <4>1, <1>1
    <3> QED BY <3>1, <3>2
  <2>2. 1 \in DOMAIN heard
    BY <1>1, <1>2
  <2>3. CASE Len(heard) = MaxPlanAttempts \/ ~fits
    <3>1. heard[1] \in {"malformed", "cut"}
      BY <2>1, <2>2
    <3>2. heard[1] \in Errors
      BY <3>1 DEF Errors, PlanReply
    <3>3. Fails(heard[1], heard)
      BY <1>5, <1>8, <2>3
    <3> QED BY <1>1, <3>2, <3>3, SharesToCome, FailsHolds
  <2>4. CASE ~(Len(heard) = MaxPlanAttempts \/ ~fits)
    <3>1. Len(heard) < MaxPlanAttempts
      BY <1>1, <2>4, Numbers
    <3>2. AsksAgain(heard)
      BY <1>5, <1>8, <2>4
    <3> QED BY <1>1, <2>1, <3>1, <3>2, AsksAgainHolds
  <2> QED BY <2>3, <2>4
<1> QED BY <1>6, <1>7, <1>8 DEF PlanReply

LEMMA TextRepliedHolds ==
  ASSUME PhaseInv, step = "waiting", kind = "synthesis",
         NEW reply \in TextReply, TextReplied(reply),
         UNCHANGED <<Clocks, spent>>, Fixed
  PROVE  PhaseInv'
<1> DEFINE heard == Append(replies, reply)
<1>1. /\ replies \in Seq(Answers) /\ heard \in Seq(Answers)
      /\ Len(heard) \in Nat /\ heard[Len(heard)] = reply
      /\ replies \in {<<>>, <<"broken">>}
  BY DEF PhaseInv, PhaseTypes, RepliesInv, Asking, Answers
<1>2. reply = "broken" => IF Len(heard) = 1 THEN heard = <<"broken">>
                                            ELSE heard = <<"broken", "broken">>
  <2>1. Append(<<>>, "broken") = <<"broken">>
    OBVIOUS
  <2>2. Append(<<"broken">>, "broken") = <<"broken", "broken">>
    BY TwoReplies
  <2>3. Len(<<"broken">>) = 1 /\ Len(<<"broken", "broken">>) = 2
    OBVIOUS
  <2>4. CASE replies = <<>>
    BY <1>1, <2>1, <2>3, <2>4
  <2>5. CASE replies = <<"broken">>
    BY <1>1, <2>2, <2>3, <2>5
  <2> QED BY <1>1, <2>4, <2>5
<1> HIDE DEF heard
<1>3. reply = "good" => Succeeds(Len(heard), heard)
  BY DEF TextReplied, heard
<1>4. reply = "broken" => IF Len(heard) = 1 THEN AsksAgain(heard) ELSE Succeeds(1, heard)
  BY DEF TextReplied, heard
<1>5. reply \in {"cut", "refused", "blank"} => Fails(reply, heard)
  BY DEF TextReplied, heard
<1>6. CASE reply = "good"
  BY <1>1, <1>3, <1>6, SucceedsHolds
<1>7. CASE reply = "broken" /\ Len(heard) = 1
  BY <1>1, <1>2, <1>4, <1>7, AsksAgainHolds
<1>8. CASE reply = "broken" /\ Len(heard) # 1
  <2>1. Succeeds(1, heard) /\ heard = <<"broken", "broken">>
    BY <1>2, <1>4, <1>8
  <2> QED BY <1>1, <2>1, SucceedsHolds
<1>9. CASE reply \in {"cut", "refused", "blank"}
  <2>1. reply \in Errors
    BY DEF Errors
  <2> QED BY <1>1, <1>5, <1>9, <2>1, SharesToCome, FailsHolds
<1> QED BY <1>6, <1>7, <1>8, <1>9 DEF TextReply

LEMMA PhaseStepHolds == PhaseInv /\ [PhaseNext]_phaseVars => PhaseInv'
<1> SUFFICES ASSUME PhaseInv, [PhaseNext]_phaseVars PROVE PhaseInv'
  OBVIOUS
<1> USE DEF Clocks, Fixed
<1>1. ASSUME Choose PROVE PhaseInv'
  BY <1>1, ChooseHolds
<1>2. ASSUME NoTimeLeft PROVE PhaseInv'
  <2>1. "provider_timeout" \in Errors /\ <<>> \in Seq(Answers)
    BY EmptySeq DEF Errors
  <2> QED BY <1>2, <2>1, SharesToCome, FailsHolds DEF NoTimeLeft
<1>3. ASSUME GoalTooLong PROVE PhaseInv'
  <2>1. "context_unavailable" \in Errors /\ <<>> \in Seq(Answers)
    BY EmptySeq DEF Errors
  <2> QED BY <1>3, <2>1, SharesToCome, FailsHolds DEF GoalTooLong
<1>4. ASSUME Assemble PROVE PhaseInv'
  <2>1. 0 \in Nat /\ <<>> \in Seq(Answers)
    BY EmptySeq
  <2> QED BY <1>4, <2>1, SucceedsHolds DEF Assemble
<1>5. ASSUME Ask PROVE PhaseInv'
  <2>1. TimeInv' /\ spent' \in 0..Cap
    BY <1>5, Numbers DEF Ask, PhaseInv, PhaseTypes, TimeInv, SharesLeft, Remaining, Asking
  <2> QED BY <1>5, <2>1, WaitingHolds DEF Ask, Asking, PhaseInv, PhaseTypes
<1>6. ASSUME GateRefuses PROVE PhaseInv'
  <2>1. "quota_exhausted" \in Errors /\ replies \in Seq(Answers)
    BY DEF Errors, PhaseInv, PhaseTypes
  <2> QED BY <1>6, <2>1, SharesToCome, FailsHolds DEF GateRefuses
<1>7. ASSUME Replied PROVE PhaseInv'
  <2>1. CASE \E reply \in PlanReply, fits \in BOOLEAN : kind = "planning" /\ PlanReplied(reply, fits)
    BY <1>7, <2>1, PlanRepliedHolds DEF Replied
  <2>2. CASE \E reply \in TextReply : kind = "synthesis" /\ TextReplied(reply)
    BY <1>7, <2>2, TextRepliedHolds DEF Replied
  <2> QED BY <1>7, <2>1, <2>2 DEF Replied
<1>8. ASSUME ProviderFails PROVE PhaseInv'
  <2>1. PICK fault \in Faults : Fails(fault, replies)
    BY <1>8 DEF ProviderFails
  <2>2. fault \in Errors /\ fault \notin {"malformed", "cut"} /\ replies \in Seq(Answers)
    BY DEF Errors, Faults, PhaseInv, PhaseTypes
  <2>3. step # "over" /\ UNCHANGED <<Clocks, spent>> /\ Fixed
    BY <1>8 DEF ProviderFails
  <2> QED BY <2>1, <2>2, <2>3, SharesToCome, FailsHolds
<1>9. ASSUME TimesOut PROVE PhaseInv'
  <2>1. TimeInv'
    BY <1>9 DEF TimesOut, PhaseInv, TimeInv, SharesLeft, Remaining, Asking
  <2> QED BY <1>9, <2>1, WaitingHolds DEF TimesOut, Asking, PhaseInv, PhaseTypes
<1>10. ASSUME LetsGo PROVE PhaseInv'
  <2>1. "provider_timeout" \in Errors /\ replies \in Seq(Answers)
    BY DEF Errors, PhaseInv, PhaseTypes
  <2> QED BY <1>10, <2>1, SharesToCome, FailsHolds DEF LetsGo
<1>11. ASSUME Tick PROVE PhaseInv'
  <2> USE DEF SharesLeft, Remaining
  <2>1. /\ step = "waiting" /\ now < limit /\ now' = now + 1
        /\ UNCHANGED <<step, cand, began, limit, late, replies, spent, trace, outcome>> /\ Fixed
    BY <1>11 DEF Tick
  <2>2. {began, limit, now, late} \subseteq Nat /\ TimeInv /\ spent \in 0..Cap
    BY DEF PhaseInv, PhaseTypes
  <2>3. {began, limit, now, late}' \subseteq Nat /\ spent' \in 0..Cap
    BY <2>1, <2>2
  <2>4. TimeInv'
    <3> DEFINE rest == (Remaining - 1) * (Deadline \div Width)
    <3>1. rest' = rest /\ (Deadline - limit) + late >= rest /\ limit <= Deadline
      BY <2>1, <2>2 DEF TimeInv, Asking
    <3>2. cand \in Nat /\ Width \in Nat /\ (Deadline \div Width) \in Nat
      BY Numbers DEF PhaseInv, PhaseTypes
    <3>3. rest \in Int
      BY <3>2
    <3>4. SharesLeft(Remaining - 1)'
      <4> HIDE DEF rest
      <4>1. (Deadline - now') + late' >= rest'
        BY <2>1, <2>2, <3>1, <3>3, Numbers
      <4> QED BY <4>1 DEF rest
    <3>5. now' <= limit' /\ now' <= Deadline + Grace
      BY <2>1, <2>2, <3>1, Numbers
    <3> QED BY <2>1, <2>2, <3>1, <3>4, <3>5 DEF TimeInv, Asking
  <2> QED BY <2>1, <2>3, <2>4, WaitingHolds DEF Asking
<1>12. ASSUME LateTick PROVE PhaseInv'
  <2>1. /\ step = "settling" /\ now < limit + Grace /\ now' = now + 1 /\ late' = late + 1
        /\ UNCHANGED <<step, cand, began, limit, replies, spent, trace, outcome>> /\ Fixed
    BY <1>12 DEF LateTick
  <2>2. {began, limit, now, late} \subseteq Nat /\ TimeInv /\ spent \in 0..Cap
    BY DEF PhaseInv, PhaseTypes
  <2>3. {began, limit, now, late}' \subseteq Nat /\ spent' \in 0..Cap
    BY <2>1, <2>2
  <2>4. TimeInv'
    <3>1. limit <= Deadline /\ SharesLeft(Remaining - 1)
      BY <2>1, <2>2 DEF TimeInv, Asking
    <3>2. SharesLeft(Remaining - 1)'
      <4>1. (Deadline - now') + late' = (Deadline - now) + late
        BY <2>1, <2>2, Numbers
      <4> QED BY <2>1, <3>1, <4>1 DEF SharesLeft, Remaining
    <3>3. now' <= Deadline + Grace
      BY <2>1, <2>2, <3>1, Numbers
    <3> QED BY <2>1, <3>1, <3>2, <3>3 DEF TimeInv, Asking
  <2> QED BY <2>1, <2>3, <2>4, WaitingHolds DEF Asking
<1>13. CASE UNCHANGED phaseVars
  BY <1>13 DEF phaseVars, PhaseInv, PhaseTypes, TimeInv, SharesLeft, Remaining, RepliesInv,
               FirstRejectionReported, BestAnswerTaken
<1> QED BY <1>1, <1>2, <1>3, <1>4, <1>5, <1>6, <1>7, <1>8, <1>9, <1>10, <1>11, <1>12, <1>13
        DEF PhaseNext, Over

(* Whatever hangs, errs or is corrected on the way, the phase spends its    *)
(* time fairly and says truly what came of it (runtime.py:381).             *)
THEOREM PhaseSpentFairly == PhaseSpec => []PhaseIsFair
<1>1. PhaseInv => PhaseIsFair
  BY DEF PhaseInv, TimeInv, PhaseIsFair, TimeIsShared
<1> QED BY <1>1, PhaseInitHolds, PhaseStepHolds, PTL DEF PhaseSpec

-----------------------------------------------------------------------------
(* The refinement, step by step.                                            *)
LEMMA FailsByContract ==
  ASSUME PhaseInv, step # "over",
         NEW error \in Errors, NEW heard \in Seq(Answers), Fails(error, heard),
         UNCHANGED spent
  PROVE  Contract!PNext \/ Contract!PFail
<1>1. outcome.status = "open" /\ cand \in 1..Width /\ Width \in Nat
  BY Numbers DEF PhaseInv, PhaseTypes, RepliesInv, Open
<1>2. CASE Reason(error) = "none" \/ cand = Width
  <2>1. /\ outcome'.status = "failed" /\ step' = "over" /\ UNCHANGED cand
    BY <1>2 DEF Fails
  <2> QED BY <1>1, <2>1 DEF Contract!PFail
<1>3. CASE ~(Reason(error) = "none" \/ cand = Width)
  <2>1. cand' = cand + 1 /\ step' = "choose" /\ replies' = <<>> /\ UNCHANGED outcome
    BY <1>3 DEF Fails
  <2>2. Len(replies') + 0 = 0 /\ cand < Width
    BY <1>1, <1>3, <2>1
  <2> QED BY <1>1, <2>1, <2>2 DEF Contract!PNext
<1> QED BY <1>2, <1>3

LEMMA SucceedsByContract ==
  ASSUME PhaseInv, NEW answer \in Nat, NEW heard, Succeeds(answer, heard), UNCHANGED spent,
         step \in {"waiting", "settling"} \/ (step = "choose" /\ cand = 1)
  PROVE  Contract!PSucceed
<1>1. /\ outcome.status = "open" /\ step # "over" /\ (step = "choose" => Len(replies) + 0 = 0)
  BY DEF PhaseInv, RepliesInv, Open
<1>2. outcome'.status = "success" /\ step' = "over" /\ UNCHANGED cand
  BY DEF Succeeds
<1> QED BY <1>1, <1>2 DEF Contract!PSucceed

LEMMA AsksAgainByContract ==
  ASSUME PhaseInv, step = "waiting", NEW reply \in Answers,
         AsksAgain(Append(replies, reply)), UNCHANGED spent,
         Len(Append(replies, reply)) < MaxAsks
  PROVE  Contract!PCorrect
<1>1. outcome.status = "open" /\ replies \in Seq(Answers)
  BY DEF PhaseInv, PhaseTypes, RepliesInv, Open
<1>2. step' = "ask" /\ replies' = Append(replies, reply) /\ UNCHANGED <<cand, outcome>>
  BY DEF AsksAgain
<1>3. /\ Len(replies') + 0 = Len(replies) + 1
      /\ Len(replies) + 1 < MaxAsks
  BY <1>1, <1>2
<1> QED BY <1>1, <1>2, <1>3 DEF Contract!PCorrect

LEMMA AskByContract == ASSUME PhaseInv, Ask PROVE Contract!PAsk
<1>1. /\ step = "ask" /\ step' = "waiting" /\ (Metered => spent < Cap)
      /\ spent' = (IF Metered THEN spent + 1 ELSE spent)
      /\ UNCHANGED <<cand, replies, outcome>>
  BY DEF Ask
<1>2. /\ outcome.status = "open" /\ replies \in Seq(Answers) /\ spent \in 0..Cap
      /\ kind \in {"planning", "synthesis"}
      /\ IF kind = "planning" THEN Len(replies) < MaxPlanAttempts
                              ELSE replies \in {<<>>, <<"broken">>}
  BY <1>1 DEF PhaseInv, PhaseTypes, RepliesInv, Open, Asking
<1>3. Len(<<>>) = 0 /\ Len(<<"broken">>) = 1 /\ Len(replies) \in Nat
  BY <1>2
<1>4. Len(replies) < MaxAsks
  <2>1. Len(replies) < MaxPlanAttempts \/ Len(replies) < 2
    <3>1. CASE kind = "planning"
      BY <1>2, <3>1
    <3>2. CASE kind = "synthesis"
      <4>1. CASE replies = <<>>
        BY <1>3, <4>1
      <4>2. CASE replies = <<"broken">>
        BY <1>3, <4>2
      <4> QED BY <1>2, <3>2, <4>1, <4>2
    <3> QED BY <1>2, <3>1, <3>2
  <2> QED BY <1>3, <2>1, Numbers DEF MaxAsks
<1>5. spent' \in {spent, spent + 1} /\ spent' <= Cap
  BY <1>1, <1>2, Numbers
<1>6. Len(replies) + 0 = Len(replies)
  BY <1>3
<1> QED BY <1>1, <1>2, <1>4, <1>5, <1>6 DEF Contract!PAsk

LEMMA ReplyByContract ==
  ASSUME PhaseInv, Replied
  PROVE  Contract!PStep
<1>1. /\ step = "waiting" /\ UNCHANGED spent /\ replies \in Seq(Answers)
  BY DEF Replied, PhaseInv, PhaseTypes
<1>2. \A reply \in Answers :
        /\ Append(replies, reply) \in Seq(Answers)
        /\ Len(Append(replies, reply)) = Len(replies) + 1 /\ Len(replies) \in Nat
  <2> TAKE reply \in Answers
  <2>1. Append(replies, reply) \in Seq(Answers) /\ Len(Append(replies, reply)) = Len(replies) + 1
    BY <1>1
  <2>2. Len(replies) \in Nat
    BY <1>1
  <2> QED BY <2>1, <2>2
<1>4. CASE kind = "planning"
  <2>1. PICK reply \in PlanReply, fits \in BOOLEAN : PlanReplied(reply, fits)
    BY <1>4 DEF Replied
  <2> DEFINE heard == Append(replies, reply)
  <2>2. /\ reply \in Answers /\ heard \in Seq(Answers) /\ Len(heard) = Len(replies) + 1
        /\ Len(replies) \in Nat
        /\ Len(replies) < MaxPlanAttempts
    BY <1>1, <1>2, <1>4, <2>1 DEF Answers, PhaseInv, RepliesInv, Asking
  <2>3. reply = "good" => Succeeds(Len(heard), heard)
    BY <2>1 DEF PlanReplied
  <2>4. reply = "refused" => Fails(reply, heard)
    BY <2>1 DEF PlanReplied
  <2>5. reply \in {"malformed", "cut"} =>
          IF Len(heard) = MaxPlanAttempts \/ ~fits THEN Fails(heard[1], heard)
                                                   ELSE AsksAgain(heard)
    BY <2>1 DEF PlanReplied, GivesUp
  <2>6. CASE reply = "good"
    <3>1. Contract!PSucceed
      BY <1>1, <2>2, <2>3, <2>6, SucceedsByContract
    <3> QED BY <3>1 DEF Contract!PStep
  <2>7. CASE reply = "refused"
    <3>1. Contract!PNext \/ Contract!PFail
      BY <1>1, <2>2, <2>4, <2>7, FailsByContract DEF Errors, PlanReply
    <3> QED BY <3>1 DEF Contract!PStep
  <2>8. CASE reply \in {"malformed", "cut"} /\ (Len(heard) = MaxPlanAttempts \/ ~fits)
    <3>1. heard[1] \in Errors
      <4>1. \A i \in DOMAIN replies : replies[i] \in {"malformed", "cut"}
        BY <1>1, <1>4 DEF PhaseInv, RepliesInv, Asking
      <4>2. heard[1] \in {"malformed", "cut"}
        BY <1>1, <2>2, <2>8, <4>1
      <4> QED BY <4>2 DEF Errors, PlanReply
    <3>2. Contract!PNext \/ Contract!PFail
      BY <1>1, <2>2, <2>5, <2>8, <3>1, FailsByContract
    <3> QED BY <3>2 DEF Contract!PStep
  <2>9. CASE reply \in {"malformed", "cut"} /\ ~(Len(heard) = MaxPlanAttempts \/ ~fits)
    <3>1. Len(heard) < MaxAsks
      BY <2>2, <2>9, Numbers DEF MaxAsks
    <3>2. AsksAgain(heard)
      BY <2>5, <2>9
    <3>3. Contract!PCorrect
      BY <1>1, <2>2, <3>1, <3>2, AsksAgainByContract
    <3> QED BY <3>3 DEF Contract!PStep
  <2> QED BY <2>1, <2>6, <2>7, <2>8, <2>9 DEF PlanReply
<1>5. CASE kind = "synthesis"
  <2>1. PICK reply \in TextReply : TextReplied(reply)
    BY <1>5 DEF Replied
  <2> DEFINE heard == Append(replies, reply)
  <2>2. /\ reply \in Answers /\ heard \in Seq(Answers) /\ Len(heard) \in Nat
    BY <1>2, <2>1 DEF Answers
  <2>3. reply = "good" => Succeeds(Len(heard), heard)
    BY <2>1 DEF TextReplied
  <2>4. reply = "broken" => IF Len(heard) = 1 THEN AsksAgain(heard) ELSE Succeeds(1, heard)
    BY <2>1 DEF TextReplied
  <2>5. reply \in {"cut", "refused", "blank"} => Fails(reply, heard)
    BY <2>1 DEF TextReplied
  <2>6. CASE reply = "good" \/ (reply = "broken" /\ Len(heard) # 1)
    <3>1. Contract!PSucceed
      BY <1>1, <2>2, <2>3, <2>4, <2>6, SucceedsByContract
    <3> QED BY <3>1 DEF Contract!PStep
  <2>7. CASE reply = "broken" /\ Len(heard) = 1
    <3>1. Len(heard) < MaxAsks
      BY <2>7, Numbers DEF MaxAsks
    <3>2. AsksAgain(heard)
      BY <2>4, <2>7
    <3>3. Contract!PCorrect
      BY <1>1, <2>2, <3>1, <3>2, AsksAgainByContract
    <3> QED BY <3>3 DEF Contract!PStep
  <2>8. CASE reply \in {"cut", "refused", "blank"}
    <3>1. Contract!PNext \/ Contract!PFail
      BY <1>1, <2>2, <2>5, <2>8, FailsByContract DEF Errors, TextReply
    <3> QED BY <3>1 DEF Contract!PStep
  <2> QED BY <2>1, <2>6, <2>7, <2>8 DEF TextReply
<1> QED BY <1>4, <1>5 DEF Replied

LEMMA StepByContract ==
  PhaseInv /\ [PhaseNext]_phaseVars => [Contract!PStep]_(Contract!phaseVars)
<1> SUFFICES ASSUME PhaseInv, [PhaseNext]_phaseVars
             PROVE  Contract!PStep \/ UNCHANGED Contract!phaseVars
  OBVIOUS
<1>0. /\ replies \in Seq(Answers) /\ <<>> \in Seq(Answers)
      /\ {"provider_timeout", "context_unavailable", "quota_exhausted"} \cup Faults \subseteq Errors
  BY EmptySeq DEF PhaseInv, PhaseTypes, Errors
<1>1. CASE Choose \/ TimesOut \/ Tick \/ LateTick \/ UNCHANGED phaseVars
  BY <1>1 DEF Choose, TimesOut, Tick, LateTick, phaseVars, Contract!phaseVars, Clocks
<1>2. CASE NoTimeLeft \/ GoalTooLong \/ GateRefuses \/ LetsGo
  <2>1. \E error \in Errors, heard \in Seq(Answers) : Fails(error, heard)
    BY <1>0, <1>2 DEF NoTimeLeft, GoalTooLong, GateRefuses, LetsGo
  <2>2. step # "over" /\ UNCHANGED spent
    BY <1>2 DEF NoTimeLeft, GoalTooLong, GateRefuses, LetsGo
  <2> QED BY <2>1, <2>2, FailsByContract DEF Contract!PStep
<1>3. CASE ProviderFails
  <2>1. \E error \in Errors : Fails(error, replies)
    BY <1>0, <1>3 DEF ProviderFails
  <2>2. step # "over" /\ UNCHANGED spent
    BY <1>3 DEF ProviderFails
  <2> QED BY <1>0, <2>1, <2>2, FailsByContract DEF Contract!PStep
<1>4. CASE Assemble
  <2>1. Succeeds(0, <<>>) /\ UNCHANGED spent /\ step = "choose" /\ cand = 1
    BY <1>4 DEF Assemble
  <2>2. Contract!PSucceed
    BY <2>1, SucceedsByContract
  <2> QED BY <2>2 DEF Contract!PStep
<1>5. CASE Ask
  BY <1>5, AskByContract DEF Contract!PStep
<1>6. CASE Replied
  BY <1>6, ReplyByContract
<1> QED BY <1>1, <1>2, <1>3, <1>4, <1>5, <1>6 DEF PhaseNext, Over

(* The safety part of KeepsPhaseContract: the phase the runtime is modelled *)
(* with is this one, deadlines, corrections, repairs and error classes left *)
(* out (_plan_with_fallback, _synthesize_with_fallback).                    *)
THEOREM PhaseAsContract == PhaseSpec => Contract!PSafe
<1>1. PhaseInit => Contract!PInit
  BY DEF PhaseInit, Contract!PInit, Open
<1> QED BY <1>1, PhaseInitHolds, PhaseStepHolds, StepByContract, PTL DEF PhaseSpec, Contract!PSafe
=============================================================================
