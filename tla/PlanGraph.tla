----------------------------- MODULE PlanGraph -----------------------------
(***************************************************************************)
(* validate_plan of supervisor.py: what a list of tasks must satisfy       *)
(* before Runtime schedules it.  A dependency list is what the planner     *)
(* wrote: it may name a task twice, itself, or nobody.  The graph check is *)
(* Kahn's algorithm, a dependency counted as often as it is listed; one    *)
(* step pops one task and visits all its dependents.                       *)
(***************************************************************************)
EXTENDS Integers, Sequences, FiniteSets

CONSTANTS
  Name,      \* the ids a plan may use
  Plan,      \* the plans to validate: sequences of [id, depends_on]
  MaxTasks   \* _MAX_PLAN_TASKS

Acyclic(deps) ==
  \A S \in SUBSET DOMAIN deps : S # {} => \E t \in S : deps[t] \cap S = {}

ASSUME PlanAssumption ==
  /\ Plan \subseteq Seq([id : Name, depends_on : Seq(Name)])
  /\ MaxTasks \in Nat

VARIABLES
  plan,
  verdict,    \* "none", "accepted", or the reason of the ValueError
  checking,   \* "schema", then "graph" inside _assert_acyclic
  indegree,   \* by task: dependencies listed and not resolved
  ready,      \* the stack of tasks of indegree 0, in any order
  resolved    \* how many tasks were popped

vars == <<plan, verdict, checking, indegree, ready, resolved>>

Ids == {plan[i].id : i \in DOMAIN plan}
IdsDistinct == \A i, j \in DOMAIN plan : plan[i].id = plan[j].id => i = j
DependsOn(t) == plan[CHOOSE i \in DOMAIN plan : plan[i].id = t].depends_on
Occurrences(dep, t) == {i \in DOMAIN DependsOn(t) : DependsOn(t)[i] = dep}
Dependencies == [t \in Ids |-> {DependsOn(t)[i] : i \in DOMAIN DependsOn(t)}]

Init ==
  /\ plan \in Plan
  /\ verdict = "none"
  /\ checking = "schema"
  /\ indegree = <<>>
  /\ ready = {}
  /\ resolved = 0

Reject(why) ==
  /\ verdict' = why
  /\ UNCHANGED <<plan, checking, indegree, ready, resolved>>

(* The checks that come before the graph, in their order. *)
NamesKnown == \A t \in Ids : Dependencies[t] \subseteq Ids
Refusal ==
  CASE plan = <<>> -> "empty"
    [] Len(plan) > MaxTasks -> "too_many"
    [] ~IdsDistinct -> "duplicate"
    [] OTHER -> IF NamesKnown THEN "none" ELSE "unknown"

CheckSchema ==
  /\ checking = "schema" /\ verdict = "none"
  /\ Refusal # "none"
  /\ Reject(Refusal)

InitialDegree(t) == Len(DependsOn(t))
StartGraph ==
  /\ checking = "schema" /\ verdict = "none"
  /\ Refusal = "none"
  /\ checking' = "graph"
  /\ indegree' = [t \in Ids |-> InitialDegree(t)]
  /\ ready' = {t \in Ids : InitialDegree(t) = 0}
  /\ UNCHANGED <<plan, verdict, resolved>>

(* A dependent appears once per listing, and is pushed when it reaches 0. *)
Lowered(dep) == [t \in Ids |-> indegree[t] - Cardinality(Occurrences(dep, t))]
Freed(dep) == {t \in Ids : Occurrences(dep, t) # {} /\ Lowered(dep)[t] = 0}

Resolve(t) ==
  /\ checking = "graph" /\ verdict = "none"
  /\ t \in ready
  /\ resolved' = resolved + 1
  /\ indegree' = Lowered(t)
  /\ ready' = (ready \ {t}) \cup Freed(t)
  /\ UNCHANGED <<plan, verdict, checking>>

(* Mutant: a stack that ran dry is taken for success once anything resolved. *)
ConcludeEarly ==
  /\ checking = "graph" /\ verdict = "none"
  /\ ready = {}
  /\ verdict' = IF resolved > 0 THEN "accepted" ELSE "cycle"
  /\ UNCHANGED <<plan, checking, indegree, ready, resolved>>

Conclude ==
  /\ checking = "graph" /\ verdict = "none"
  /\ ready = {}
  /\ verdict' = IF resolved = Len(plan) THEN "accepted" ELSE "cycle"
  /\ UNCHANGED <<plan, checking, indegree, ready, resolved>>

Next == CheckSchema \/ StartGraph \/ Conclude \/ \E t \in Name : Resolve(t)

Spec == Init /\ [][Next]_vars

-----------------------------------------------------------------------------
TypeOK ==
  /\ verdict \in {"none", "accepted", "empty", "too_many", "duplicate", "unknown", "cycle"}
  /\ checking \in {"schema", "graph"}
  /\ ready \subseteq Ids
  /\ resolved \in 0..Len(plan)
  /\ checking = "graph" => indegree \in [Ids -> Nat]

WellFormed ==
  /\ plan # <<>> /\ Len(plan) <= MaxTasks
  /\ IdsDistinct
  /\ NamesKnown

(* An accepted plan is one Runtime's wave loop can finish: its graph has no
   cycle, whatever is listed twice, and its names are in order. *)
AcceptedIsSchedulable == verdict = "accepted" => WellFormed /\ Acyclic(Dependencies)

(* A plan is called cyclic only when it is: a duplicated dependency does not
   make a good plan look stuck. *)
CycleIsReal == verdict = "cycle" => WellFormed /\ ~Acyclic(Dependencies)

(* validate_plan draws the line exactly where the scheduler can and cannot
   finish. *)
VerdictIsExact == AcceptedIsSchedulable /\ CycleIsReal

=============================================================================
