---------------------------- MODULE MCPlanGraph ----------------------------
(* Every plan of up to three tasks over three names, with every dependency  *)
(* list of up to two entries (names nobody has, oneself and a name listed   *)
(* twice among them), and one plan with a task too many.                    *)
EXTENDS PlanGraph

Lists(S, n) == UNION {[1..k -> S] : k \in 0..n}
Entry == [id : Name, depends_on : Lists(Name, 2)]

MCPlan ==
  Lists(Entry, 3) \cup {[i \in 1..4 |-> [id |-> CHOOSE n \in Name : TRUE, depends_on |-> <<>>]]}

=============================================================================
