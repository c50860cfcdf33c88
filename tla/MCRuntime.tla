------------------------------ MODULE MCRuntime ------------------------------
(* Small instances of Runtime: three tasks, a subscription and a card model. *)
EXTENDS RuntimeProps

CONSTANTS a, b, c, plus, card

MCTask == {a, b, c}
MCPosition == [t \in MCTask |-> CASE t = a -> 1 [] t = b -> 2 [] t = c -> 3]
MCModel == {plus, card}

(* a and b in parallel, then c; a wave wider than the fan-out; one task *)
(* after the other, the last after both.                                *)
Fork == [t \in MCTask |-> IF t = c THEN {a, b} ELSE {}]
Wide == [t \in MCTask |-> {}]
Ladder == [t \in MCTask |-> CASE t = a -> {} [] t = b -> {a} [] t = c -> {a, b}]
MCPlans == {Fork, Wide, Ladder}

MCLong == {<<plus, card>>}
MCRankings == MCLong \cup {<<card>>}
MCPlanningModels == <<plus, card>>
MCSynthesisModels == <<card>>
=============================================================================
