------------------------------ MODULE Projection ------------------------------
(***************************************************************************)
(* Projector.project of projector.py, in characters: how much of the goal, *)
(* of the task and of each artifact it depends on reaches a model.         *)
(***************************************************************************)
EXTENDS Integers, Sequences, Functions

LOCAL Least(x, y) == IF x <= y THEN x ELSE y
LOCAL Greatest(x, y) == IF x >= y THEN x ELSE y

(* min(max_output_tokens, half of the context) *)
OutputReserve(window, maxOutput) == Least(maxOutput, Greatest(1, window \div 2))

(* model_input_char_budget: int(x * 0.85) tokens of four characters. *)
InputBudget(window, maxOutput) ==
  ((Greatest(window - OutputReserve(window, maxOutput), 1) * 85) \div 100) * 4

(* _mid_trim: whole, or head, marker and tail of exactly the share. *)
MidTrim(length, share) == Least(length, share)

(* The text around: both prefixes, a label for each dependency, separators. *)
Framing(prefix, label, n) ==
  prefix + 2 + (IF n > 0 THEN 2 ELSE 0) + (n - 1) * 2 + n * label

(* The characters of the messages, for the lengths of goal, description and
   artifacts; -1 when the framing alone does not fit (ValueError). *)
Projected(budget, prefix, label, goal, description, artifacts) ==
  LET n == Len(artifacts)
      room == budget - Framing(prefix, label, n)
      keptGoal == MidTrim(goal, room \div (IF n > 0 THEN 4 ELSE 2))
      keptTask == MidTrim(description, (room - keptGoal) \div (IF n > 0 THEN 3 ELSE 1))
      share == (room - keptGoal - keptTask) \div n
      blocks == [i \in 1..n |-> MidTrim(artifacts[i], share)]
  IN  IF room <= 0 THEN -1
      ELSE prefix + keptGoal + keptTask
             + IF n = 0 THEN 0
               ELSE 2 * n + n * label + FoldFunction(LAMBDA x, y : x + y, 0, blocks)

=============================================================================
