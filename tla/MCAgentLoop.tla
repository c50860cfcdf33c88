----------------------------- MODULE MCAgentLoop -----------------------------
(* One agentic task on a model of a small context: prompts as Projection      *)
(* makes them of short and long goals, tasks and artifacts, two tools, and    *)
(* batches with an unknown tool, malformed arguments and a call past the      *)
(* limit.                                                                     *)
EXTENDS AgentLoop, Projection

MCBudget == InputBudget(12, 4)   \* 24 characters
Prefix == 4
Label == 1
MCPrompts ==
  {Projected(MCBudget, Prefix, Label, goal, task, artifacts) + 1 :
     goal \in {1, 30}, task \in {2, 30}, artifacts \in {<<>>, <<30, 2>>}} \ {0}

Use(tool) == [name |-> tool, wellFormed |-> TRUE]
MCBatches ==
  { <<Use("run")>>, <<Use("fetch"), Use("run")>>, <<Use("run"), Use("ghost"), Use("fetch")>>,
    <<[name |-> "run", wellFormed |-> FALSE]>>, <<>> }
MCResults == { [error |-> FALSE, size |-> 2], [error |-> TRUE, size |-> 30] }
MCRefusal == [error |-> TRUE, size |-> 1]

=============================================================================
