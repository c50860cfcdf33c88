----------------------------- MODULE MCDirectRun -----------------------------
(* Seven models: a subscription's, two cards, a free local one whose       *)
(* context is small, one that cannot code, and two whose merits nearly tie. *)
EXTENDS DirectRun

Plain(id, transport, tier, context, maxOut) ==
  [id |-> id, transport |-> transport, tier |-> tier, strengths |-> {"coding", "reasoning"},
   tools |-> TRUE, billing |-> "card", costIn |-> 1, costOut |-> 2,
   context |-> context, maxOut |-> maxOut, local |-> FALSE,
   confidence |-> 100, taskScore |-> Unset, overall |-> Unset, reliability |-> Unset]

MCTable ==
  {[Plain(1, "claude", 4, 200000, 8192) EXCEPT !.billing = "plan_included", !.costOut = 5],
   [Plain(2, "anthropic", 4, 200000, 8192) EXCEPT !.costOut = 5],
   [Plain(3, "openai", 4, 131072, 1024) EXCEPT !.taskScore = 95, !.confidence = 50],
   [Plain(4, "openai", 1, 4096, 1024) EXCEPT
      !.local = TRUE, !.costIn = 0, !.costOut = 0, !.tools = FALSE],
   [Plain(5, "openai", 3, 131072, 4096) EXCEPT !.strengths = {"reasoning"}],
   [Plain(6, "openai", 2, 16675, 512) EXCEPT !.overall = 56],
   [Plain(7, "codex", 2, 8935, 4096) EXCEPT
      !.overall = 51, !.billing = "plan_included", !.reliability = 95]}
=============================================================================
