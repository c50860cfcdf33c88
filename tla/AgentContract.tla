---------------------------- MODULE AgentContract ----------------------------
(***************************************************************************)
(* What Runtime takes one run of an agentic worker for: a number of gated  *)
(* provider calls it can bound, and then one ending of a class that tells  *)
(* it whether to accept, to move on or to fail the task.  These are the    *)
(* steps AgentTurn, Succeed, BlankAnswer, Unavailable, Refused,            *)
(* SemanticFailure and TaskCrashes of Runtime.tla, candidate by candidate. *)
(***************************************************************************)
EXTENDS Naturals

CONSTANT MaxCalls   \* the calls one candidate may cost, MaxTurns + 1

VARIABLES
  made,     \* calls let through the gate
  ending    \* "none", then the class of the result or exception

agentVars == <<made, ending>>

AInit == made = 0 /\ ending = "none"

ACall ==
  /\ ending = "none"
  /\ made < MaxCalls
  /\ made' = made + 1
  /\ UNCHANGED ending

(* An artifact, or a verdict on one, is paid for with a call. *)
AEnd ==
  /\ ending = "none"
  /\ \/ ending' \in {"reroute", "semantic"}
     \/ made > 0 /\ ending' \in {"answer", "blank", "unexpected"}
  /\ UNCHANGED made

AgentSpec == AInit /\ [][ACall \/ AEnd]_agentVars

=============================================================================
