------------------------------ MODULE ChildRuns ------------------------------
(***************************************************************************)
(* A wave of two tasks in Runtime.aexecute: one whose calls run child      *)
(* processes (CliCall, SandboxCall) or fetch (FetchCall), and a sibling    *)
(* that only talks HTTP.  asyncio.gather passes the run's cancellation to  *)
(* both, raises as soon as one of them has ended cancelled, and waits for  *)
(* both otherwise; then the finally clause removes the run's workspace,    *)
(* where sandboxed children live.  A CLI agent has a directory of its own. *)
(***************************************************************************)
EXTENDS CliCall, SandboxCall, FetchCall

VARIABLES
  task,       \* the task with the children: "working", "over", "cancelled"
  sibling,    \* the other one
  told,       \* the cancellation: "no", "sent", "heard", "lost"
  workspace   \* the run's directory still exists

runVars == <<task, sibling, told, workspace>>
waitVars == <<callVars, fetch>>
vars == <<waitVars, runVars>>

Standing == {"working", "over", "cancelled"}

(* The components have their types. *)
TypeOK ==
  /\ CallTypeOK
  /\ task \in Standing
  /\ sibling \in Standing
  /\ told \in {"no", "sent", "heard", "lost"}
  /\ workspace \in BOOLEAN

Init ==
  /\ CallInit
  /\ fetch = NoFetch
  /\ task = "working"
  /\ sibling = "working"
  /\ told = "no"
  /\ workspace = TRUE

-----------------------------------------------------------------------------
(* Environment, and the waits of a call, which go on in its own task. *)
ChildMoves == Environment /\ UNCHANGED <<fetch, runVars>>
CallMoves ==
  /\ task = "working"
  /\ \/ (CliStep \/ SandboxStep) /\ UNCHANGED fetch
     \/ FetchStep
  /\ UNCHANGED runVars

TakesCancel ==
  \/ (CliTakesCancel \/ SandboxCancelled) /\ UNCHANGED fetch
  \/ FetchCancelled

(* A cancellation reaches the await the task stands at.  It is lost where   *)
(* the call returns in spite of it.                                         *)
CancelCall ==
  /\ task = "working" /\ told = "sent"
  /\ TakesCancel
  /\ told' = IF cause' # "cancel" THEN "lost" ELSE "heard"
  /\ UNCHANGED <<task, sibling, workspace>>
CancelCallAgain ==
  /\ task = "working" /\ told = "heard" /\ at # "idle" /\ cause = "cancel"
  /\ TakesCancel
  /\ UNCHANGED runVars

(* The task ends with its last call, or at an await between two calls. *)
TaskEnds ==
  /\ task = "working" /\ at = "idle"
  /\ IF outcome = "cancelled" THEN task' = "cancelled" /\ UNCHANGED told
     ELSE IF told = "sent" THEN task' = "cancelled" /\ told' = "heard"
     ELSE task' = "over" /\ UNCHANGED told
  /\ UNCHANGED <<waitVars, sibling, workspace>>
SiblingEnds ==
  /\ sibling = "working"
  /\ sibling' \in {"over"} \cup (IF told = "no" THEN {} ELSE {"cancelled"})
  /\ UNCHANGED <<waitVars, task, told, workspace>>

(* aexecute is cancelled while it waits for the wave. *)
CancelRun ==
  /\ told = "no" /\ workspace /\ task = "working"
  /\ told' = "sent"
  /\ UNCHANGED <<waitVars, task, sibling, workspace>>

(* Mutant: the first task over takes the wave with it. *)
GatherReturnsEarly ==
  /\ workspace
  /\ "over" \in {task, sibling}
  /\ workspace' = FALSE
  /\ UNCHANGED <<waitVars, task, sibling, told>>

GatherReturns ==
  /\ workspace
  /\ task # "working" /\ sibling # "working"
  /\ workspace' = FALSE
  /\ UNCHANGED <<waitVars, task, sibling, told>>
GatherRaises ==
  /\ workspace /\ told # "no"
  /\ "cancelled" \in {task, sibling}
  /\ "working" \in {task, sibling}
  /\ workspace' = FALSE
  /\ UNCHANGED <<waitVars, task, sibling, told>>

Stopped == ~workspace /\ task # "working" /\ sibling # "working" /\ UNCHANGED vars

Next ==
  \/ ChildMoves \/ CallMoves
  \/ CancelCall \/ CancelCallAgain \/ TaskEnds
  \/ SiblingEnds
  \/ CancelRun \/ GatherReturns \/ GatherRaises
  \/ Stopped

Spec == Init /\ [][Next]_vars

(* Timers of asyncio go off and tasks that can go on do; no child, and no   *)
(* process that holds a pipe, is assumed to do anything.                    *)
Waits ==
  /\ task = "working"
  /\ \/ (CliWaits \/ SandboxWaits) /\ UNCHANGED fetch
     \/ FetchExpires
  /\ UNCHANGED runVars
FairSpec ==
  /\ Spec
  /\ WF_vars(Waits)
  /\ WF_vars(TaskEnds)
  /\ WF_vars(SiblingEnds)
  /\ WF_vars(GatherReturns)

-----------------------------------------------------------------------------
(* However a call ends -- by itself, by its deadline, by a limit, by a      *)
(* reader that raises, cancelled once or twice -- its child is dead.  Only  *)
(* a container outlives its call, and only one docker kill did not reach.   *)
NoOrphans ==
  at = "idle" => \/ child.life \in {"none", "dead"}
                 \/ kind = "docker" /\ missed

(* What a CLI call accepts as finished is the whole of what a child wrote   *)
(* that ended its turn and exited well by itself: neither stopped, killed   *)
(* nor cut.  Codex's complete path is the exception: it reads its events    *)
(* around the hole _BoundedCapture left.                                    *)
AnswersAreWhole ==
  outcome = "whole" =>
    /\ seen = "done" /\ heard = child.wrote
    /\ child.code = 0 /\ cause = "none" /\ ~stopped
    /\ Lossy => kind = "codex" /\ ~streamed

(* A sandbox reports an ordinary end only for a child that ended by itself  *)
(* and whose whole output was read and is within the limit, and an output   *)
(* limit only for one that went over it.                                    *)
ReportsAreTrue ==
  /\ outcome = "normal" =>
       /\ child.code # -9 /\ ~missed
       /\ heard = child.wrote /\ heard =< Limit
  /\ outcome = "limited" => heard > Limit

(* Only a refused connection is followed by another, and only to an        *)
(* address that was checked together with all the others: an origin that   *)
(* was reached is the last one; and a text comes from an origin that was   *)
(* reached in time, and is within the limit.                               *)
FetchesAreTrue ==
  kind = "fetch" =>
    LET tried == Len(fetch.fates) IN
    /\ \A i \in 1..(tried - 1) : fetch.fates[i] = "refused"
    /\ tried > 0 \/ at = "connecting" =>
         \A i \in DOMAIN fetch.addresses : ~IsDisallowed(fetch.addresses[i])
    /\ outcome = "fetched" => fetch.fates[tried] = "reached" /\ cause = "none" /\ heard <= Limit
    /\ outcome = "errored" /\ tried > 0 /\ fetch.fates[tried] = "refused" =>
         tried = Len(fetch.addresses)

(* Neither an agent's answer nor a sandbox's report, nor a fetched text, is *)
(* other than what the child or the origin did, whichever of completion,    *)
(* deadline, limit and cancellation came first (sandbox.py:160,             *)
(* cli_agent.py:83, fetch_url.py:206).                                      *)
OutcomesAreTrue == AnswersAreWhole /\ ReportsAreTrue /\ FetchesAreTrue

(* Unless the run was cancelled, its workspace is removed after the last    *)
(* child that lives in it, and no call is under way any more.               *)
QuietWorkspace ==
  ~workspace /\ told = "no" =>
    at = "idle" /\ (child.life \in {"none", "dead"} \/ missed)

(* A call comes back, whatever its child does and whoever holds the child's *)
(* pipes for ever.                                                          *)
CallsEnd == at # "idle" ~> at = "idle"
=============================================================================
