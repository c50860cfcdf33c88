---------------------------- MODULE SandboxCall ----------------------------
(***************************************************************************)
(* One run of code written by a model: Sandbox.run and DockerSandbox.run   *)
(* over _collect_bounded_output, where the child's end, its deadline, an   *)
(* output limit and a cancellation race.                                   *)
(*                                                                         *)
(*   running      asyncio.wait races the completion and the limit          *)
(*   killing      docker kill is asked, for a bounded time                 *)
(*   terminating  the process is killed and waited for                     *)
(*   again        our pipe ends are closed and it is waited for once more  *)
(*   collecting   the drains are waited for                                *)
(***************************************************************************)
EXTENDS ChildCall

Boxed == {"host", "docker"}
Stopping == {"killing", "terminating", "again", "collecting"}

SandboxSpawns ==
  /\ at = "idle" /\ kind \in Boxed /\ calls < MaxCalls
  /\ calls' = calls + 1
  /\ child' = Fresh(IF kind = "docker" THEN "pending" ELSE "alive")
  /\ at' = "running"
  /\ outcome' = "none" /\ cause' = "none"
  /\ heard' = 0 /\ missed' = FALSE
  /\ UNCHANGED <<kind, streamed, seen, stopped>>

(* _drain_bounded reads on, also while the child is being stopped. *)
SandboxReads ==
  /\ at \in {"running"} \cup Stopping /\ kind \in Boxed /\ child.unread # <<>>
  /\ child' = [child EXCEPT !.unread = Tail(@)]
  /\ heard' = heard + 1
  /\ UNCHANGED <<kind, streamed, at, cause, outcome, seen, stopped, missed, calls>>

Overflowed == heard > Limit
Completed == Drained /\ Waitable

(* terminate: killpg at once on the host, docker kill first under docker. *)
Terminate(why) ==
  /\ cause' = why
  /\ IF kind = "host"
       THEN child' = Killed(child) /\ at' = "terminating"
       ELSE at' = "killing" /\ UNCHANGED child
  /\ UNCHANGED <<kind, streamed, outcome, heard, seen, stopped, missed, calls>>

(* Mutant: the completion is looked at before the limit. *)
SandboxFinishesFirst ==
  /\ at = "running" /\ kind \in Boxed /\ Completed
  /\ Over("normal")
  /\ UNCHANGED <<kind, streamed, child, cause, heard, seen, stopped, missed, calls>>

(* What the race is decided by, in the order the code looks: the limit, the *)
(* completion, and the deadline when neither is done.                       *)
SandboxOverflows == at = "running" /\ kind \in Boxed /\ Overflowed /\ Terminate("limit")
SandboxFinishes ==
  /\ at = "running" /\ kind \in Boxed /\ ~Overflowed /\ Completed
  /\ Over("normal")
  /\ UNCHANGED <<kind, streamed, child, cause, heard, seen, stopped, missed, calls>>
SandboxTimesOut ==
  /\ at = "running" /\ kind \in Boxed /\ ~Overflowed /\ ~Completed
  /\ Terminate("timeout")

-----------------------------------------------------------------------------
(* docker kill answers, finds no such container, or is given up on; then   *)
(* the client is killed, which stops no container.                         *)
DockerKills(answers) ==
  /\ at = "killing"
  /\ LET gone == answers /\ child.life = "alive" IN
     /\ child' = [ (IF gone THEN Killed(child) ELSE child) EXCEPT !.client = FALSE]
     /\ missed' = (missed \/ (~gone /\ child.life # "dead"))
  /\ at' = "terminating"
  /\ UNCHANGED <<kind, streamed, cause, outcome, heard, seen, stopped, calls>>

Moves(where, c) ==
  /\ at' = where
  /\ child' = c
  /\ UNCHANGED <<kind, streamed, cause, outcome, heard, seen, stopped, missed, calls>>

(* _terminate_process_group, and the bounded wait of DockerSandbox. *)
SandboxReaped == at \in {"terminating", "again"} /\ Waitable /\ Moves("collecting", child)
SandboxUnreaped ==
  \/ at = "terminating" /\ kind = "host" /\ Moves("again", Released(child))
  \/ at = "terminating" /\ kind = "docker" /\ Moves("collecting", child)
  \/ at = "again" /\ Moves("collecting", child)

Reported ==
  CASE cause = "limit" -> "limited"
    [] cause = "timeout" -> "timeout"
    [] cause = "cancel" -> "cancelled"

(* stop_and_settle waits for the drains, and cancels them after a while.   *)
(* Both take the call to its report.                                       *)
Collected ==
  /\ Over(Reported)
  /\ UNCHANGED <<kind, streamed, child, cause, heard, seen, stopped, missed, calls>>
SandboxCollects == at = "collecting" /\ Completed /\ Collected
SandboxAbandons == at = "collecting" /\ ~Completed /\ Collected

-----------------------------------------------------------------------------
(* A cancellation of the task.  While the race is on, or terminate waits,  *)
(* it reaches the handler, which stops the child again and raises; inside  *)
(* the handler it goes straight out.  The wait of stop_and_settle catches  *)
(* CancelledError with TimeoutError: there it ends the wait and no more.   *)
SandboxCancelled ==
  \/ at = "running" /\ kind \in Boxed /\ Terminate("cancel")
  \/ at \in {"killing", "terminating", "again"} /\ cause # "cancel" /\ Terminate("cancel")
  \/ at \in {"killing", "terminating", "again"} /\ cause = "cancel"
     /\ missed' = (missed \/ (at = "killing" /\ child.life # "dead"))
     /\ Over("cancelled")
     /\ UNCHANGED <<kind, streamed, child, cause, heard, seen, stopped, calls>>
  \/ at = "collecting" /\ Collected

SandboxWaits ==
  \/ SandboxOverflows \/ SandboxFinishes \/ SandboxTimesOut
  \/ \E answers \in BOOLEAN : DockerKills(answers)
  \/ SandboxReaped \/ SandboxUnreaped \/ SandboxCollects \/ SandboxAbandons
SandboxStep == SandboxSpawns \/ SandboxReads \/ SandboxWaits
=============================================================================
