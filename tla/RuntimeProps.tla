---------------------------- MODULE RuntimeProps ----------------------------
(* What must be true of Runtime: its type invariant, its safety invariants, *)
(* what its steps may never do, and the contract it implements.             *)
EXTENDS Runtime

Unfinished == {"idle", "queued", "ready", "calling", "backoff"}
Places == Unfinished \cup {"ok", "failed", "unwinding", "cancelled"}
Phases == {"fresh", "intake", "planning", "schedule", "wave", "synthesis",
           "verify", "cancelling", "over"}
Results == [status: {"success", "failed"},
            failed: Task \cup {"none", "__planning__", "__synthesis__",
                               "scheduler_deadlock"},
            artifacts: SUBSET Task, calls: Nat]

Entries == [kind: Kinds, model: Model \cup {Unknown}]

(* Every variable keeps its type; a one-shot task never counts an attempt  *)
(* past max_retries nor an index past its candidate list.                  *)
TypeOK ==
  /\ used \in BOOLEAN /\ phase \in Phases
  /\ subCap \in Nat /\ subCalls \in Nat /\ sent \in Nat /\ ungated \in Nat
  /\ plan \in Plans \cup {NoPlan}
  /\ done \subseteq DOMAIN plan /\ wave \subseteq DOMAIN plan
  /\ result \in Results \cup {NoResult}
  /\ idx \in Nat \ {0} /\ asked \in Nat /\ inflight \in BOOLEAN
  /\ pc \in [Task -> Places]
  /\ ranked \in [Task -> Rankings \cup {<<>>}]
  /\ cand \in [Task -> Nat \ {0}]
  /\ tries \in [Task -> Nat]
  /\ \A t \in Task : tries[t] <= IF t \in Agentic THEN MaxTurns ELSE MaxRetries
  /\ lastErr \in [Task -> Errors]
  /\ log \in [Task -> Seq(Entries)]
  /\ trail \in [Task -> Seq(Model)]
  /\ executed \in [Task -> Model \cup {Unknown}]
  /\ slots \in 0..FanOut

(* The counter shared by parallel tasks is the number of subscription      *)
(* calls the gated phases made, and never passes the allowance             *)
(* (_before_model_call).                                                   *)
CallsCounted == subCalls = sent /\ (used => subCalls <= subCap)

(* Every permit of the fan-out semaphore is free or held by one task that  *)
(* is inside `async with sem`: none leaks on retry, reroute, failure, an   *)
(* unexpected exception or cancellation, and none is given back twice.     *)
InSemaphore == {t \in Task : pc[t] \in InSlot \cup {"unwinding"}}
SlotsConserved == slots + Cardinality(InSemaphore) = FanOut

(* A task is routed, projected and run only when every task it depends on  *)
(* has left its artifact on the blackboard.                                *)
DependenciesDelivered ==
  \A t \in Task : pc[t] # "idle" => t \in DOMAIN plan /\ plan[t] \subseteq Delivered

(* The outcome waits for all the coroutines of the wave: no sibling of a   *)
(* failed task is still at work when the caller gets its RunResult.        *)
NobodyWorksAfterResult ==
  result # NoResult => \A t \in wave : pc[t] \in {"ok", "failed"}

(* The routing decision's fallback events are the candidates really passed *)
(* over, in order; the blackboard's entries are a reroute for each of them *)
(* and then what ended the task; the executed model is the next candidate. *)
AuditTrail ==
  \A t \in Task :
    /\ trail[t] = SubSeq(ranked[t], 1, cand[t] - 1)
    /\ Len(trail[t]) <= Len(log[t])
    /\ \A i \in DOMAIN log[t] :
         IF i <= Len(trail[t]) THEN log[t][i] = Entry("reroute", trail[t][i])
                               ELSE log[t][i].kind # "reroute"
    /\ executed[t] = IF pc[t] = "ok" THEN Current(t) ELSE Unknown

(* A task fails for a reason another model could cure (outage, quota, a    *)
(* blank one-shot answer, retries used up) only after its last candidate,  *)
(* and a retry in place is never followed by giving up early.              *)
FailsOnlyWhenExhausted ==
  \A t \in Task :
    pc[t] = "failed" /\ lastErr[t] \in Reroutable =>
      \/ cand[t] = Len(ranked[t])
      \/ t \in Agentic /\ lastErr[t] = "blank"

(* The RunResult tells the truth: artifacts are those of the tasks that    *)
(* succeeded, failed siblings' work included; success means every planned  *)
(* task is there; a named failed task failed after all before it in the    *)
(* plan succeeded.                                                         *)
ResultTrue ==
  result # NoResult =>
    /\ result.calls = subCalls
    /\ result.artifacts = {t \in Task : pc[t] = "ok"}
    /\ result.status = "success" => plan # NoPlan /\ result.artifacts = DOMAIN plan
    /\ result.failed \in Task =>
         /\ pc[result.failed] = "failed"
         /\ \A s \in wave : Position[s] < Position[result.failed] => pc[s] = "ok"

(* With a plan validate_plan accepts, some task can always run: the        *)
(* scheduler_deadlock outcome is dead code.                                *)
SchedulerNeverStuck == result # NoResult => result.failed # "scheduler_deadlock"

(* What the caller may conclude from a RunResult.                          *)
OutcomeAccounts == ResultTrue /\ NobodyWorksAfterResult /\ SchedulerNeverStuck

(* A second aexecute, even one overlapping the run with another allowance  *)
(* in the environment, changes nothing of the first.                       *)
AllowanceFixed == [][used => used' /\ subCap' = subCap /\ subCalls' >= subCalls]_vars

(* With a RunResult everything is still.  After a cancellation only a task *)
(* inside its slot writes to the blackboard, the route trace or its        *)
(* outcome, none enters, and with nobody inside no provider is called: the *)
(* work an interrupted run leaves behind is what was already running.      *)
RecordsOf(t) == <<log[t], trail[t], executed[t]>>

QuietAfterOutcome ==
  [][phase = "over" =>
       /\ UNCHANGED runVars
       /\ result # NoResult => UNCHANGED vars
       /\ InSemaphore' \subseteq InSemaphore
       /\ InSemaphore = {} => UNCHANGED callVars
       /\ \A t \in Task \ InSemaphore : UNCHANGED RecordsOf(t)]_vars

(* An accepted goal gets an outcome, with every permit back.               *)
EveryRunEnds == used ~> (phase = "over" /\ slots = FanOut)

(* Runtime implements RunContract.                                         *)
Outcome ==
  IF phase = "over" THEN IF result = NoResult THEN "cancelled" ELSE result.status
  ELSE IF used THEN "open" ELSE "unopened"

Contract == INSTANCE RunContract WITH
  outcome <- Outcome, limit <- subCap, spent <- subCalls, delivered <- Delivered,
  working <- InSemaphore

KeepsContract == Contract!CSpec

-----------------------------------------------------------------------------
(* Said of the program, and not so.                                        *)

(* A blank answer moves the task to its next candidate, on every path.     *)
BlankAnswerReroutes ==
  \A t \in Task :
    pc[t] = "failed" /\ lastErr[t] = "blank" => cand[t] = Len(ranked[t])

=============================================================================
