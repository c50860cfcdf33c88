------------------------------- MODULE Runtime -------------------------------
(***************************************************************************)
(* The orchestration core: Runtime.aexecute and everything it drives       *)
(* (src/src/volante/runtime.py).  One Runtime object takes one goal        *)
(* through planning, waves of parallel tasks, synthesis and an optional    *)
(* verification.  The actors are the aexecute coroutine and one coroutine  *)
(* per task of the current wave; they interleave at awaits.  A step here   *)
(* is at most one stretch of code between two awaits (some stretches are   *)
(* cut in two, which only adds interleavings).                             *)
(***************************************************************************)
EXTENDS Naturals, Sequences, FiniteSets

CONSTANTS
  Task,             \* ids a plan may use
  Position,         \* the place of a task in the plan list
  Agentic,          \* the tasks whose mode is "agentic"
  Model,            \* registry model ids
  Subscription,     \* the models billed to a plan: the gate counts their calls
  Unknown,          \* the model id written when no candidate was reached
  Plans,            \* dependency maps validate_plan accepts
  Rankings,         \* candidate lists route_decision may return
  PlanningModels,   \* planning_model_ids
  SynthesisModels,  \* synthesis_model_ids
  PlanCalls,        \* calls one Supervisor makes at most (_MAX_PLAN_ATTEMPTS)
  SynthesisCalls,   \* calls one Synthesizer makes at most (answer and repair)
  FanOut,           \* fan_out
  MaxRetries,       \* max_retries
  MaxTurns,         \* bound on the extra calls of one agentic candidate
  DefaultCap,       \* _sub_cap before a goal arrives
  Caps,             \* values VOLANTE_MAX_SUBSCRIPTION_CALLS may have
  Preflight,        \* initial_subscription_calls
  Assembles,        \* the synthesizer is an ArtifactAssembler
  VerifyAnswer      \* verify_answer

Acyclic(deps) ==
  \A S \in SUBSET DOMAIN deps : S # {} => \E t \in S : deps[t] \cap S = {}

ASSUME TasksAssumption ==
  /\ IsFiniteSet(Task)
  /\ Position \in [Task -> Nat]
  /\ \A s, t \in Task : Position[s] = Position[t] => s = t
  /\ Agentic \subseteq Task
  /\ Task \cap {"none", "__planning__", "__synthesis__", "scheduler_deadlock"} = {}

ASSUME PlansAssumption ==
  \A p \in Plans :
    /\ DOMAIN p \subseteq Task
    /\ DOMAIN p # {}
    /\ p \in [DOMAIN p -> SUBSET DOMAIN p]
    /\ Acyclic(p)

ASSUME ModelsAssumption ==
  /\ Subscription \subseteq Model
  /\ Unknown \notin Model
  /\ \A r \in Rankings \cup {PlanningModels, SynthesisModels} :
       r \in Seq(Model) /\ r # <<>>

ASSUME BoundsAssumption ==
  /\ FanOut \in Nat \ {0}
  /\ {PlanCalls, SynthesisCalls} \subseteq Nat \ {0}
  /\ {MaxRetries, MaxTurns, DefaultCap, Preflight} \subseteq Nat
  /\ Caps \subseteq Nat
  /\ {Assembles, VerifyAnswer} \subseteq BOOLEAN

VARIABLES
  used,        \* _used
  phase,       \* where aexecute is
  subCap,      \* _sub_cap
  subCalls,    \* _sub_calls
  plan,        \* depends_on of the planned tasks
  done,        \* tasks of the waves already gathered
  wave,        \* tasks of the wave being gathered
  result,      \* the RunResult returned
  idx,         \* candidate of the planning or synthesis phase
  asked,       \* calls the phase's current component has made
  inflight,    \* the phase awaits a provider
  pc,          \* where each task's coroutine is
  ranked,      \* model_ids of each task
  cand,        \* candidate_index (from 1)
  tries,       \* attempt, or the extra turns of an agentic candidate
  lastErr,     \* the class of last_err
  log,         \* the blackboard's entries, task by task
  trail,       \* models of the task's fallback_events
  executed,    \* executed_model_id
  slots,       \* free permits of the fan-out semaphore
  sent,        \* history: subscription calls made through the gate
  ungated      \* history: subscription calls made past it

runVars   == <<used, phase, subCap, plan, done, wave, result>>
phaseVars == <<idx, asked, inflight>>
callVars  == <<subCalls, sent, ungated>>
traceVars == <<log, trail, executed>>
taskVars  == <<pc, ranked, cand, tries, lastErr, slots>>
vars == <<runVars, phaseVars, callVars, traceVars, taskVars>>

NoResult == [status |-> "none"]
NoPlan == [t \in {} |-> {}]

Kinds  == {"artifact", "success", "reroute", "failed"}
Errors == {"none", "quota", "unavailable", "blank", "transient", "semantic",
           "unexpected"}

(* Runtime cannot get past these with the same candidate, so it walks on. *)
Reroutable == {"quota", "unavailable", "blank", "transient"}

Init ==
  /\ used = FALSE /\ phase = "fresh"
  /\ subCap = DefaultCap /\ subCalls = Preflight
  /\ plan = NoPlan /\ done = {} /\ wave = {} /\ result = NoResult
  /\ idx = 1 /\ asked = 0 /\ inflight = FALSE
  /\ pc = [t \in Task |-> "idle"]
  /\ ranked = [t \in Task |-> <<>>]
  /\ cand = [t \in Task |-> 1]
  /\ tries = [t \in Task |-> 0]
  /\ lastErr = [t \in Task |-> "none"]
  /\ log = [t \in Task |-> <<>>]
  /\ trail = [t \in Task |-> <<>>]
  /\ executed = [t \in Task |-> Unknown]
  /\ slots = FanOut
  /\ sent = Preflight /\ ungated = 0

-----------------------------------------------------------------------------
(* The subscription gate, _before_model_call: check and increment with no *)
(* await between them, before every physical call it is wired to.         *)

MayCall(m) == m \in Subscription => subCalls < subCap

Charge(m) == subCalls' = IF m \in Subscription THEN subCalls + 1 ELSE subCalls

Dial(m) == sent' = IF m \in Subscription THEN sent + 1 ELSE sent

GatedCall(m) == MayCall(m) /\ Charge(m) /\ Dial(m) /\ UNCHANGED ungated

(* A call nobody counts: the gate is not wired to it, or no longer. *)
UngatedCall(m) ==
  /\ ungated' = IF m \in Subscription THEN ungated + 1 ELSE ungated
  /\ UNCHANGED <<subCalls, sent>>

(* Blackboard.current_artifacts, restricted to which tasks have one. *)
HasArtifact(t) == \E i \in DOMAIN log[t] : log[t][i].kind = "artifact"
Delivered == {t \in Task : HasArtifact(t)}

(* _finalize: the structured result; the finally clause of aexecute runs. *)
Finish(status, failed) ==
  /\ phase' = "over"
  /\ result' = [status |-> status, failed |-> failed,
                artifacts |-> Delivered, calls |-> subCalls]

-----------------------------------------------------------------------------
(* aexecute up to planning.                                                *)

(* Both refusals (allowance below the preflight: ValueError; Runtime       *)
(* already used: RuntimeError) come before anything is assigned.           *)
Execute(cap) ==
  /\ Preflight <= cap
  /\ ~used
  /\ used' = TRUE
  /\ phase' = "intake"
  /\ subCap' = cap
  /\ subCalls' = Preflight
  /\ UNCHANGED <<plan, done, wave, result, phaseVars, sent, ungated,
                 traceVars, taskVars>>

RejectGoal ==
  /\ phase = "intake"
  /\ Finish("failed", "__planning__")
  /\ UNCHANGED <<used, subCap, plan, done, wave, phaseVars, callVars,
                 traceVars, taskVars>>

AcceptGoal ==
  /\ phase = "intake"
  /\ phase' = "planning"
  /\ idx' = 1 /\ asked' = 0 /\ inflight' = FALSE
  /\ UNCHANGED <<used, subCap, plan, done, wave, result, callVars, traceVars,
                 taskVars>>

-----------------------------------------------------------------------------
(* _plan_with_fallback and _synthesize_with_fallback: candidates in order, *)
(* each a component that may call its model several times.                 *)

Candidates == IF phase = "planning" THEN PlanningModels ELSE SynthesisModels
CallsPerCandidate == IF phase = "planning" THEN PlanCalls ELSE SynthesisCalls
InPhase == phase \in {"planning", "synthesis"}

(* The first synthesis component may be an ArtifactAssembler: no model. *)
Assembling == Assembles /\ phase = "synthesis" /\ idx = 1

(* A classified failure: the next candidate, or the phase's failure. *)
NextPhaseCandidate ==
  /\ idx < Len(Candidates)
  /\ idx' = idx + 1 /\ asked' = 0 /\ inflight' = FALSE
  /\ UNCHANGED <<phase, result>>

FailPhase ==
  /\ Finish("failed", IF phase = "planning" THEN "__planning__" ELSE "__synthesis__")
  /\ inflight' = FALSE
  /\ UNCHANGED <<idx, asked>>

PhaseFallback == NextPhaseCandidate \/ (idx = Len(Candidates) /\ FailPhase)

PhaseCall ==
  /\ InPhase /\ ~inflight /\ ~Assembling
  /\ GatedCall(Candidates[idx])
  /\ inflight' = TRUE /\ asked' = asked + 1
  /\ UNCHANGED <<runVars, idx, traceVars, taskVars>>

PhaseRefused ==
  /\ InPhase /\ ~inflight /\ ~Assembling
  /\ ~MayCall(Candidates[idx])
  /\ PhaseFallback
  /\ UNCHANGED <<used, subCap, plan, done, wave, callVars, traceVars, taskVars>>

(* The component asks again: a correction request, a syntax repair. *)
PhaseCorrects ==
  /\ InPhase /\ inflight
  /\ asked < CallsPerCandidate
  /\ inflight' = FALSE
  /\ UNCHANGED <<runVars, idx, asked, callVars, traceVars, taskVars>>

(* A timeout, an outage, an unusable plan or an unclassified exception;    *)
(* before the first call, a prompt that does not fit or no deadline left.  *)
PhaseFails ==
  /\ InPhase
  /\ inflight \/ asked = 0
  /\ PhaseFallback \/ FailPhase
  /\ UNCHANGED <<used, subCap, plan, done, wave, callVars, traceVars, taskVars>>

PlanReady ==
  /\ phase = "planning" /\ inflight
  /\ plan' \in Plans
  /\ phase' = "schedule" /\ inflight' = FALSE
  /\ UNCHANGED <<used, subCap, done, wave, result, idx, asked, callVars,
                 traceVars, taskVars>>

AnswerReady ==
  /\ phase = "synthesis"
  /\ inflight \/ Assembling
  /\ inflight' = FALSE
  /\ IF VerifyAnswer THEN phase' = "verify" /\ UNCHANGED result
                     ELSE Finish("success", "none")
  /\ UNCHANGED <<used, subCap, plan, done, wave, idx, asked, callVars,
                 traceVars, taskVars>>

(* _verify_final calls the planner's provider itself, past the gate. *)
VerifyCall ==
  /\ phase = "verify" /\ ~inflight
  /\ UngatedCall(PlanningModels[1])
  /\ inflight' = TRUE
  /\ UNCHANGED <<runVars, idx, asked, traceVars, taskVars>>

(* Whatever verification found or met, the answer stands. *)
VerifyDone ==
  /\ phase = "verify" /\ inflight
  /\ Finish("success", "none")
  /\ inflight' = FALSE
  /\ UNCHANGED <<used, subCap, plan, done, wave, idx, asked, callVars,
                 traceVars, taskVars>>

-----------------------------------------------------------------------------
(* The wave scheduler.                                                     *)

(* Mutant: any(dep in done) for all(dep in done). *)
RunnableAny(finished) ==
  {t \in DOMAIN plan \ finished :
     plan[t] = {} \/ plan[t] \cap finished # {}}

Runnable(finished) == {t \in DOMAIN plan \ finished : plan[t] \subseteq finished}

StartWave ==
  /\ phase = "schedule"
  /\ done # DOMAIN plan
  /\ Runnable(done) # {}
  /\ wave' = Runnable(done)
  /\ phase' = "wave"
  /\ UNCHANGED <<used, subCap, plan, done, result, phaseVars, callVars,
                 traceVars, taskVars>>

SchedulerStuck ==
  /\ done # DOMAIN plan
  /\ Runnable(done) = {}
  /\ Finish("failed", "scheduler_deadlock")
  /\ UNCHANGED wave

(* Mutant: the loop stops one task short. *)
AllTasksDoneButOne ==
  /\ Cardinality(done) >= Cardinality(DOMAIN plan) - 1
  /\ phase' = "synthesis"
  /\ UNCHANGED <<wave, result>>

AllTasksDone ==
  /\ done = DOMAIN plan
  /\ phase' = "synthesis"
  /\ UNCHANGED <<wave, result>>

EndSchedule ==
  /\ phase = "schedule"
  /\ SchedulerStuck \/ AllTasksDone
  /\ idx' = 1 /\ asked' = 0 /\ inflight' = FALSE
  /\ UNCHANGED <<used, subCap, plan, done, callVars, traceVars, taskVars>>

(* asyncio.gather returns when every coroutine of the wave has. *)
WaveOver == \A t \in wave : pc[t] \in {"ok", "failed"}

(* Mutant: the last failure reported for the first. *)
LastFailed ==
  CHOOSE t \in wave :
    /\ pc[t] = "failed"
    /\ \A s \in wave : pc[s] = "failed" => Position[t] >= Position[s]

(* The first task of the wave, in plan order, that did not succeed. *)
FirstFailed ==
  CHOOSE t \in wave :
    /\ pc[t] = "failed"
    /\ \A s \in wave : pc[s] = "failed" => Position[t] <= Position[s]

GatherFails ==
  /\ \E t \in wave : pc[t] = "failed"
  /\ Finish("failed", FirstFailed)
  /\ UNCHANGED done

GatherSucceeds ==
  /\ \A t \in wave : pc[t] # "failed"
  /\ done' = done \cup wave
  /\ phase' = "schedule"
  /\ UNCHANGED result

Gather ==
  /\ phase = "wave"
  /\ WaveOver
  /\ GatherFails \/ GatherSucceeds
  /\ UNCHANGED <<used, subCap, plan, wave, phaseVars, callVars, traceVars,
                 taskVars>>

-----------------------------------------------------------------------------
(* One task: _run_task, _run_task_body, _run_agentic.                      *)

(* A coroutine runs whether or not aexecute still waits for it. *)
At(t, where) == t \in wave /\ pc[t] = where
Current(t) == ranked[t][cand[t]]
Goto(t, where) == pc' = [pc EXCEPT ![t] = where]
Note(t, entries) == log' = [log EXCEPT ![t] = @ \o entries]
Entry(k, m) == [kind |-> k, model |-> m]
Blame(t, why) == lastErr' = [lastErr EXCEPT ![t] = why]

(* Leaving `async with sem`, whichever way. *)
ReleaseSlot == slots' = slots + 1

(* The model the failed status names: _run_task, which catches what the    *)
(* loops do not expect, knows the first of the ranking only.               *)
Named(t, why) == IF why = "unexpected" THEN ranked[t][1] ELSE Current(t)

(* Mutant: a failing task leaves without its permit. *)
FailTaskKeepingSlot(t, why) ==
  /\ Goto(t, "failed") /\ Blame(t, why)
  /\ Note(t, <<Entry("failed", Named(t, why))>>)
  /\ UNCHANGED <<ranked, cand, tries, trail, executed, slots>>

FailTask(t, why) ==
  /\ Goto(t, "failed") /\ Blame(t, why)
  /\ Note(t, <<Entry("failed", Named(t, why))>>)
  /\ ReleaseSlot
  /\ UNCHANGED <<ranked, cand, tries, trail, executed>>

(* Mutant: the model moved to is recorded for the model given up. *)
RerouteNaming(t, why) ==
  /\ cand[t] < Len(ranked[t])
  /\ cand' = [cand EXCEPT ![t] = @ + 1]
  /\ tries' = [tries EXCEPT ![t] = 0]
  /\ Goto(t, "ready") /\ Blame(t, why)
  /\ trail' = [trail EXCEPT ![t] = Append(@, ranked[t][cand[t] + 1])]
  /\ Note(t, <<Entry("reroute", Current(t))>>)
  /\ UNCHANGED <<ranked, executed, slots>>

Reroute(t, why) ==
  /\ cand[t] < Len(ranked[t])
  /\ cand' = [cand EXCEPT ![t] = @ + 1]
  /\ tries' = [tries EXCEPT ![t] = 0]
  /\ Goto(t, "ready") /\ Blame(t, why)
  /\ trail' = [trail EXCEPT ![t] = Append(@, Current(t))]
  /\ Note(t, <<Entry("reroute", Current(t))>>)
  /\ UNCHANGED <<ranked, executed, slots>>

(* The candidate is given up: the next one at once, or the task fails. *)
Abandon(t, why) ==
  Reroute(t, why) \/ (cand[t] = Len(ranked[t]) /\ FailTask(t, why))

RouteTask(t) ==
  /\ At(t, "idle")
  /\ \E r \in Rankings : ranked' = [ranked EXCEPT ![t] = r]
  /\ Goto(t, "queued")
  /\ UNCHANGED <<runVars, phaseVars, callVars, traceVars, cand, tries, lastErr,
                 slots>>

(* A tool or every model is unavailable before the task has its slot: at   *)
(* once, or (agentic only) after routing.  Recorded, never raised.         *)
RefuseTask(t) ==
  /\ At(t, "idle")
  /\ \/ Note(t, <<Entry("failed", Unknown)>>) /\ UNCHANGED ranked
     \/ /\ t \in Agentic
        /\ \E r \in Rankings :
             /\ ranked' = [ranked EXCEPT ![t] = r]
             /\ Note(t, <<Entry("failed", r[1])>>)
  /\ Goto(t, "failed") /\ Blame(t, "unexpected")
  /\ UNCHANGED <<runVars, phaseVars, callVars, trail, executed, cand, tries,
                 slots>>

Acquire(t) ==
  /\ At(t, "queued")
  /\ slots > 0
  /\ slots' = slots - 1
  /\ Goto(t, "ready")
  /\ UNCHANGED <<runVars, phaseVars, callVars, traceVars, ranked, cand, tries,
                 lastErr>>

(* The projector or the sandbox raises something the loop does not expect;
   or an agentic task's prompt leaves no room for its tool specs. *)
TaskCrashes(t) ==
  /\ At(t, "ready") /\ tries[t] = 0
  /\ \E why \in {"unexpected"} \cup IF t \in Agentic THEN {"semantic"} ELSE {} : FailTask(t, why)
  /\ UNCHANGED <<runVars, phaseVars, callVars>>

(* Between two calls of its agent a task asks the gate inside the worker,   *)
(* which aexecute has taken away once it is over; a candidate's first call *)
(* is then asked for by the loop itself.                                   *)
PastTheGate(t) == phase = "over" /\ t \in Agentic /\ tries[t] > 0

Dispatch(t) ==
  /\ At(t, "ready")
  /\ IF PastTheGate(t) THEN UngatedCall(Current(t)) ELSE GatedCall(Current(t))
  /\ Goto(t, "calling")
  /\ UNCHANGED <<runVars, phaseVars, traceVars, ranked, cand, tries, lastErr,
                 slots>>

Refused(t) ==
  /\ At(t, "ready")
  /\ ~PastTheGate(t) /\ ~MayCall(Current(t))
  /\ Abandon(t, "quota")
  /\ UNCHANGED <<runVars, phaseVars, callVars>>

Succeed(t) ==
  /\ At(t, "calling")
  /\ Note(t, <<Entry("artifact", Current(t)), Entry("success", Current(t))>>)
  /\ executed' = [executed EXCEPT ![t] = Current(t)]
  /\ Goto(t, "ok")
  /\ ReleaseSlot
  /\ UNCHANGED <<runVars, phaseVars, callVars, trail, ranked, cand, tries,
                 lastErr>>

(* The loop asked for tools, or retried inside: the agent calls again. *)
AgentTurn(t) ==
  /\ At(t, "calling") /\ t \in Agentic
  /\ tries[t] < MaxTurns
  /\ tries' = [tries EXCEPT ![t] = @ + 1]
  /\ Goto(t, "ready")
  /\ UNCHANGED <<runVars, phaseVars, callVars, traceVars, ranked, cand, lastErr,
                 slots>>

(* Depleted quota, inaccessible model or broken endpoint. *)
Unavailable(t) ==
  /\ At(t, "calling")
  /\ Abandon(t, "unavailable")
  /\ UNCHANGED <<runVars, phaseVars, callVars>>

(* A timeout or a transient error: retried in place by the one-shot loop. *)
BackOff(t) ==
  /\ At(t, "calling") /\ t \notin Agentic
  /\ tries[t] < MaxRetries
  /\ Goto(t, "backoff") /\ Blame(t, "transient")
  /\ UNCHANGED <<runVars, phaseVars, callVars, traceVars, ranked, cand, tries,
                 slots>>

Wake(t) ==
  /\ At(t, "backoff")
  /\ tries' = [tries EXCEPT ![t] = @ + 1]
  /\ Goto(t, "ready")
  /\ UNCHANGED <<runVars, phaseVars, callVars, traceVars, ranked, cand, lastErr,
                 slots>>

GiveUpRetrying(t) ==
  /\ At(t, "calling")
  /\ t \in Agentic \/ tries[t] = MaxRetries
  /\ Abandon(t, "transient")
  /\ UNCHANGED <<runVars, phaseVars, callVars>>

(* Mutant: a blank answer fails the task at once. *)
BlankAnswerFails(t) ==
  /\ At(t, "calling")
  /\ FailTask(t, "blank")
  /\ UNCHANGED <<runVars, phaseVars, callVars>>

(* EmptyOutputError: only the one-shot loop tries the next candidate. *)
BlankAnswer(t) ==
  /\ At(t, "calling")
  /\ IF t \in Agentic THEN FailTask(t, "blank") ELSE Abandon(t, "blank")
  /\ UNCHANGED <<runVars, phaseVars, callVars>>

(* An invalid request, a truncated answer, an exception of another type. *)
SemanticFailure(t) ==
  /\ At(t, "calling")
  /\ \E why \in {"semantic", "unexpected"} : FailTask(t, why)
  /\ UNCHANGED <<runVars, phaseVars, callVars>>

TaskStep(t) ==
  \/ RouteTask(t) \/ RefuseTask(t) \/ Acquire(t) \/ TaskCrashes(t)
  \/ Dispatch(t) \/ Refused(t) \/ Succeed(t) \/ AgentTurn(t)
  \/ Unavailable(t) \/ BackOff(t) \/ Wake(t) \/ GiveUpRetrying(t)
  \/ BlankAnswer(t) \/ SemanticFailure(t)

-----------------------------------------------------------------------------
(* Cancellation of aexecute (Ctrl-C, a closed browser stream).             *)

InSlot == {"ready", "calling", "backoff"}

(* A task can lose its cancellation: wait_for hands on a call that has just *)
(* completed, and a tool's clean-up swallows it between an agent's calls.  *)
CanLose(t) ==
  /\ t \in wave
  /\ \/ pc[t] = "calling"
     \/ pc[t] = "ready" /\ t \in Agentic /\ tries[t] > 0

(* Mutant: the tasks still waiting for a permit are forgotten. *)
CancelRunningOnly ==
  /\ phase = "wave"
  /\ phase' = "cancelling"
  /\ pc' = [t \in Task |->
              IF t \in wave /\ pc[t] \in InSlot THEN "unwinding" ELSE pc[t]]
  /\ UNCHANGED <<used, subCap, plan, done, wave, result, phaseVars, callVars,
                 traceVars, ranked, cand, tries, lastErr, slots>>

(* gather cancels every unfinished coroutine.  One inside its slot still   *)
(* has clean-up to await (a child process to reap), or goes on as if       *)
(* nothing had happened; one outside ends at once.                         *)
CancelWave ==
  /\ phase = "wave"
  /\ phase' = "cancelling"
  /\ \E lost \in SUBSET {t \in wave : CanLose(t)} :
       pc' = [t \in Task |->
                IF t \notin wave \/ t \in lost THEN pc[t]
                ELSE IF pc[t] \in InSlot THEN "unwinding"
                ELSE IF pc[t] \in {"idle", "queued"} THEN "cancelled" ELSE pc[t]]
  /\ UNCHANGED <<used, subCap, plan, done, wave, result, phaseVars, callVars,
                 traceVars, ranked, cand, tries, lastErr, slots>>

Cancelled == phase \in {"cancelling", "over"} /\ result = NoResult

(* A survivor may end here too: its wait_for raises once the agent inside  *)
(* has ended, or the closing event loop cancels it again.                  *)
Unwind(t) ==
  /\ \/ pc[t] = "unwinding"
     \/ Cancelled /\ t \in wave /\ pc[t] \in InSlot
  /\ Goto(t, "cancelled")
  /\ ReleaseSlot
  /\ UNCHANGED <<runVars, phaseVars, callVars, traceVars, ranked, cand, tries,
                 lastErr>>

(* gather raises at the first coroutine that ends cancelled, and otherwise *)
(* when all have ended: the run is over even while siblings still unwind,  *)
(* or work.                                                                *)
EndCancelled ==
  /\ phase = "cancelling"
  /\ \/ \E t \in wave : pc[t] = "cancelled"
     \/ WaveOver
  /\ phase' = "over"
  /\ UNCHANGED <<used, subCap, plan, done, wave, result, phaseVars, callVars,
                 traceVars, taskVars>>

CancelPhase ==
  /\ inflight
  /\ inflight' = FALSE
  /\ phase' = "over"
  /\ UNCHANGED <<used, subCap, plan, done, wave, result, idx, asked, callVars,
                 traceVars, taskVars>>

(* Nothing is left to do. *)
Settled ==
  /\ phase = "over"
  /\ \A t \in Task : pc[t] \notin InSlot \cup {"unwinding"}
  /\ UNCHANGED vars

MainStep ==
  \/ RejectGoal \/ AcceptGoal
  \/ PhaseCall \/ PhaseRefused \/ PhaseCorrects \/ PhaseFails
  \/ PlanReady \/ AnswerReady \/ VerifyCall \/ VerifyDone
  \/ StartWave \/ EndSchedule \/ Gather
  \/ EndCancelled

Progress == MainStep \/ \E t \in Task : TaskStep(t) \/ Unwind(t)

Next ==
  \/ \E cap \in Caps : Execute(cap)
  \/ Progress
  \/ CancelWave
  \/ CancelPhase
  \/ Settled

Spec == Init /\ [][Next]_vars

(* The event loop runs every coroutine that can run, and wait_for ends     *)
(* every provider call: no other fairness.  A caller need not come, and    *)
(* nobody needs to cancel.                                                 *)
FairSpec == Spec /\ WF_vars(Progress)
=============================================================================
