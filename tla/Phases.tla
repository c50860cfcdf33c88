------------------------------- MODULE Phases -------------------------------
(***************************************************************************)
(* One sequential phase of a run: _plan_with_fallback over Supervisor.plan *)
(* or _synthesize_with_fallback over Synthesizer.synthesize, with the      *)
(* deadline they share among the candidates left, the error classes that   *)
(* move them on, the corrections of a plan and the repair of an answer.    *)
(* Time is counted in ticks; a share is rounded down to a whole one.       *)
(***************************************************************************)
EXTENDS Integers, Sequences

CONSTANTS
  Model,
  Candidates,     \* planning_model_ids or synthesis_model_ids
  Subscription,   \* models behind the gate of _before_model_call
  Cap,            \* subscription calls of the run
  Deadline,       \* planning_timeout, synthesis_timeout
  Grace,          \* bound: ticks a cancelled call takes to let go
  MaxPlanAttempts \* _MAX_PLAN_ATTEMPTS

(* _validate_phase_models. *)
PhaseModels(ids) ==
  /\ ids # <<>>
  /\ \A i, j \in 1..Len(ids) : ids[i] = ids[j] => i = j

ASSUME CandidatesAssumption == Candidates \in Seq(Model) /\ PhaseModels(Candidates)
ASSUME NumbersAssumption ==
  /\ {Deadline, MaxPlanAttempts} \subseteq Nat \ {0}
  /\ {Cap, Grace} \subseteq Nat

VARIABLES
  kind,       \* "planning" or "synthesis"
  assembles,  \* the first synthesis component is an ArtifactAssembler
  short,      \* models whose planner prompt has no room for the goal
  step,       \* "choose", "ask", "waiting", "settling", "over"
  cand,       \* position of the current candidate
  began,      \* when it was given its share of the deadline
  limit,      \* when wait_for gives it up
  now,
  late,       \* ticks spent waiting for cancelled calls to let go
  replies,    \* what the current component has been answered
  spent,      \* the run's subscription counter
  trace,      \* fallback_events
  outcome

phaseVars == <<kind, assembles, short, step, cand, began, limit, now, late, replies,
          spent, trace, outcome>>

Width == Len(Candidates)
PlanReply == {"good", "malformed", "cut", "refused"}
TextReply == {"good", "broken", "cut", "refused", "blank"}
Open == [status |-> "open", why |-> "none", answer |-> 0]

(* _phase_fallback_reason: what moves a phase on.  "none" ends it. *)
Reason(error) ==
  IF error \in {"cut", "refused"} THEN "incomplete_output"
  ELSE IF error = "malformed" THEN "invalid_plan"
  ELSE IF error = "blank" THEN "invalid_output"
  ELSE error
Faults == {"quota_exhausted", "candidate_unavailable", "provider_unavailable", "none"}

PhaseInit ==
  /\ kind \in {"planning", "synthesis"}
  /\ assembles \in (IF kind = "synthesis" THEN BOOLEAN ELSE {FALSE})
  /\ short \in (IF kind = "planning" THEN SUBSET Model ELSE {{}})
  /\ step = "choose" /\ cand = 1
  /\ began = 0 /\ limit = 0 /\ now = 0 /\ late = 0
  /\ replies = <<>>
  /\ spent \in 0..Cap
  /\ trace = <<>>
  /\ outcome = Open

Fixed == UNCHANGED <<kind, assembles, short>>
Clocks == <<began, limit, now, late>>

(* The except clause of the candidate loop, with what the component was    *)
(* answered in the end.                                                    *)
Fails(error, heard) ==
  IF Reason(error) = "none" \/ cand = Width
    THEN /\ outcome' = [status |-> "failed", why |-> error, answer |-> 0]
         /\ step' = "over" /\ replies' = heard
         /\ UNCHANGED <<cand, trace>>
    ELSE /\ trace' = Append(trace, [model |-> Candidates[cand], reason |-> Reason(error)])
         /\ cand' = cand + 1 /\ step' = "choose" /\ replies' = <<>>
         /\ UNCHANGED outcome

Succeeds(answer, heard) ==
  /\ outcome' = [status |-> "success", why |-> "none", answer |-> answer]
  /\ step' = "over" /\ replies' = heard
  /\ UNCHANGED <<cand, trace>>

-----------------------------------------------------------------------------
(* Mutant: all the time left goes to the current candidate. *)
ShareAll == Deadline - now

(* _phase_attempt_timeout. *)
Share == (Deadline - now) \div (Width - cand + 1)

Choose ==
  /\ step = "choose" /\ now < Deadline
  /\ Candidates[cand] \notin short
  /\ ~(assembles /\ cand = 1)
  /\ began' = now /\ limit' = now + Share
  /\ step' = "ask"
  /\ UNCHANGED <<cand, now, late, replies, spent, trace, outcome>> /\ Fixed
NoTimeLeft ==
  /\ step = "choose" /\ now >= Deadline
  /\ Fails("provider_timeout", <<>>)
  /\ UNCHANGED <<Clocks, spent>> /\ Fixed
GoalTooLong ==
  /\ step = "choose" /\ now < Deadline
  /\ Candidates[cand] \in short
  /\ Fails("context_unavailable", <<>>)
  /\ UNCHANGED <<Clocks, spent>> /\ Fixed
Assemble ==
  /\ step = "choose" /\ now < Deadline
  /\ assembles /\ cand = 1
  /\ Succeeds(0, <<>>)
  /\ UNCHANGED <<Clocks, spent>> /\ Fixed

Metered == Candidates[cand] \in Subscription

(* Mutant: only the first attempt goes through the gate. *)
AskGatedOnce ==
  /\ step = "ask"
  /\ Metered /\ replies = <<>> => spent < Cap
  /\ spent' = IF Metered THEN spent + 1 ELSE spent
  /\ step' = "waiting"
  /\ UNCHANGED <<cand, Clocks, replies, trace, outcome>> /\ Fixed

(* Every attempt goes through the gate: a correction and a repair too. *)
Ask ==
  /\ step = "ask"
  /\ Metered => spent < Cap
  /\ spent' = IF Metered THEN spent + 1 ELSE spent
  /\ step' = "waiting"
  /\ UNCHANGED <<cand, Clocks, replies, trace, outcome>> /\ Fixed
GateRefuses ==
  /\ step = "ask" /\ Metered /\ spent >= Cap
  /\ Fails("quota_exhausted", replies)
  /\ UNCHANGED <<Clocks, spent>> /\ Fixed

-----------------------------------------------------------------------------
AsksAgain(heard) ==
  /\ step' = "ask" /\ replies' = heard
  /\ UNCHANGED <<cand, trace, outcome>>

(* raise first_exc from None. *)
GivesUp(heard) == Fails(heard[1], heard)

(* Supervisor.plan: only a reply that is malformed or was cut short is     *)
(* corrected, while attempts are left and the correction fits the model.   *)
PlanReplied(reply, fits) ==
  LET heard == Append(replies, reply) IN
  CASE reply = "good" -> Succeeds(Len(heard), heard)
    [] reply = "refused" -> Fails(reply, heard)
    [] OTHER -> IF Len(heard) = MaxPlanAttempts \/ ~fits THEN GivesUp(heard)
                                                         ELSE AsksAgain(heard)

(* Synthesizer.synthesize: an answer with a Python block that does not     *)
(* parse is asked for once more; still broken, the first one is returned.  *)
TextReplied(reply) ==
  LET heard == Append(replies, reply) IN
  CASE reply = "good" -> Succeeds(Len(heard), heard)
    [] reply = "broken" -> IF Len(heard) = 1 THEN AsksAgain(heard) ELSE Succeeds(1, heard)
    [] OTHER -> Fails(reply, heard)

Replied ==
  /\ step = "waiting"
  /\ \/ kind = "planning" /\ \E reply \in PlanReply, fits \in BOOLEAN : PlanReplied(reply, fits)
     \/ kind = "synthesis" /\ \E reply \in TextReply : TextReplied(reply)
  /\ UNCHANGED <<Clocks, spent>> /\ Fixed
ProviderFails ==
  /\ step = "waiting"
  /\ \E fault \in Faults : Fails(fault, replies)
  /\ UNCHANGED <<Clocks, spent>> /\ Fixed

(* wait_for cancels the call and waits until it has let go. *)
TimesOut ==
  /\ step = "waiting" /\ now >= limit
  /\ step' = "settling"
  /\ UNCHANGED <<cand, Clocks, replies, spent, trace, outcome>> /\ Fixed
LetsGo ==
  /\ step = "settling"
  /\ Fails("provider_timeout", replies)
  /\ UNCHANGED <<Clocks, spent>> /\ Fixed

Tick ==
  /\ step = "waiting" /\ now < limit
  /\ now' = now + 1
  /\ UNCHANGED <<step, cand, began, limit, late, replies, spent, trace, outcome>> /\ Fixed
LateTick ==
  /\ step = "settling" /\ now < limit + Grace
  /\ now' = now + 1 /\ late' = late + 1
  /\ UNCHANGED <<step, cand, began, limit, replies, spent, trace, outcome>> /\ Fixed

Over == step = "over" /\ UNCHANGED phaseVars

PhaseNext ==
  \/ Choose \/ NoTimeLeft \/ GoalTooLong \/ Assemble
  \/ Ask \/ GateRefuses \/ Replied \/ ProviderFails
  \/ TimesOut \/ LetsGo \/ Tick \/ LateTick \/ Over

PhaseSpec == PhaseInit /\ [][PhaseNext]_phaseVars

(* The engine goes on and time passes; no provider is assumed to answer.   *)
Engine == Choose \/ NoTimeLeft \/ GoalTooLong \/ Assemble \/ Ask \/ GateRefuses
            \/ TimesOut \/ LetsGo \/ Tick
FairPhaseSpec == PhaseSpec /\ WF_phaseVars(Engine)

-----------------------------------------------------------------------------
(* A hanging candidate leaves the others their share: whoever is given the  *)
(* phase has an equal part of the whole deadline, less the time cancelled   *)
(* calls took to let go; and the phase is over within its deadline but for  *)
(* the last call's letting go.                                              *)
TimeIsShared ==
  /\ step \in {"ask", "waiting"} => limit - began >= (Deadline \div Width) - late
  /\ now =< Deadline + Grace

(* A planner that ran out of corrections is reported with its first         *)
(* rejection, whatever its later replies were rejected for.                 *)
FirstRejectionReported ==
  kind = "planning" /\ outcome.why \in {"malformed", "cut"} => outcome.why = replies[1]

(* What a phase hands on was complete: a good reply if there is one, else   *)
(* the first of two broken answers.                                         *)
BestAnswerTaken ==
  outcome.answer # 0 =>
    /\ replies[outcome.answer] \in {"good", "broken"}
    /\ replies[outcome.answer] = "broken" => kind = "synthesis" /\ replies = <<"broken", "broken">>
                                              /\ outcome.answer = 1

(* Whatever hangs, errs or is corrected on the way, the phase spends its    *)
(* time fairly and says truly what came of it (runtime.py:381).             *)
PhaseIsFair == TimeIsShared /\ FirstRejectionReported /\ BestAnswerTaken

(* A repair is a second call whatever the planner's limit.                  *)
MaxAsks == IF MaxPlanAttempts < 2 THEN 2 ELSE MaxPlanAttempts

Contract == INSTANCE PhaseContract WITH
  idx <- cand, inflight <- step \in {"waiting", "settling"},
  asked <- IF step = "over" THEN 0
           ELSE Len(replies) + (IF step \in {"waiting", "settling"} THEN 1 ELSE 0),
  charged <- spent,
  state <- IF outcome.status = "success" THEN "done" ELSE outcome.status

(* The phase keeps the contract the runtime is modelled with, and ends.     *)
KeepsPhaseContract == Contract!PSpec
=============================================================================
