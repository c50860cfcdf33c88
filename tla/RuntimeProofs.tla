---------------------------- MODULE RuntimeProofs ----------------------------
(***************************************************************************)
(* Runtime for every plan, inventory, fan-out, retry limit and allowance:  *)
(* the inductive invariant IInv behind the safety invariants of            *)
(* RuntimeProps, and the step-by-step implementation of RunContract.       *)
(***************************************************************************)
EXTENDS RuntimeProps, TLAPS, FiniteSetTheorems, SequenceTheorems, WellFoundedInduction

(* A task that waits or works has a candidate; one that backs off has a *)
(* retry left.                                                          *)
CandidatesInv ==
  \A t \in Task :
    /\ pc[t] = "idle" => cand[t] = 1
    /\ pc[t] \in {"queued", "ready", "calling", "backoff"} =>
         ranked[t] \in Rankings /\ cand[t] \in 1..Len(ranked[t])
    /\ pc[t] = "backoff" => t \notin Agentic /\ tries[t] < MaxRetries

(* What each place of aexecute knows of the plan and of the waves. *)
PhaseInv ==
  /\ used <=> phase # "fresh"
  /\ phase \in {"fresh", "intake", "planning"} =>
       plan = NoPlan /\ done = {} /\ wave = {}
  /\ phase \in {"schedule", "wave", "synthesis", "verify", "cancelling"} =>
       plan \in Plans
  /\ phase \in {"schedule", "synthesis", "verify"} => wave \subseteq done
  /\ phase \in {"synthesis", "verify"} => done = DOMAIN plan
  /\ inflight => phase \in {"planning", "synthesis", "verify"}
  /\ result # NoResult => phase = "over"

(* What each place of a task knows of the waves and of the blackboard. *)
TasksInv ==
  /\ \A t \in Task : pc[t] = "ok" <=> HasArtifact(t)
  /\ \A t \in Task : pc[t] # "idle" => t \in wave \cup done
  /\ \A t \in done : pc[t] = "ok" /\ plan[t] \subseteq done
  /\ \A t \in wave : plan[t] \subseteq done
  /\ phase \in {"cancelling", "over"} => \A t \in wave : pc[t] \notin {"idle", "queued"}
  /\ result # NoResult => \A t \in wave : pc[t] \notin Unfinished
  /\ \A t \in Task : pc[t] \in {"unwinding", "cancelled"} => Cancelled

CallsInv == CallsCounted /\ (~used => subCalls = Preflight)

IInv == TypeOK /\ SlotsConserved /\ CandidatesInv /\ PhaseInv /\ TasksInv /\ CallsInv

-----------------------------------------------------------------------------
(* A ranking by naturals has a least element on a finite set: its lower    *)
(* sections are well-founded under strict inclusion.                       *)
LEMMA LeastElement ==
  ASSUME NEW S, IsFiniteSet(S), NEW T, T \subseteq S, T # {},
         NEW rank \in [S -> Nat]
  PROVE  \E t \in T : \A s \in T : rank[t] <= rank[s]
  <1> DEFINE Below(t) == {s \in T : rank[s] <= rank[t]}
             F == {Below(t) : t \in T}
  <1>1. F \subseteq FiniteSubsetsOf(S) /\ F # {}
    <2>1. ASSUME NEW t \in T PROVE Below(t) \in FiniteSubsetsOf(S)
      <3>1. Below(t) \in SUBSET S
        OBVIOUS
      <3>2. QED
        BY <3>1, FS_Subset DEF FiniteSubsetsOf
    <2>2. QED
      BY <2>1
  <1>2. IsWellFoundedOn(StrictSubsetOrdering(S), FiniteSubsetsOf(S))
    BY FS_StrictSubsetOrderingWellFounded
  <1>3. PICK B \in F : \A C \in F : <<C, B>> \notin StrictSubsetOrdering(S)
    <2> HIDE DEF F
    <2> QED
      BY <1>1, <1>2, WFMin
  <1>4. PICK t \in T : B = Below(t)
    BY <1>3
  <1>5. ASSUME NEW s \in T, rank[s] < rank[t] PROVE FALSE
    <2>1. Below(s) \subseteq Below(t) /\ t \in Below(t) /\ t \notin Below(s)
      BY <1>5
    <2>2. <<Below(s), Below(t)>> \in StrictSubsetOrdering(S)
      BY <2>1 DEF StrictSubsetOrdering
    <2>3. QED
      BY <2>2, <1>3, <1>4
  <1>6. QED
    BY <1>5

(* The failed task named in the result is one of the wave's.               *)
LEMMA FirstFailedInWave ==
  ASSUME TypeOK, NEW w \in wave, pc[w] = "failed"
  PROVE  /\ FirstFailed \in wave /\ pc[FirstFailed] = "failed"
         /\ \A s \in wave : pc[s] = "failed" => Position[FirstFailed] <= Position[s]
  <1> DEFINE Bad == {t \in wave : pc[t] = "failed"}
  <1>1. Bad \subseteq Task /\ Bad # {}
    BY PlansAssumption DEF TypeOK, NoPlan
  <1>2. \E t \in Bad : \A s \in Bad : Position[t] <= Position[s]
    BY <1>1, LeastElement, TasksAssumption
  <1>3. \E t \in wave :
          /\ pc[t] = "failed"
          /\ \A s \in wave : pc[s] = "failed" => Position[t] <= Position[s]
    BY <1>2
  <1>4. QED
    BY <1>3 DEF FirstFailed

-----------------------------------------------------------------------------
(* The shape of a step: aexecute moves and no task does, or one task moves *)
(* and aexecute does not, or the wave is cancelled.                        *)

MainMove ==
  \/ \E cap \in Caps : Execute(cap)
  \/ MainStep \/ CancelPhase \/ Settled \/ UNCHANGED vars

(* How a task gives up its candidate, whatever the cause. *)
GivesUp(t) ==
  /\ At(t, "ready") \/ At(t, "calling")
  /\ \E why \in Errors : Reroute(t, why) \/ FailTask(t, why)
  /\ UNCHANGED <<runVars, phaseVars, callVars>>

(* A move inside the candidate loop that calls nothing and records nothing.*)
Pauses(t) == AgentTurn(t) \/ BackOff(t) \/ Wake(t)

TaskMove(t) ==
  \/ RouteTask(t) \/ RefuseTask(t) \/ Acquire(t) \/ Dispatch(t) \/ Succeed(t)
  \/ Pauses(t) \/ GivesUp(t) \/ Unwind(t)

LEMMA StepShape ==
  [Next]_vars => MainMove \/ (\E t \in Task : TaskMove(t)) \/ CancelWave
  <1>1. ASSUME NEW t \in Task, TaskStep(t) PROVE TaskMove(t)
    BY <1>1 DEF TaskStep, TaskMove, Pauses, GivesUp, TaskCrashes, Refused,
       Unavailable, GiveUpRetrying, BlankAnswer, SemanticFailure, Abandon, Errors
  <1>2. QED
    BY <1>1 DEF Next, Progress, MainMove, TaskMove

LEMMA MainFrame == MainMove => UNCHANGED <<traceVars, taskVars>>
  BY DEF MainMove, MainStep, Execute, RejectGoal, AcceptGoal, PhaseCall,
     PhaseRefused, PhaseCorrects, PhaseFails, PlanReady, AnswerReady, VerifyCall,
     VerifyDone, StartWave, EndSchedule, Gather, EndCancelled, CancelPhase,
     Settled, vars

LEMMA TaskFrame ==
  ASSUME NEW t \in Task, TaskMove(t)
  PROVE  UNCHANGED <<runVars, phaseVars>>
  BY DEF TaskMove, RouteTask, RefuseTask, Acquire, Dispatch, Succeed, Pauses,
     AgentTurn, BackOff, Wake, GivesUp, Unwind

(* Where a cancellation of the wave leaves each task.                      *)
LEMMA CancelShape ==
  ASSUME TypeOK, CancelWave
  PROVE  /\ pc' \in [Task -> Places]
         /\ \A t \in Task :
              \/ pc'[t] = pc[t] /\ (t \in wave => pc[t] \notin {"idle", "queued"})
              \/ t \in wave /\ pc[t] \in InSlot /\ pc'[t] = "unwinding"
              \/ t \in wave /\ pc[t] \in {"idle", "queued"} /\ pc'[t] = "cancelled"
         /\ phase = "wave" /\ phase' = "cancelling"
         /\ UNCHANGED <<used, subCap, plan, done, wave, result, phaseVars,
                        callVars, traceVars, ranked, cand, tries, lastErr, slots>>
  <1>1. PICK lost \in SUBSET {t \in wave : CanLose(t)} :
          pc' = [t \in Task |->
                   IF t \notin wave \/ t \in lost THEN pc[t]
                   ELSE IF pc[t] \in InSlot THEN "unwinding"
                   ELSE IF pc[t] \in {"idle", "queued"} THEN "cancelled" ELSE pc[t]]
    BY DEF CancelWave
  <1>2. pc' \in [Task -> Places]
    BY <1>1 DEF TypeOK, Places
  <1>3. ASSUME NEW t \in Task
        PROVE  \/ pc'[t] = pc[t] /\ (t \in wave => pc[t] \notin {"idle", "queued"})
               \/ t \in wave /\ pc[t] \in InSlot /\ pc'[t] = "unwinding"
               \/ t \in wave /\ pc[t] \in {"idle", "queued"} /\ pc'[t] = "cancelled"
    <2>1. t \in lost => pc[t] \notin {"idle", "queued"}
      BY <1>1 DEF CanLose
    <2> QED BY <1>1, <2>1
  <1> QED BY <1>2, <1>3 DEF CancelWave

LEMMA InitIInv == Init => IInv
  <1> SUFFICES ASSUME Init PROVE IInv
    OBVIOUS
  <1> USE BoundsAssumption DEF Init
  <1>1. TypeOK
    <2>1. <<>> \in Seq(Entries) /\ <<>> \in Seq(Model)
      OBVIOUS
    <2>2. log \in [Task -> Seq(Entries)] /\ trail \in [Task -> Seq(Model)]
      BY <2>1
    <2>3. /\ pc \in [Task -> Places] /\ lastErr \in [Task -> Errors]
          /\ ranked \in [Task -> Rankings \cup {<<>>}]
          /\ executed \in [Task -> Model \cup {Unknown}]
      BY DEF Places, Unfinished, Errors
    <2>4. /\ cand \in [Task -> Nat \ {0}] /\ tries \in [Task -> Nat]
          /\ \A t \in Task : tries[t] <= IF t \in Agentic THEN MaxTurns ELSE MaxRetries
          /\ slots \in 0..FanOut
      OBVIOUS
    <2>5. /\ subCap \in Nat /\ subCalls \in Nat /\ sent \in Nat /\ ungated \in Nat
          /\ idx \in Nat \ {0} /\ asked \in Nat
      OBVIOUS
    <2>6. used \in BOOLEAN /\ phase \in Phases /\ inflight \in BOOLEAN
      BY Zenon DEF Phases
    <2>7. /\ plan \in Plans \cup {NoPlan} /\ done \subseteq DOMAIN plan
          /\ wave \subseteq DOMAIN plan /\ result \in Results \cup {NoResult}
      OBVIOUS
    <2> HIDE DEF Init
    <2>8. QED
      BY <2>2, <2>3, <2>4, <2>5, <2>6, <2>7 DEF TypeOK
  <1>2. InSemaphore = {}
    BY DEF InSemaphore, InSlot
  <1>3. SlotsConserved
    BY <1>2, FS_EmptySet DEF SlotsConserved
  <1>4. CandidatesInv /\ PhaseInv /\ TasksInv /\ CallsInv
    BY DEF CandidatesInv, PhaseInv, TasksInv, CallsInv, CallsCounted, HasArtifact
  <1>5. QED
    BY <1>1, <1>3, <1>4 DEF IInv

-----------------------------------------------------------------------------
(* Preservation, one part of the invariant after the other.                *)

LEMMA CallsStep == IInv /\ [Next]_vars => CallsInv'
  <1> SUFFICES ASSUME IInv, [Next]_vars PROVE CallsInv'
    OBVIOUS
  <1> USE BoundsAssumption DEF IInv, CallsInv, CallsCounted, PhaseInv, TypeOK
  <1>1. CASE MainMove
    <2>1. ASSUME NEW cap \in Caps, Execute(cap) PROVE CallsInv'
      BY <2>1 DEF Execute
    <2>2. CASE PhaseCall
      BY <2>2 DEF PhaseCall, GatedCall, MayCall, Charge, Dial, InPhase, runVars
    <2>3. CASE UNCHANGED <<used, subCap, subCalls, sent>>
      BY <2>3
    <2>4. QED
      BY <1>1, <2>1, <2>2, <2>3
         DEF MainMove, MainStep, RejectGoal, AcceptGoal, PhaseRefused,
             PhaseCorrects, PhaseFails, PlanReady, AnswerReady, VerifyCall,
             UngatedCall, VerifyDone, StartWave, EndSchedule, Gather,
             EndCancelled, CancelPhase, Settled, vars, runVars, callVars
  <1>2. ASSUME NEW t \in Task, TaskMove(t) PROVE CallsInv'
    <2>1. CASE Dispatch(t)
      <3>1. CASE GatedCall(Current(t))
        BY <2>1, <3>1 DEF Dispatch, GatedCall, MayCall, Charge, Dial, At, runVars
      <3>2. CASE UngatedCall(Current(t))
        BY <2>1, <3>2 DEF Dispatch, UngatedCall, runVars
      <3> QED BY <2>1, <3>1, <3>2 DEF Dispatch
    <2>2. CASE UNCHANGED <<used, subCap, subCalls, sent>>
      BY <2>2
    <2>3. QED
      BY <1>2, <2>1, <2>2
         DEF TaskMove, RouteTask, RefuseTask, Acquire, Succeed, Pauses,
             AgentTurn, BackOff, Wake, GivesUp, Unwind, runVars, callVars
  <1>3. CASE CancelWave
    BY <1>3 DEF CancelWave, callVars
  <1>4. QED
    BY <1>1, <1>2, <1>3, StepShape

LEMMA PhaseStep == IInv /\ [Next]_vars => PhaseInv'
  <1> SUFFICES ASSUME IInv, [Next]_vars PROVE PhaseInv'
    OBVIOUS
  <1> USE DEF IInv, PhaseInv, runVars, phaseVars
  <1>1. CASE MainMove
    <2>1. CASE (\E cap \in Caps : Execute(cap)) \/ RejectGoal \/ AcceptGoal
      BY <2>1 DEF Execute, RejectGoal, AcceptGoal, Finish
    <2>2. CASE PhaseCall \/ PhaseRefused \/ PhaseCorrects \/ PhaseFails
      BY <2>2 DEF PhaseCall, PhaseRefused, PhaseCorrects, PhaseFails, InPhase,
         PhaseFallback, NextPhaseCandidate, FailPhase, Finish
    <2>3. CASE PlanReady \/ AnswerReady \/ VerifyCall \/ VerifyDone
      BY <2>3 DEF PlanReady, AnswerReady, VerifyCall, VerifyDone, Finish
    <2>4. CASE StartWave \/ EndSchedule \/ EndCancelled
      BY <2>4 DEF StartWave, EndSchedule, SchedulerStuck, AllTasksDone, Finish,
         EndCancelled
    <2>5. CASE Gather
      BY <2>5 DEF Gather, GatherFails, GatherSucceeds, Finish
    <2>6. CASE CancelPhase \/ Settled \/ UNCHANGED vars
      BY <2>6 DEF CancelPhase, Settled, vars
    <2>7. QED
      BY <1>1, <2>1, <2>2, <2>3, <2>4, <2>5, <2>6 DEF MainMove, MainStep
  <1>2. ASSUME NEW t \in Task, TaskMove(t) PROVE PhaseInv'
    BY <1>2, TaskFrame
  <1>3. CASE CancelWave
    BY <1>3 DEF CancelWave
  <1>4. QED
    BY <1>1, <1>2, <1>3, StepShape

LEMMA RankingLength ==
  ASSUME NEW r \in Rankings
  PROVE  Len(r) \in Nat /\ Len(r) >= 1
  <1>1. r \in Seq(Model) /\ r # <<>>
    BY ModelsAssumption
  <1>2. QED
    BY <1>1

LEMMA CandidatesStep == IInv /\ [Next]_vars => CandidatesInv'
  <1> SUFFICES ASSUME IInv, [Next]_vars PROVE CandidatesInv'
    OBVIOUS
  <1> USE DEF IInv, CandidatesInv, TypeOK, At, Goto, taskVars
  <1>1. CASE MainMove
    BY <1>1, MainFrame
  <1>2. ASSUME NEW t \in Task, TaskMove(t) PROVE CandidatesInv'
    <2>1. CASE RouteTask(t)
      <3>1. PICK r \in Rankings : ranked' = [ranked EXCEPT ![t] = r]
        BY <2>1 DEF RouteTask
      <3>2. Len(r) \in Nat /\ Len(r) >= 1
        BY RankingLength
      <3>3. cand'[t] \in 1..Len(r)
        BY <2>1, <3>2 DEF RouteTask
      <3>4. ASSUME NEW s \in Task, s # t PROVE ranked'[s] = ranked[s] /\ cand'[s] = cand[s] /\ pc'[s] = pc[s]
        BY <2>1, <3>1, <3>4 DEF RouteTask
      <3>5. QED
        BY <2>1, <3>1, <3>3, <3>4 DEF RouteTask
    <2>2. CASE RefuseTask(t) \/ Acquire(t) \/ Dispatch(t) \/ Succeed(t) \/ Unwind(t)
      <3>1. CASE RefuseTask(t)
        BY <3>1 DEF RefuseTask
      <3>2. CASE Acquire(t) \/ Dispatch(t)
        BY <3>2 DEF Acquire, Dispatch
      <3>3. CASE Succeed(t) \/ Unwind(t)
        BY <3>3 DEF Succeed, Unwind
      <3>4. QED
        BY <2>2, <3>1, <3>2, <3>3
    <2>3. CASE Pauses(t)
      BY <2>3 DEF Pauses, AgentTurn, BackOff, Wake
    <2>4. CASE GivesUp(t)
      <3>1. PICK why \in Errors : Reroute(t, why) \/ FailTask(t, why)
        BY <2>4 DEF GivesUp
      <3>2. CASE FailTask(t, why)
        BY <3>2 DEF FailTask
      <3>3. CASE Reroute(t, why)
        <4>1. ranked[t] \in Rankings /\ cand[t] \in 1..Len(ranked[t])
          BY <2>4 DEF GivesUp
        <4>2. Len(ranked[t]) \in Nat
          BY <4>1, RankingLength
        <4>3. cand[t] + 1 \in 1..Len(ranked[t])
          BY <3>3, <4>1, <4>2 DEF Reroute
        <4>4. QED
          BY <3>3, <4>1, <4>3 DEF Reroute
      <3>4. QED
        BY <3>1, <3>2, <3>3
    <2>5. QED
      BY <1>2, <2>1, <2>2, <2>3, <2>4 DEF TaskMove
  <1>3. CASE CancelWave
    BY <1>3, CancelShape DEF InSlot
  <1>4. QED
    BY <1>1, <1>2, <1>3, StepShape

LEMMA SemaphoreFinite ==
  /\ IsFiniteSet(InSemaphore)
  /\ Cardinality(InSemaphore) \in Nat
  <1>1. InSemaphore \in SUBSET Task
    BY DEF InSemaphore
  <1>2. QED
    BY <1>1, FS_Subset, FS_CardinalityType, TasksAssumption

(* A permit is taken by a task that was outside, given back by one inside. *)
LEMMA TakeSlot ==
  ASSUME TypeOK, SlotsConserved, NEW t \in Task, Acquire(t)
  PROVE  SlotsConserved'
  <1>1. t \notin InSemaphore /\ InSemaphore' = InSemaphore \cup {t}
    BY DEF TypeOK, InSemaphore, InSlot, Acquire, At, Goto
  <1>2. Cardinality(InSemaphore') = Cardinality(InSemaphore) + 1
    BY <1>1, SemaphoreFinite, FS_AddElement
  <1>3. QED
    BY <1>2, SemaphoreFinite, BoundsAssumption DEF SlotsConserved, Acquire, TypeOK

LEMMA GiveSlotBack ==
  ASSUME TypeOK, SlotsConserved, NEW t \in Task, ReleaseSlot, t \in InSemaphore,
         NEW where \in {"ok", "failed", "cancelled"}, Goto(t, where)
  PROVE  SlotsConserved'
  <1>1. InSemaphore' = InSemaphore \ {t}
    BY DEF TypeOK, InSemaphore, InSlot, Goto
  <1>2. Cardinality(InSemaphore') = Cardinality(InSemaphore) - 1
    BY <1>1, SemaphoreFinite, FS_RemoveElement
  <1>3. QED
    BY <1>2, SemaphoreFinite, BoundsAssumption DEF SlotsConserved, ReleaseSlot, TypeOK

LEMMA SlotsStep == IInv /\ [Next]_vars => SlotsConserved'
  <1> SUFFICES ASSUME IInv, [Next]_vars PROVE SlotsConserved'
    OBVIOUS
  <1>0. TypeOK /\ SlotsConserved
    BY DEF IInv
  <1>1. ASSUME InSemaphore' = InSemaphore, slots' = slots PROVE SlotsConserved'
    BY <1>0, <1>1 DEF SlotsConserved
  <1>2. CASE MainMove
    <2>1. pc' = pc /\ slots' = slots
      BY <1>2, MainFrame DEF taskVars
    <2>2. QED
      BY <1>1, <2>1 DEF InSemaphore
  <1>3. ASSUME NEW t \in Task, TaskMove(t) PROVE SlotsConserved'
    <2>1. CASE Acquire(t)
      BY <1>0, <2>1, TakeSlot
    <2>2. CASE RouteTask(t) \/ RefuseTask(t) \/ Dispatch(t) \/ Pauses(t)
      <3>1. InSemaphore' = InSemaphore /\ slots' = slots
        BY <1>0, <2>2 DEF TypeOK, InSemaphore, InSlot, At, Goto, RouteTask,
           RefuseTask, Dispatch, Pauses, AgentTurn, BackOff, Wake
      <3>2. QED
        BY <1>1, <3>1
    <2>3. CASE Succeed(t) \/ Unwind(t)
      <3>1. t \in InSemaphore /\ ReleaseSlot /\ (Goto(t, "ok") \/ Goto(t, "cancelled"))
        BY <2>3 DEF Succeed, Unwind, At, InSemaphore, InSlot
      <3>2. QED
        BY <1>0, <3>1, GiveSlotBack
    <2>4. CASE GivesUp(t)
      <3>1. t \in InSemaphore
        BY <2>4 DEF GivesUp, At, InSemaphore, InSlot
      <3>2. PICK why \in Errors : Reroute(t, why) \/ FailTask(t, why)
        BY <2>4 DEF GivesUp
      <3>3. CASE FailTask(t, why)
        BY <1>0, <3>1, <3>3, GiveSlotBack DEF FailTask
      <3>4. CASE Reroute(t, why)
        <4>1. InSemaphore' = InSemaphore /\ slots' = slots
          BY <1>0, <3>1, <3>4 DEF TypeOK, InSemaphore, InSlot, Goto, Reroute
        <4>2. QED
          BY <1>1, <4>1
      <3>5. QED
        BY <3>2, <3>3, <3>4
    <2>5. QED
      BY <1>3, <2>1, <2>2, <2>3, <2>4 DEF TaskMove
  <1>4. CASE CancelWave
    <2>1. InSemaphore' = InSemaphore /\ slots' = slots
      BY <1>0, <1>4, CancelShape DEF InSemaphore, InSlot
    <2>2. QED
      BY <1>1, <2>1
  <1>5. QED
    BY <1>2, <1>3, <1>4, StepShape

(* Appending to one task's entries, and what it does to the artifacts.     *)
LEMMA NoteOne ==
  ASSUME TypeOK, NEW t \in Task, NEW k \in Kinds \ {"artifact"},
         NEW m \in Model \cup {Unknown}, Note(t, <<Entry(k, m)>>)
  PROVE  /\ log' \in [Task -> Seq(Entries)]
         /\ \A s \in Task : HasArtifact(s)' <=> HasArtifact(s)
  <1> DEFINE e == Entry(k, m)
  <1>1. e \in Entries /\ e.kind # "artifact"
    BY DEF Entry, Entries
  <1> HIDE DEF e
  <1>2. log \in [Task -> Seq(Entries)] /\ log[t] \in Seq(Entries)
    BY DEF TypeOK
  <1>3. log' = [log EXCEPT ![t] = log[t] \o <<e>>]
    BY DEF Note, e
  <1>4. log[t] \o <<e>> = Append(log[t], e)
    BY <1>1, <1>2
  <1>5. log' \in [Task -> Seq(Entries)]
    BY <1>1, <1>2, <1>3, <1>4
  <1>6. \A i \in DOMAIN log[t] : log'[t][i] = log[t][i]
    BY <1>2, <1>3, <1>4
  <1>7. DOMAIN log'[t] = DOMAIN log[t] \cup {Len(log[t]) + 1}
        /\ log'[t][Len(log[t]) + 1] = e
    BY <1>1, <1>2, <1>3, <1>4
  <1>8. HasArtifact(t)' <=> HasArtifact(t)
    BY <1>1, <1>6, <1>7 DEF HasArtifact
  <1>9. \A s \in Task : s # t => (HasArtifact(s)' <=> HasArtifact(s))
    BY <1>2, <1>3 DEF HasArtifact
  <1>10. QED
    BY <1>5, <1>8, <1>9

LEMMA NoteArtifact ==
  ASSUME TypeOK, NEW t \in Task, NEW m \in Model \cup {Unknown},
         Note(t, <<Entry("artifact", m), Entry("success", m)>>)
  PROVE  /\ log' \in [Task -> Seq(Entries)]
         /\ HasArtifact(t)'
         /\ \A s \in Task : s # t => (HasArtifact(s)' <=> HasArtifact(s))
  <1> DEFINE e == Entry("artifact", m)
             f == Entry("success", m)
  <1>1. e \in Entries /\ f \in Entries /\ e.kind = "artifact"
    BY DEF Entry, Entries, Kinds
  <1> HIDE DEF e, f
  <1>2. log \in [Task -> Seq(Entries)] /\ log[t] \in Seq(Entries)
    BY DEF TypeOK
  <1>3. log' = [log EXCEPT ![t] = log[t] \o <<e, f>>]
    BY DEF Note, e, f
  <1>4. log[t] \o <<e, f>> = Append(Append(log[t], e), f)
    BY <1>1, <1>2
  <1>5. log' \in [Task -> Seq(Entries)]
    BY <1>1, <1>2, <1>3, <1>4
  <1>6. Len(log[t]) + 1 \in DOMAIN log'[t] /\ log'[t][Len(log[t]) + 1] = e
    BY <1>1, <1>2, <1>3, <1>4
  <1>7. HasArtifact(t)'
    BY <1>1, <1>6 DEF HasArtifact
  <1>8. \A s \in Task : s # t => (HasArtifact(s)' <=> HasArtifact(s))
    BY <1>2, <1>3 DEF HasArtifact
  <1>9. QED
    BY <1>5, <1>7, <1>8

LEMMA FirstRanked ==
  ASSUME NEW r \in Rankings
  PROVE  r[1] \in Model
  <1>1. r \in Seq(Model) /\ r # <<>>
    BY ModelsAssumption
  <1>2. QED
    BY <1>1

(* A working task's candidate is a model, and so is the one it names.      *)
LEMMA CurrentIsModel ==
  ASSUME IInv, NEW t \in Task, pc[t] \in {"ready", "calling"}
  PROVE  Current(t) \in Model /\ \A why \in Errors : Named(t, why) \in Model
  <1>1. ranked[t] \in Rankings /\ cand[t] \in 1..Len(ranked[t])
    BY DEF IInv, CandidatesInv
  <1>2. ranked[t] \in Seq(Model)
    BY <1>1, ModelsAssumption
  <1>3. QED
    BY <1>1, <1>2, FirstRanked DEF Current, Named

(* What a move of task t does to the blackboard.                           *)
LEMMA TaskNotes ==
  ASSUME IInv, NEW t \in Task, TaskMove(t)
  PROVE  /\ log' \in [Task -> Seq(Entries)]
         /\ \/ Succeed(t) /\ HasArtifact(t)'
            \/ /\ HasArtifact(t)' <=> HasArtifact(t)
               /\ pc[t] # "ok" /\ pc'[t] # "ok"
         /\ \A s \in Task : s # t => (HasArtifact(s)' <=> HasArtifact(s))
  <1>0. TypeOK
    BY DEF IInv
  <1>1. CASE Succeed(t)
    <2>1. Current(t) \in Model
      BY <1>1, CurrentIsModel DEF Succeed, At
    <2>2. QED
      BY <1>0, <1>1, <2>1, NoteArtifact DEF Succeed
  <1>2. CASE RefuseTask(t)
    <2>1. /\ log' \in [Task -> Seq(Entries)]
          /\ \A s \in Task : HasArtifact(s)' <=> HasArtifact(s)
      <3>1. PICK m \in Model \cup {Unknown} : Note(t, <<Entry("failed", m)>>)
        BY <1>2, FirstRanked DEF RefuseTask
      <3>2. QED
        BY <1>0, <3>1, NoteOne DEF Kinds
    <2>2. pc[t] # "ok" /\ pc'[t] # "ok"
      BY <1>0, <1>2 DEF RefuseTask, At, Goto, TypeOK
    <2>3. QED
      BY <2>1, <2>2
  <1>3. CASE GivesUp(t)
    <2>1. Current(t) \in Model /\ \A why \in Errors : Named(t, why) \in Model
      BY <1>3, CurrentIsModel DEF GivesUp, At
    <2>2. PICK m \in Model :
            Note(t, <<Entry("reroute", m)>>) \/ Note(t, <<Entry("failed", m)>>)
      BY <1>3, <2>1 DEF GivesUp, Reroute, FailTask
    <2>3. /\ log' \in [Task -> Seq(Entries)]
          /\ \A s \in Task : HasArtifact(s)' <=> HasArtifact(s)
      BY <1>0, <2>1, <2>2, NoteOne DEF Kinds
    <2>4. pc[t] # "ok" /\ pc'[t] # "ok"
      BY <1>0, <1>3 DEF GivesUp, Reroute, FailTask, At, Goto, TypeOK
    <2>5. QED
      BY <2>3, <2>4
  <1>4. CASE RouteTask(t) \/ Acquire(t) \/ Dispatch(t) \/ Pauses(t) \/ Unwind(t)
    <2>1. log' = log /\ pc[t] # "ok" /\ pc'[t] # "ok"
      BY <1>0, <1>4 DEF TypeOK, At, Goto, RouteTask, Acquire, Dispatch, Pauses,
         AgentTurn, BackOff, Wake, Unwind, InSlot, traceVars
    <2>2. QED
      BY <1>0, <2>1 DEF TypeOK, HasArtifact
  <1>5. QED
    BY <1>1, <1>2, <1>3, <1>4 DEF TaskMove

(* Where a move of task t may start and end.                               *)
LEMMA TaskPlaces ==
  ASSUME TypeOK, NEW t \in Task, TaskMove(t)
  PROVE  /\ \A s \in Task : s # t => pc'[s] = pc[s]
         /\ \/ /\ t \in wave /\ pc[t] \in Unfinished
               /\ pc'[t] \in (Unfinished \ {"idle"}) \cup {"ok", "failed"}
               /\ pc'[t] = "queued" => pc[t] = "idle"
            \/ /\ pc[t] = "unwinding" \/ (Cancelled /\ t \in wave /\ pc[t] \in InSlot)
               /\ pc'[t] = "cancelled"
         /\ pc' \in [Task -> Places]
         /\ Succeed(t) => pc'[t] = "ok"
  <1> USE DEF TypeOK, Unfinished, Places, At, Goto
  <1>1. CASE RouteTask(t) \/ RefuseTask(t) \/ Acquire(t) \/ Dispatch(t)
    BY <1>1 DEF RouteTask, RefuseTask, Acquire, Dispatch, Succeed
  <1>2. CASE Succeed(t) \/ Unwind(t)
    BY <1>2 DEF Succeed, Unwind
  <1>3. CASE Pauses(t)
    BY <1>3 DEF Pauses, AgentTurn, BackOff, Wake, Succeed
  <1>4. CASE GivesUp(t)
    BY <1>4 DEF GivesUp, Reroute, FailTask, Succeed
  <1>5. QED
    BY <1>1, <1>2, <1>3, <1>4 DEF TaskMove

LEMMA TasksStep == IInv /\ [Next]_vars => TasksInv'
  <1> SUFFICES ASSUME IInv, [Next]_vars PROVE TasksInv'
    OBVIOUS
  <1>0. TypeOK /\ PhaseInv /\ TasksInv /\ wave \subseteq Task /\ done \subseteq Task
    BY PlansAssumption DEF IInv, TypeOK, NoPlan
  <1>1. CASE MainMove
    <2>0. pc' = pc /\ \A t \in Task : HasArtifact(t)' <=> HasArtifact(t)
      BY <1>1, MainFrame DEF traceVars, taskVars, HasArtifact
    <2> USE <1>0, <2>0 DEF TasksInv, PhaseInv, Cancelled, runVars, phaseVars
    <2>1. CASE (\E cap \in Caps : Execute(cap)) \/ RejectGoal \/ AcceptGoal
      BY <2>1 DEF Execute, RejectGoal, AcceptGoal, Finish
    <2>2. CASE PhaseCall \/ PhaseRefused \/ PhaseCorrects \/ PhaseFails
      BY <2>2 DEF PhaseCall, PhaseRefused, PhaseCorrects, PhaseFails, InPhase,
         PhaseFallback, NextPhaseCandidate, FailPhase, Finish, Unfinished
    <2>3. CASE PlanReady \/ AnswerReady \/ VerifyCall \/ VerifyDone
      BY <2>3 DEF PlanReady, AnswerReady, VerifyCall, VerifyDone, Finish, Unfinished
    <2>4. CASE StartWave
      BY <2>4 DEF StartWave, Runnable
    <2>5. CASE EndSchedule \/ EndCancelled
      BY <2>5 DEF EndSchedule, SchedulerStuck, AllTasksDone, Finish, EndCancelled,
         Unfinished
    <2>6. CASE Gather
      BY <2>6 DEF Gather, WaveOver, GatherFails, GatherSucceeds, Finish, Unfinished
    <2>7. CASE CancelPhase \/ Settled \/ UNCHANGED vars
      BY <2>7 DEF CancelPhase, Settled, vars, Unfinished
    <2>8. QED
      BY <1>1, <2>1, <2>2, <2>3, <2>4, <2>5, <2>6, <2>7 DEF MainMove, MainStep
  <1>2. ASSUME NEW t \in Task, TaskMove(t) PROVE TasksInv'
    <2>1. UNCHANGED runVars
      BY <1>2, TaskFrame
    <2>2. \A s \in Task : pc'[s] = "ok" <=> HasArtifact(s)'
      BY <1>0, <1>2, TaskPlaces, TaskNotes DEF TasksInv
    <2>3. QED
      BY <1>0, <1>2, <2>1, <2>2, TaskPlaces
         DEF TasksInv, PhaseInv, Cancelled, runVars, Unfinished, InSlot
  <1>3. CASE CancelWave
    <2>1. \A t \in Task : HasArtifact(t)' <=> HasArtifact(t)
      BY <1>3 DEF CancelWave, traceVars, HasArtifact
    <2>2. QED
      BY <1>0, <1>3, <2>1, CancelShape
         DEF TasksInv, PhaseInv, Cancelled, Unfinished, InSlot
  <1>4. QED
    BY <1>1, <1>2, <1>3, StepShape

(* The conjuncts of TypeOK by the group of variables they speak of.        *)
RunTypes ==
  /\ used \in BOOLEAN /\ phase \in Phases
  /\ plan \in Plans \cup {NoPlan}
  /\ done \subseteq DOMAIN plan /\ wave \subseteq DOMAIN plan
  /\ result \in Results \cup {NoResult}
NumberTypes ==
  /\ subCap \in Nat /\ subCalls \in Nat /\ sent \in Nat /\ ungated \in Nat
  /\ idx \in Nat \ {0} /\ asked \in Nat /\ inflight \in BOOLEAN
TaskTypes ==
  /\ pc \in [Task -> Places]
  /\ ranked \in [Task -> Rankings \cup {<<>>}]
  /\ cand \in [Task -> Nat \ {0}]
  /\ tries \in [Task -> Nat]
  /\ \A t \in Task : tries[t] <= IF t \in Agentic THEN MaxTurns ELSE MaxRetries
  /\ lastErr \in [Task -> Errors]
  /\ log \in [Task -> Seq(Entries)]
  /\ trail \in [Task -> Seq(Model)]
  /\ executed \in [Task -> Model \cup {Unknown}]

LEMMA FinishType ==
  ASSUME TypeOK, NEW status \in {"success", "failed"},
         NEW failed \in Task \cup {"none", "__planning__", "__synthesis__",
                                   "scheduler_deadlock"},
         Finish(status, failed)
  PROVE  phase' \in Phases /\ result' \in Results
  BY DEF Finish, Delivered, Results, Phases, TypeOK

LEMMA RunTypesStep == IInv /\ [Next]_vars => RunTypes'
  <1> SUFFICES ASSUME IInv, [Next]_vars PROVE RunTypes'
    OBVIOUS
  <1>0. TypeOK /\ RunTypes
    BY DEF IInv, TypeOK, RunTypes
  <1>1. CASE MainMove
    <2> USE <1>0 DEF RunTypes, runVars
    <2>1. CASE (\E cap \in Caps : Execute(cap)) \/ AcceptGoal
      BY <2>1 DEF Execute, AcceptGoal, Phases
    <2>2. CASE RejectGoal
      BY <2>2, FinishType DEF RejectGoal
    <2>3. CASE PhaseCall \/ PhaseCorrects \/ VerifyCall
      BY <2>3 DEF PhaseCall, PhaseCorrects, VerifyCall
    <2>4. CASE PhaseRefused \/ PhaseFails
      BY <2>4, FinishType DEF PhaseRefused, PhaseFails, PhaseFallback,
         NextPhaseCandidate, FailPhase
    <2>5. CASE PlanReady
      BY <2>5 DEF PlanReady, Phases, IInv, PhaseInv
    <2>6. CASE AnswerReady \/ VerifyDone
      BY <2>6, FinishType DEF AnswerReady, VerifyDone, Phases
    <2>7. CASE StartWave
      BY <2>7 DEF StartWave, Runnable, Phases
    <2>8. CASE EndSchedule
      BY <2>8, FinishType DEF EndSchedule, SchedulerStuck, AllTasksDone, Phases
    <2>9. CASE Gather
      <3>1. CASE GatherFails
        <4>1. FirstFailed \in Task
          BY <3>1, FirstFailedInWave, PlansAssumption DEF GatherFails, TypeOK, NoPlan
        <4>2. QED
          BY <2>9, <3>1, <4>1, FinishType DEF Gather, GatherFails
      <3>2. CASE GatherSucceeds
        BY <2>9, <3>2 DEF Gather, GatherSucceeds, Phases
      <3>3. QED
        BY <2>9, <3>1, <3>2 DEF Gather
    <2>10. CASE EndCancelled \/ CancelPhase \/ Settled \/ UNCHANGED vars
      BY <2>10 DEF EndCancelled, CancelPhase, Settled, vars, Phases
    <2>11. QED
      BY <1>1, <2>1, <2>2, <2>3, <2>4, <2>5, <2>6, <2>7, <2>8, <2>9, <2>10
         DEF MainMove, MainStep
  <1>2. ASSUME NEW t \in Task, TaskMove(t) PROVE RunTypes'
    BY <1>0, <1>2, TaskFrame DEF RunTypes, runVars
  <1>3. CASE CancelWave
    BY <1>0, <1>3 DEF RunTypes, CancelWave, Phases
  <1>4. QED
    BY <1>1, <1>2, <1>3, StepShape

(* Counters only step by one or are set to a constant.                     *)
LEMMA NumberTypesStep == IInv /\ [Next]_vars => NumberTypes'
  <1> SUFFICES ASSUME IInv, [Next]_vars PROVE NumberTypes'
    OBVIOUS
  <1>0. NumberTypes
    BY DEF IInv, TypeOK, NumberTypes
  <1>1. ASSUME \/ UNCHANGED callVars
               \/ \E m : Charge(m) /\ Dial(m) /\ UNCHANGED ungated
               \/ UNCHANGED <<subCalls, sent>> /\ ungated' \in {ungated, ungated + 1}
               \/ subCalls' = Preflight /\ UNCHANGED <<sent, ungated>>,
               subCap' \in Caps \cup {subCap},
               idx' \in {1, idx, idx + 1}, asked' \in {0, asked, asked + 1},
               inflight' \in {TRUE, FALSE, inflight}
        PROVE  NumberTypes'
    <2>1. subCap' \in Nat
      BY <1>0, <1>1, BoundsAssumption DEF NumberTypes
    <2>2. subCalls' \in Nat /\ sent' \in Nat /\ ungated' \in Nat
      BY <1>0, <1>1, BoundsAssumption DEF NumberTypes, callVars, Charge, Dial
    <2>3. idx' \in Nat \ {0} /\ asked' \in Nat
      BY <1>0, <1>1 DEF NumberTypes
    <2>4. inflight' \in BOOLEAN
      BY <1>0, <1>1, Zenon DEF NumberTypes
    <2>5. QED
      BY <2>1, <2>2, <2>3, <2>4 DEF NumberTypes
  <1>2. CASE MainMove
    <2>1. ASSUME NEW cap \in Caps, Execute(cap) PROVE NumberTypes'
      BY <1>1, <2>1 DEF Execute, phaseVars
    <2>2. CASE PhaseCall
      BY <1>1, <2>2 DEF PhaseCall, GatedCall, runVars
    <2>3. CASE RejectGoal \/ AcceptGoal
      BY <1>1, <2>3 DEF RejectGoal, AcceptGoal, phaseVars
    <2>4. CASE PhaseRefused \/ PhaseCorrects \/ PhaseFails
      BY <1>1, <2>4 DEF PhaseRefused, PhaseCorrects, PhaseFails, PhaseFallback,
         NextPhaseCandidate, FailPhase, runVars
    <2>5. CASE PlanReady \/ AnswerReady \/ VerifyCall \/ VerifyDone
      BY <1>1, <2>5 DEF PlanReady, AnswerReady, VerifyCall, UngatedCall,
         VerifyDone, runVars
    <2>6. CASE StartWave \/ EndSchedule \/ Gather \/ EndCancelled
      BY <1>1, <2>6 DEF StartWave, EndSchedule, Gather, EndCancelled, phaseVars
    <2>7. CASE CancelPhase \/ Settled \/ UNCHANGED vars
      BY <1>1, <2>7 DEF CancelPhase, Settled, vars, phaseVars, runVars
    <2>8. QED
      BY <1>2, <2>1, <2>2, <2>3, <2>4, <2>5, <2>6, <2>7 DEF MainMove, MainStep
  <1>3. ASSUME NEW t \in Task, TaskMove(t) PROVE NumberTypes'
    <2>1. UNCHANGED <<subCap, phaseVars>>
      BY <1>3, TaskFrame DEF runVars
    <2>2. CASE Dispatch(t)
      BY <1>1, <2>1, <2>2 DEF Dispatch, GatedCall, UngatedCall, phaseVars
    <2>3. CASE UNCHANGED callVars
      BY <1>1, <2>1, <2>3 DEF phaseVars
    <2>4. QED
      BY <1>3, <2>2, <2>3
         DEF TaskMove, RouteTask, RefuseTask, Acquire, Succeed, Pauses,
             AgentTurn, BackOff, Wake, GivesUp, Unwind
  <1>4. CASE CancelWave
    BY <1>1, <1>4 DEF CancelWave, phaseVars
  <1>5. QED
    BY <1>2, <1>3, <1>4, StepShape

LEMMA TaskTypesStep == IInv /\ [Next]_vars => TaskTypes'
  <1> SUFFICES ASSUME IInv, [Next]_vars PROVE TaskTypes'
    OBVIOUS
  <1>0. TypeOK /\ TaskTypes
    BY DEF IInv, TypeOK, TaskTypes
  <1>1. CASE MainMove
    BY <1>0, <1>1, MainFrame DEF TaskTypes, traceVars, taskVars
  <1>2. ASSUME NEW t \in Task, TaskMove(t) PROVE TaskTypes'
    <2>1. pc' \in [Task -> Places] /\ log' \in [Task -> Seq(Entries)]
      BY <1>0, <1>2, TaskPlaces, TaskNotes
    <2>2. CASE RouteTask(t)
      BY <1>0, <2>1, <2>2 DEF TaskTypes, RouteTask, traceVars
    <2>3. CASE RefuseTask(t)
      BY <1>0, <2>1, <2>3 DEF TaskTypes, RefuseTask, Blame, Errors
    <2>4. CASE Acquire(t) \/ Dispatch(t) \/ Unwind(t)
      BY <1>0, <2>1, <2>4 DEF TaskTypes, Acquire, Dispatch, Unwind, traceVars
    <2>5. CASE Succeed(t)
      <3>1. Current(t) \in Model
        BY <2>5, CurrentIsModel DEF Succeed, At
      <3>2. QED
        BY <1>0, <2>1, <2>5, <3>1 DEF TaskTypes, Succeed
    <2>6. CASE AgentTurn(t) \/ BackOff(t)
      <3>1. /\ tries' \in [Task -> Nat]
            /\ \A s \in Task :
                 tries'[s] <= IF s \in Agentic THEN MaxTurns ELSE MaxRetries
        <4>1. CASE BackOff(t)
          BY <1>0, <4>1 DEF TaskTypes, BackOff
        <4>2. CASE AgentTurn(t)
          <5>1. t \in Agentic /\ tries[t] < MaxTurns /\ tries' = [tries EXCEPT ![t] = @ + 1]
            BY <4>2 DEF AgentTurn
          <5>2. QED
            BY <1>0, <5>1, BoundsAssumption DEF TaskTypes
        <4>3. QED
          BY <2>6, <4>1, <4>2
      <3>2. QED
        BY <1>0, <2>1, <2>6, <3>1
           DEF TaskTypes, AgentTurn, BackOff, Blame, Errors, traceVars
    <2>7. CASE Wake(t)
      <3>1. t \notin Agentic /\ tries[t] < MaxRetries
        BY <2>7 DEF Wake, At, IInv, CandidatesInv
      <3>2. /\ tries' \in [Task -> Nat]
            /\ \A s \in Task :
                 tries'[s] <= IF s \in Agentic THEN MaxTurns ELSE MaxRetries
        BY <1>0, <2>7, <3>1, BoundsAssumption DEF TaskTypes, Wake
      <3>3. QED
        BY <1>0, <2>1, <2>7, <3>2 DEF TaskTypes, Wake, traceVars
    <2>8. CASE GivesUp(t)
      <3>1. Current(t) \in Model
        BY <2>8, CurrentIsModel DEF GivesUp, At
      <3>2. PICK why \in Errors : Reroute(t, why) \/ FailTask(t, why)
        BY <2>8 DEF GivesUp
      <3>3. CASE FailTask(t, why)
        BY <1>0, <2>1, <3>3 DEF TaskTypes, FailTask, Blame
      <3>4. CASE Reroute(t, why)
        <4>1. Append(trail[t], Current(t)) \in Seq(Model)
          BY <1>0, <3>1 DEF TaskTypes
        <4>2. trail' \in [Task -> Seq(Model)]
          BY <1>0, <3>4, <4>1 DEF TaskTypes, Reroute
        <4>3. /\ cand' \in [Task -> Nat \ {0}] /\ tries' \in [Task -> Nat]
              /\ \A s \in Task :
                   tries'[s] <= IF s \in Agentic THEN MaxTurns ELSE MaxRetries
          BY SMTT(30), <1>0, <3>4, BoundsAssumption DEF TaskTypes, Reroute
        <4>4. QED
          BY <1>0, <2>1, <3>4, <4>2, <4>3 DEF TaskTypes, Reroute, Blame
      <3>5. QED
        BY <3>2, <3>3, <3>4
    <2>9. QED
      BY <1>2, <2>2, <2>3, <2>4, <2>5, <2>6, <2>7, <2>8 DEF TaskMove, Pauses
  <1>3. CASE CancelWave
    BY <1>0, <1>3, CancelShape DEF TaskTypes, traceVars
  <1>4. QED
    BY <1>1, <1>2, <1>3, StepShape

(* A permit is given back only by a task that holds one, so the count      *)
(* stays between zero and the fan-out.                                     *)
LEMMA SlotsType ==
  ASSUME IInv, [Next]_vars
  PROVE  slots' \in 0..FanOut
  <1>1. SlotsConserved' /\ IsFiniteSet(InSemaphore')
    BY SlotsStep, FS_Subset, TasksAssumption DEF InSemaphore
  <1>2. Cardinality(InSemaphore') \in Nat
    BY <1>1, FS_CardinalityType
  <1>3. slots' \in Nat
    <2>1. slots \in Nat
      BY BoundsAssumption DEF IInv, TypeOK
    <2> DEFINE OneStep == \/ slots' = slots
                          \/ slots > 0 /\ slots' = slots - 1
                          \/ slots' = slots + 1
    <2>2. OneStep
      <3>1. ASSUME NEW t \in Task, TaskMove(t) PROVE OneStep
        BY <3>1 DEF TaskMove, RouteTask, RefuseTask, Acquire, Dispatch, Succeed,
           Pauses, AgentTurn, BackOff, Wake, GivesUp, Reroute, FailTask, Unwind,
           ReleaseSlot
      <3>2. QED
        BY <3>1, StepShape, MainFrame DEF taskVars, CancelWave
    <2>3. QED
      BY <2>1, <2>2
  <1>4. QED
    BY <1>1, <1>2, <1>3, BoundsAssumption DEF SlotsConserved

LEMMA StepIInv == IInv /\ [Next]_vars => IInv'
  <1> SUFFICES ASSUME IInv, [Next]_vars PROVE IInv'
    OBVIOUS
  <1>1. RunTypes' /\ NumberTypes' /\ TaskTypes' /\ slots' \in 0..FanOut
    BY RunTypesStep, NumberTypesStep, TaskTypesStep, SlotsType
  <1>2. TypeOK'
    BY <1>1 DEF TypeOK, RunTypes, NumberTypes, TaskTypes
  <1>3. QED
    BY <1>2, SlotsStep, CandidatesStep, PhaseStep, TasksStep, CallsStep DEF IInv

LEMMA InductiveInvariant == Spec => []IInv
  BY InitIInv, StepIInv, PTL DEF Spec

-----------------------------------------------------------------------------
(* What Runtime guarantees, from the inductive invariant. *)

(* Every variable keeps its type, whatever the goal meets on its way       *)
(* through aexecute.                                                       *)
THEOREM TypeCorrect == Spec => []TypeOK
  <1>1. IInv => TypeOK
    BY DEF IInv
  <1>2. QED
    BY <1>1, InductiveInvariant, PTL

(* The counter of _before_model_call is the number of gated subscription   *)
(* calls really made, and stays within the allowance, however many tasks   *)
(* share it.                                                               *)
THEOREM CapRespected == Spec => []CallsCounted
  <1>1. IInv => CallsCounted
    BY DEF IInv, CallsInv
  <1>2. QED
    BY <1>1, InductiveInvariant, PTL

(* No permit of the fan-out semaphore leaks or is given back twice in      *)
(* _run_task, whichever way a task leaves it.                              *)
THEOREM PermitsConserved == Spec => []SlotsConserved
  <1>1. IInv => SlotsConserved
    BY DEF IInv
  <1>2. QED
    BY <1>1, InductiveInvariant, PTL

(* A task of a wave is started only over delivered dependencies.           *)
THEOREM NoTaskAhead == Spec => []DependenciesDelivered
  <1>1. IInv => DependenciesDelivered
    <2> SUFFICES ASSUME IInv, NEW t \in Task, pc[t] # "idle"
                 PROVE  t \in DOMAIN plan /\ plan[t] \subseteq Delivered
      BY DEF DependenciesDelivered
    <2>1. t \in DOMAIN plan /\ plan[t] \subseteq done
      BY DEF IInv, TasksInv, TypeOK
    <2>2. done \subseteq Delivered
      BY PlansAssumption DEF IInv, TasksInv, TypeOK, NoPlan, Delivered
    <2>3. QED
      BY <2>1, <2>2
  <1>2. QED
    BY <1>1, InductiveInvariant, PTL

(* asyncio.gather holds the outcome back until the last sibling is done.   *)
THEOREM NoStraggler == Spec => []NobodyWorksAfterResult
  <1>1. IInv => NobodyWorksAfterResult
    BY PlansAssumption DEF IInv, TypeOK, NoPlan, PhaseInv, TasksInv,
       NobodyWorksAfterResult, Places, Unfinished, Cancelled
  <1>2. QED
    BY <1>1, InductiveInvariant, PTL

-----------------------------------------------------------------------------
(* The outcome.                                                            *)

(* Once there is a RunResult nothing moves any more.                       *)
LEMMA NothingAfterResult ==
  ASSUME IInv, [Next]_vars, result # NoResult
  PROVE  UNCHANGED vars
  <1>1. used /\ phase = "over" /\ ~inflight
    BY DEF IInv, PhaseInv
  <1>2. ASSUME NEW t \in Task, TaskMove(t) PROVE FALSE
    <2>1. pc[t] # "unwinding" /\ ~Cancelled
      BY DEF IInv, TasksInv, Cancelled
    <2>2. t \in wave /\ pc[t] \in Unfinished
      BY <1>2, <2>1, TaskPlaces DEF IInv
    <2>3. QED
      BY <1>1, <2>2 DEF IInv, TasksInv
  <1>3. ~CancelWave
    BY <1>1 DEF CancelWave
  <1>4. MainMove => UNCHANGED vars
    BY <1>1 DEF MainMove, MainStep, Execute, RejectGoal, AcceptGoal, PhaseCall,
       PhaseRefused, PhaseCorrects, PhaseFails, InPhase, PlanReady, AnswerReady,
       VerifyCall, VerifyDone, StartWave, EndSchedule, Gather, EndCancelled,
       CancelPhase, Settled
  <1>5. QED
    BY <1>2, <1>3, <1>4, StepShape

(* Who may set the RunResult, and with what.                               *)
LEMMA ResultSet ==
  ASSUME IInv, [Next]_vars, result' # result
  PROVE  /\ UNCHANGED <<plan, wave, callVars, pc, log>>
         /\ \/ \E failed \in {"__planning__", "__synthesis__"} : Finish("failed", failed)
            \/ /\ phase \in {"synthesis", "verify"}
               /\ Finish("success", "none")
            \/ /\ phase = "wave" /\ WaveOver
               /\ \E t \in wave : pc[t] = "failed"
               /\ Finish("failed", FirstFailed)
            \/ phase = "schedule" /\ SchedulerStuck
  <1>1. ~\E t \in Task : TaskMove(t)
    BY TaskFrame DEF runVars
  <1>2. ~CancelWave
    BY DEF CancelWave
  <1>3. MainMove /\ UNCHANGED <<pc, log>>
    BY <1>1, <1>2, StepShape, MainFrame DEF taskVars, traceVars
  <1>4. CASE RejectGoal
    BY <1>3, <1>4 DEF RejectGoal
  <1>5. CASE PhaseRefused \/ PhaseFails
    BY <1>3, <1>5 DEF PhaseRefused, PhaseFails, PhaseFallback,
       NextPhaseCandidate, FailPhase
  <1>6. CASE AnswerReady \/ VerifyDone
    BY <1>3, <1>6 DEF AnswerReady, VerifyDone
  <1>7. CASE EndSchedule
    BY <1>3, <1>7 DEF EndSchedule, SchedulerStuck, AllTasksDone
  <1>8. CASE Gather
    BY <1>3, <1>8 DEF Gather, GatherFails, GatherSucceeds
  <1>9. QED
    BY <1>3, <1>4, <1>5, <1>6, <1>7, <1>8
       DEF MainMove, MainStep, Execute, AcceptGoal, PhaseCall, PhaseCorrects,
           PlanReady, VerifyCall, StartWave, EndCancelled, CancelPhase, Settled,
           vars, runVars

(* In an acyclic plan a task with every dependency done is always left.    *)
LEMMA NeverStuck ==
  ASSUME IInv, phase = "schedule"
  PROVE  ~SchedulerStuck
  <1> SUFFICES ASSUME done # DOMAIN plan PROVE Runnable(done) # {}
    BY DEF SchedulerStuck
  <1> DEFINE Left == DOMAIN plan \ done
  <1>1. plan \in Plans /\ done \subseteq DOMAIN plan
    BY DEF IInv, PhaseInv, TypeOK
  <1>2. Left # {} /\ Left \in SUBSET DOMAIN plan
    BY <1>1
  <1>3. PICK t \in Left : plan[t] \cap Left = {}
    BY <1>1, <1>2, PlansAssumption DEF Acyclic
  <1>4. plan[t] \subseteq DOMAIN plan
    BY <1>1, <1>3, PlansAssumption
  <1>5. t \in Runnable(done)
    BY <1>3, <1>4 DEF Runnable
  <1>6. QED
    BY <1>5

(* With a plan validate_plan accepts the scheduler_deadlock outcome is     *)
(* never reached, whatever succeeds, in whatever order.                    *)
THEOREM NoSchedulerDeadlock == Spec => []SchedulerNeverStuck
  <1>1. Init => SchedulerNeverStuck
    BY DEF Init, SchedulerNeverStuck
  <1>2. IInv /\ SchedulerNeverStuck /\ [Next]_vars => SchedulerNeverStuck'
    <2> SUFFICES ASSUME IInv, SchedulerNeverStuck, [Next]_vars
                 PROVE  SchedulerNeverStuck'
      OBVIOUS
    <2>1. CASE result' = result
      BY <2>1 DEF SchedulerNeverStuck
    <2>2. CASE result' # result
      <3>1. CASE phase = "wave" /\ \E t \in wave : pc[t] = "failed"
        <4>1. FirstFailed \in Task
          BY <3>1, FirstFailedInWave, PlansAssumption DEF IInv, TypeOK, NoPlan
        <4>2. QED
          BY <2>2, <3>1, <4>1, ResultSet, TasksAssumption
             DEF SchedulerNeverStuck, Finish, SchedulerStuck
      <3>2. QED
        BY <2>2, <3>1, ResultSet, NeverStuck DEF SchedulerNeverStuck, Finish
    <2>3. QED
      BY <2>1, <2>2
  <1>3. QED
    BY <1>1, <1>2, InductiveInvariant, PTL DEF Spec

(* The RunResult of _finalize tells which tasks succeeded, how many calls  *)
(* were charged, and which task failed first in the order of the plan.     *)
THEOREM ResultHolds == Spec => []ResultTrue
  <1>1. Init => ResultTrue
    BY DEF Init, ResultTrue
  <1>2. IInv /\ ResultTrue /\ [Next]_vars => ResultTrue'
    <2> SUFFICES ASSUME IInv, ResultTrue, [Next]_vars, result' # NoResult
                 PROVE  ResultTrue'
      BY DEF ResultTrue
    <2>1. CASE result # NoResult
      BY <2>1, NothingAfterResult DEF ResultTrue, vars, runVars, callVars, taskVars
    <2>2. CASE result = NoResult
      <3>0. result' # result
        BY <2>2
      <3>1. UNCHANGED <<plan, wave, callVars, pc, log>>
        BY <3>0, ResultSet
      <3>2. Delivered = {t \in Task : pc[t] = "ok"}
        BY DEF IInv, TasksInv, Delivered
      <3>3. result'.calls = subCalls' /\ result'.artifacts = {t \in Task : pc'[t] = "ok"}
        BY <3>0, <3>1, <3>2, ResultSet DEF Finish, SchedulerStuck, callVars
      <3>4. ASSUME result'.status = "success"
            PROVE  plan' # NoPlan /\ result'.artifacts = DOMAIN plan'
        <4>1. phase \in {"synthesis", "verify"}
          BY <3>0, <3>4, ResultSet DEF Finish, SchedulerStuck
        <4>2. plan \in Plans /\ done = DOMAIN plan
          BY <4>1 DEF IInv, PhaseInv
        <4>3. plan # NoPlan /\ DOMAIN plan \subseteq Task
          BY <4>2, PlansAssumption DEF NoPlan
        <4>4. {t \in Task : pc[t] = "ok"} = DOMAIN plan
          BY <4>2, <4>3 DEF IInv, TasksInv, TypeOK
        <4>5. QED
          BY <3>1, <3>3, <4>3, <4>4
      <3>5. ASSUME result'.failed \in Task
            PROVE  /\ pc[result'.failed] = "failed"
                   /\ \A s \in wave : Position[s] < Position[result'.failed] => pc[s] = "ok"
        <4>1. /\ WaveOver /\ result'.failed = FirstFailed
              /\ \E t \in wave : pc[t] = "failed"
          BY <3>0, <3>5, ResultSet, TasksAssumption DEF Finish, SchedulerStuck
        <4>2. /\ FirstFailed \in wave /\ pc[FirstFailed] = "failed"
              /\ \A s \in wave : pc[s] = "failed" => Position[FirstFailed] <= Position[s]
          BY <4>1, FirstFailedInWave DEF IInv
        <4>3. \A s \in wave : Position[s] \in Nat
          BY PlansAssumption, TasksAssumption DEF IInv, TypeOK, NoPlan
        <4>4. \A s \in wave : Position[s] < Position[FirstFailed] => pc[s] # "failed"
          BY <4>2, <4>3
        <4>5. QED
          BY <4>1, <4>2, <4>4 DEF WaveOver
      <3>6. QED
        BY <3>1, <3>3, <3>4, <3>5 DEF ResultTrue
    <2>3. QED
      BY <2>1, <2>2
  <1>3. QED
    BY <1>1, <1>2, InductiveInvariant, PTL DEF Spec

(* The RunResult of Runtime tells the truth about its tasks, it comes when  *)
(* the last coroutine of the wave has ended, and no accepted plan gets     *)
(* stuck in the scheduler.                                                 *)
THEOREM OutcomeTrue == Spec => []OutcomeAccounts
BY ResultHolds, NoStraggler, NoSchedulerDeadlock, PTL DEF OutcomeAccounts

(* A task that another model could have saved fails only past its last     *)
(* candidate (a blank agentic answer excepted): _run_task_body and         *)
(* _run_agentic never drop the rest of a ranking.                          *)
THEOREM RankingUsedUp == Spec => []FailsOnlyWhenExhausted
  <1>1. Init => FailsOnlyWhenExhausted
    BY DEF Init, FailsOnlyWhenExhausted
  <1>2. IInv /\ FailsOnlyWhenExhausted /\ [Next]_vars => FailsOnlyWhenExhausted'
    <2> SUFFICES ASSUME IInv, FailsOnlyWhenExhausted, [Next]_vars
                 PROVE  FailsOnlyWhenExhausted'
      OBVIOUS
    <2>0. TypeOK
      BY DEF IInv
    <2> USE DEF FailsOnlyWhenExhausted, Reroutable
    <2>1. CASE MainMove
      BY <2>1, MainFrame DEF taskVars
    <2>2. ASSUME NEW t \in Task, TaskStep(t) \/ Unwind(t)
          PROVE  FailsOnlyWhenExhausted'
      <3> USE <2>0 DEF TypeOK, At, Goto, Blame, Abandon, FailTask, Reroute
      <3>1. CASE RouteTask(t) \/ Acquire(t) \/ Dispatch(t) \/ Succeed(t)
        BY <3>1 DEF RouteTask, Acquire, Dispatch, Succeed
      <3>2. CASE AgentTurn(t) \/ BackOff(t) \/ Wake(t) \/ Unwind(t)
        BY <3>2 DEF AgentTurn, BackOff, Wake, Unwind
      <3>3. CASE RefuseTask(t) \/ TaskCrashes(t) \/ SemanticFailure(t)
        <4>1. CASE RefuseTask(t)
          BY <4>1 DEF RefuseTask
        <4>2. CASE TaskCrashes(t)
          BY <4>2 DEF TaskCrashes
        <4>3. CASE SemanticFailure(t)
          BY <4>3 DEF SemanticFailure
        <4>4. QED
          BY <3>3, <4>1, <4>2, <4>3
      <3>4. CASE Refused(t) \/ Unavailable(t) \/ GiveUpRetrying(t)
        BY <3>4 DEF Refused, Unavailable, GiveUpRetrying
      <3>5. CASE BlankAnswer(t)
        BY ZenonT(40), <3>5 DEF BlankAnswer
      <3>6. QED
        BY <2>2, <3>1, <3>2, <3>3, <3>4, <3>5 DEF TaskStep
    <2>3. CASE CancelWave
      BY <2>0, <2>3, CancelShape DEF InSlot
    <2>4. QED
      BY <2>1, <2>2, <2>3 DEF Next, Progress, MainMove
  <1>3. QED
    BY <1>1, <1>2, InductiveInvariant, PTL DEF Spec

-----------------------------------------------------------------------------
(* What a step may never do.                                               *)

(* The environment is read once: neither a second aexecute nor any later   *)
(* step changes the allowance, and the count never goes back.              *)
THEOREM AllowanceNeverMoves == Spec => AllowanceFixed
  <1>1. IInv /\ [Next]_vars =>
          [used => used' /\ subCap' = subCap /\ subCalls' >= subCalls]_vars
    <2> SUFFICES ASSUME IInv, [Next]_vars, used
                 PROVE  used' /\ subCap' = subCap /\ subCalls' >= subCalls
      OBVIOUS
    <2>0. subCalls \in Nat
      BY DEF IInv, TypeOK
    <2>1. CASE MainMove
      <3>1. used' /\ subCap' = subCap
        BY <2>1
           DEF MainMove, MainStep, Execute, RejectGoal, AcceptGoal, PhaseCall,
               PhaseRefused, PhaseCorrects, PhaseFails, PlanReady, AnswerReady,
               VerifyCall, VerifyDone, StartWave, EndSchedule, Gather,
               EndCancelled, CancelPhase, Settled, vars, runVars
      <3>2. subCalls' \in {subCalls, subCalls + 1}
        <4>1. CASE PhaseCall
          BY <4>1 DEF PhaseCall, GatedCall, Charge
        <4>2. CASE ~PhaseCall
          BY <2>1, <4>2
             DEF MainMove, MainStep, Execute, RejectGoal, AcceptGoal,
                 PhaseRefused, PhaseCorrects, PhaseFails, PlanReady, AnswerReady,
                 VerifyCall, UngatedCall, VerifyDone, StartWave, EndSchedule, Gather,
                 EndCancelled, CancelPhase, Settled, vars, callVars
        <4>3. QED
          BY <4>1, <4>2
      <3>3. QED
        BY <2>0, <3>1, <3>2
    <2>2. ASSUME NEW t \in Task, TaskMove(t)
          PROVE  used' /\ subCap' = subCap /\ subCalls' >= subCalls
      <3>1. used' /\ subCap' = subCap
        BY <2>2, TaskFrame DEF runVars
      <3>2. subCalls' \in {subCalls, subCalls + 1}
        BY <2>2 DEF TaskMove, RouteTask, RefuseTask, Acquire, Dispatch, GatedCall,
           UngatedCall, Charge, Succeed, Pauses, AgentTurn, BackOff, Wake, GivesUp, Unwind, callVars
      <3>3. QED
        BY <2>0, <3>1, <3>2
    <2>3. CASE CancelWave
      BY <2>0, <2>3 DEF CancelWave, callVars
    <2>4. QED
      BY <2>1, <2>2, <2>3, StepShape
  <1>2. QED
    BY <1>1, InductiveInvariant, PTL DEF Spec, AllowanceFixed

(* A task's coroutine writes its own records only.                         *)
LEMMA RecordsFrame ==
  ASSUME TypeOK, NEW t \in Task, TaskMove(t), NEW s \in Task, s # t
  PROVE  UNCHANGED <<pc[s], ranked[s], cand[s], trail[s], log[s], executed[s]>>
  <1> USE DEF TypeOK, At, Goto, Note, traceVars
  <1>1. CASE RouteTask(t) \/ RefuseTask(t) \/ Acquire(t) \/ Dispatch(t)
    BY <1>1 DEF RouteTask, RefuseTask, Acquire, Dispatch
  <1>2. CASE Succeed(t) \/ Unwind(t)
    BY <1>2 DEF Succeed, Unwind
  <1>3. CASE Pauses(t)
    BY <1>3 DEF Pauses, AgentTurn, BackOff, Wake
  <1>4. CASE GivesUp(t)
    BY <1>4 DEF GivesUp, Reroute, FailTask
  <1> QED BY <1>1, <1>2, <1>3, <1>4 DEF TaskMove

(* A task at work when there is an outcome: the run was cancelled.         *)
LEMMA LeftAtWork ==
  ASSUME IInv, NEW t \in Task, t \in InSemaphore
  PROVE  t \in wave /\ result = NoResult
  <1>1. t \in wave \cup done /\ t \notin done
    BY DEF IInv, TasksInv, InSemaphore, InSlot
  <1>2. CASE pc[t] = "unwinding"
    BY <1>1, <1>2 DEF IInv, TasksInv, Cancelled
  <1>3. CASE pc[t] \in InSlot
    BY <1>1, <1>3 DEF IInv, TasksInv, InSlot, Unfinished
  <1> QED BY <1>1, <1>2, <1>3 DEF InSemaphore

(* Who may move once aexecute is over, and what it touches.                *)
LEMMA AfterOutcome ==
  ASSUME IInv, phase = "over", NEW t \in Task, TaskMove(t)
  PROVE  /\ t \in InSemaphore
         /\ InSemaphore' \subseteq InSemaphore
         /\ \A s \in Task : s # t => UNCHANGED RecordsOf(s)
  <1>0. TypeOK
    BY DEF IInv
  <1>1. /\ pc[t] \in InSlot \cup {"unwinding"}
        /\ \A s \in Task : s # t => pc'[s] = pc[s]
    BY <1>0, TaskPlaces DEF IInv, TasksInv, Unfinished, InSlot
  <1>2. t \in InSemaphore
    BY <1>1 DEF InSemaphore
  <1>3. InSemaphore' \subseteq InSemaphore
    BY <1>1, <1>2 DEF InSemaphore
  <1>4. \A s \in Task : s # t => UNCHANGED RecordsOf(s)
    BY <1>0, RecordsFrame DEF RecordsOf
  <1> QED BY <1>2, <1>3, <1>4

(* After a RunResult everything is still; after a cancellation only a task *)
(* that was inside its slot in _run_task_body or _run_agentic writes or    *)
(* calls, none enters, and with the last of them gone nothing is called.   *)
THEOREM NothingAfterOutcome == Spec => QuietAfterOutcome
  <1> DEFINE Quiet ==
        /\ UNCHANGED runVars
        /\ result # NoResult => UNCHANGED vars
        /\ InSemaphore' \subseteq InSemaphore
        /\ InSemaphore = {} => UNCHANGED callVars
        /\ \A t \in Task \ InSemaphore : UNCHANGED RecordsOf(t)
  <1>1. ASSUME IInv, [Next]_vars, phase = "over" PROVE Quiet
    <2>1. used /\ ~inflight
      BY <1>1 DEF IInv, PhaseInv
    <2>2. ASSUME NEW t \in Task, TaskMove(t) PROVE Quiet
      <3>1. UNCHANGED runVars
        BY <2>2, TaskFrame
      <3>2. result # NoResult => UNCHANGED vars
        BY <1>1, NothingAfterResult
      <3>3. /\ t \in InSemaphore
            /\ InSemaphore' \subseteq InSemaphore
            /\ \A s \in Task : s # t => UNCHANGED RecordsOf(s)
        BY <1>1, <2>2, AfterOutcome
      <3> QED BY <3>1, <3>2, <3>3
    <2>3. ASSUME MainMove PROVE Quiet
      <3>1. UNCHANGED <<runVars, callVars>>
        BY <1>1, <2>1, <2>3
           DEF MainMove, MainStep, Execute, RejectGoal, AcceptGoal, PhaseCall,
               PhaseRefused, PhaseCorrects, PhaseFails, InPhase, PlanReady,
               AnswerReady, VerifyCall, VerifyDone, StartWave, EndSchedule,
               Gather, EndCancelled, CancelPhase, Settled, vars
      <3>2. UNCHANGED <<traceVars, taskVars>>
        BY <2>3, MainFrame
      <3>3. InSemaphore' = InSemaphore /\ \A t \in Task : UNCHANGED RecordsOf(t)
        BY <3>2 DEF InSemaphore, RecordsOf, traceVars, taskVars
      <3>4. result # NoResult => UNCHANGED vars
        BY <1>1, NothingAfterResult
      <3> QED BY <3>1, <3>3, <3>4
    <2>4. ~CancelWave
      BY <1>1 DEF CancelWave
    <2> QED BY <1>1, <2>2, <2>3, <2>4, StepShape
  <1>2. IInv /\ [Next]_vars => [phase = "over" => Quiet]_vars
    BY <1>1
  <1> QED BY <1>2, InductiveInvariant, PTL DEF Spec, QuietAfterOutcome

-----------------------------------------------------------------------------
(* The contract.  The mapped values Outcome, subCap, subCalls, Delivered   *)
(* and InSemaphore, and plan itself, are all its steps speak of.           *)
mapped == <<Outcome, subCap, subCalls, plan, Delivered, InSemaphore>>

LEMMA DeliveredFrame ==
  ASSUME log' = log
  PROVE  Delivered' = Delivered
  BY DEF Delivered, HasArtifact

(* A step of aexecute under a goal that is open before and after it.       *)
LEMMA StaysOpen ==
  ASSUME used, used', phase # "over", phase' # "over"
  PROVE  Outcome = "open" /\ Outcome' = "open"
  BY DEF Outcome

LEMMA ClosesRun ==
  ASSUME IInv, [Next]_vars, used, used', phase # "over", phase' = "over",
         UNCHANGED <<subCap, subCalls, plan, log, pc>>
  PROVE  Contract!Close
  <1>1. Outcome = "open" /\ Delivered' = Delivered /\ InSemaphore' = InSemaphore
    BY DeliveredFrame DEF Outcome, InSemaphore
  <1>2. result = NoResult
    BY DEF IInv, PhaseInv
  <1>3. CASE result' = NoResult
    BY <1>1, <1>3 DEF Outcome, Contract!Close
  <1>4. CASE result' # NoResult
    <2>1. Outcome' = result'.status
      BY <1>4 DEF Outcome
    <2>2. result'.status \in {"success", "failed"}
      BY <1>2, <1>4, ResultSet DEF Finish, SchedulerStuck
    <2>3. ASSUME result'.status = "success"
          PROVE  plan # NoPlan /\ Delivered = DOMAIN plan
      <3>1. phase \in {"synthesis", "verify"}
        BY <1>2, <1>4, <2>3, ResultSet DEF Finish, SchedulerStuck
      <3>2. plan \in Plans /\ done = DOMAIN plan /\ wave \subseteq done
        BY <3>1 DEF IInv, PhaseInv
      <3>3. plan # NoPlan /\ DOMAIN plan \subseteq Task
        BY <3>2, PlansAssumption DEF NoPlan
      <3>4. \A t \in Task : t \in Delivered <=> t \in DOMAIN plan
        BY <3>2, <3>3 DEF IInv, TasksInv, Delivered
      <3>5. QED
        BY <3>3, <3>4 DEF Delivered
    <2>4. InSemaphore = {}
      <3>1. IInv' /\ pc' = pc
        BY StepIInv
      <3>2. ASSUME NEW t \in Task, t \in InSemaphore PROVE FALSE
        <4>1. pc'[t] \in InSlot \cup {"unwinding"}
          BY <3>1, <3>2 DEF InSemaphore
        <4>2. t \in wave' \cup done' /\ t \notin done'
          BY <3>1, <4>1 DEF IInv, TasksInv, InSlot
        <4> QED BY <1>4, <3>1, <4>1, <4>2
                DEF IInv, TasksInv, Cancelled, InSlot, Unfinished
      <3> QED BY <3>2 DEF InSemaphore
    <2>5. QED
      BY <1>1, <2>1, <2>2, <2>3, <2>4 DEF Contract!Close, Contract!NoPlan, NoPlan
  <1>5. QED
    BY <1>3, <1>4

(* A task inside its slot may go on, in an open run and a cancelled one.   *)
LEMMA WorkerMayWork ==
  ASSUME IInv, NEW t \in Task, t \in InSemaphore
  PROVE  Contract!MayWork
  <1>1. used /\ result = NoResult
    <2>1. t \in wave /\ result = NoResult
      BY LeftAtWork
    <2>2. phase # "fresh"
      BY <2>1 DEF IInv, PhaseInv
    <2> QED BY <2>1, <2>2 DEF IInv, PhaseInv
  <1> QED BY <1>1 DEF Outcome, Contract!MayWork

(* A step of a task that leaves its place alone, as the contract sees it.  *)
LEMMA PlaceFrame ==
  ASSUME TypeOK, NEW t \in Task, TaskMove(t), t \in InSemaphore <=> t \in InSemaphore'
  PROVE  InSemaphore' = InSemaphore
  BY TaskPlaces DEF InSemaphore

LEMMA PlaceLeft ==
  ASSUME TypeOK, NEW t \in Task, TaskMove(t), t \notin InSemaphore'
  PROVE  InSemaphore' = InSemaphore \ {t}
  BY TaskPlaces DEF InSemaphore

(* A task gets its permit: nothing of it is delivered, all it needs is.    *)
LEMMA AcquireImplements ==
  ASSUME IInv, NEW t \in Task, Acquire(t), UNCHANGED <<subCap, plan, Outcome>>
  PROVE  Contract!Start
  <1>0. TypeOK
    BY DEF IInv
  <1>1. t \in wave /\ pc[t] = "queued"
    BY DEF Acquire, At
  <1>2. Outcome = "open"
    BY <1>1 DEF IInv, TasksInv, PhaseInv, Outcome
  <1>3. t \in DOMAIN plan \ (Delivered \cup InSemaphore)
    BY <1>0, <1>1 DEF IInv, TypeOK, TasksInv, Delivered, InSemaphore, InSlot
  <1>4. plan[t] \subseteq Delivered
    BY <1>1, PlansAssumption DEF IInv, TypeOK, TasksInv, Delivered, NoPlan
  <1>5. InSemaphore' = InSemaphore \cup {t}
    BY <1>0 DEF TypeOK, InSemaphore, InSlot, Acquire, At, Goto
  <1>6. UNCHANGED subCalls /\ Delivered' = Delivered
    BY DeliveredFrame DEF Acquire, callVars, traceVars
  <1> QED BY <1>2, <1>3, <1>4, <1>5, <1>6 DEF Contract!Start

(* Every step of a task is a start, a call charged, an artifact delivered, *)
(* an end without one, or nothing the contract sees.                       *)
LEMMA TaskImplements ==
  ASSUME IInv, NEW t \in Task, TaskMove(t)
  PROVE  \/ Contract!Start \/ Contract!Spend \/ Contract!Deliver \/ Contract!Stop
         \/ UNCHANGED mapped
  <1>0. UNCHANGED <<subCap, plan, Outcome>> /\ TypeOK
    BY TaskFrame DEF runVars, Outcome, IInv
  <1>1. CASE Acquire(t)
    BY <1>0, <1>1, AcquireImplements
  <1>2. CASE RouteTask(t) \/ RefuseTask(t) \/ Pauses(t)
    <2>1. InSemaphore' = InSemaphore
      BY <1>0, <1>2 DEF TypeOK, InSemaphore, InSlot, At, Goto, RouteTask,
         RefuseTask, Pauses, AgentTurn, BackOff, Wake
    <2>2. UNCHANGED subCalls
      BY <1>2 DEF RouteTask, RefuseTask, Pauses, AgentTurn, BackOff, Wake, callVars
    <2>3. ~Succeed(t)
      BY <1>0, <1>2 DEF RouteTask, RefuseTask, Pauses, AgentTurn, BackOff, Wake,
         Succeed, At, Goto, TypeOK
    <2>4. Delivered' = Delivered
      BY <2>3, TaskNotes DEF Delivered
    <2> QED BY <1>0, <2>1, <2>2, <2>4 DEF mapped
  <1>3. CASE Dispatch(t)
    <2>1. t \in InSemaphore /\ InSemaphore' = InSemaphore
      BY <1>0, <1>3 DEF TypeOK, InSemaphore, InSlot, At, Goto, Dispatch
    <2>2. Delivered' = Delivered
      BY <1>3, DeliveredFrame DEF Dispatch, traceVars
    <2>3. subCalls' \in {subCalls, subCalls + 1}
          /\ (subCalls' # subCalls => subCalls < subCap)
      BY <1>3 DEF Dispatch, GatedCall, UngatedCall, MayCall, Charge
    <2> QED BY <1>0, <2>1, <2>2, <2>3, WorkerMayWork DEF Contract!Spend, mapped
  <1>4. CASE Succeed(t)
    <2>1. pc[t] = "calling" /\ pc'[t] = "ok" /\ t \in InSemaphore
      BY <1>0, <1>4 DEF Succeed, At, Goto, TypeOK, InSemaphore, InSlot
    <2>2. HasArtifact(t)' /\ \A s \in Task : s # t => (HasArtifact(s)' <=> HasArtifact(s))
      BY <2>1, TaskNotes
    <2>3. Delivered' = Delivered \cup {t}
      BY <2>2 DEF Delivered
    <2>4. t \in InSemaphore \ Delivered
      BY <2>1 DEF IInv, TasksInv, Delivered
    <2>5. InSemaphore' = InSemaphore \ {t}
      BY <1>0, <2>1, PlaceLeft DEF InSemaphore, InSlot
    <2>6. UNCHANGED subCalls
      BY <1>4 DEF Succeed, callVars
    <2> QED BY <1>0, <2>3, <2>4, <2>5, <2>6, WorkerMayWork DEF Contract!Deliver
  <1>5. CASE GivesUp(t) \/ Unwind(t)
    <2>1. t \in InSemaphore /\ UNCHANGED subCalls
      BY <1>5 DEF GivesUp, Unwind, At, InSemaphore, InSlot, callVars
    <2>2. Delivered' = Delivered
      <3>1. ~Succeed(t)
        BY <1>0, <1>5 DEF GivesUp, FailTask, Reroute, Unwind, Succeed, At, Goto, TypeOK
      <3> QED BY <3>1, TaskNotes DEF Delivered
    <2>3. CASE t \in InSemaphore'
      BY <1>0, <2>1, <2>2, <2>3, PlaceFrame DEF mapped
    <2>4. CASE t \notin InSemaphore'
      BY <1>0, <2>1, <2>2, <2>4, PlaceLeft, WorkerMayWork DEF Contract!Stop
    <2> QED BY <2>3, <2>4
  <1> QED BY <1>1, <1>2, <1>3, <1>4, <1>5 DEF TaskMove

(* Every step of aexecute opens, adopts, spends, closes, or is nothing the *)
(* contract sees.                                                          *)
LEMMA MainImplements ==
  ASSUME IInv, [Next]_vars, MainMove
  PROVE  Contract!CNext \/ UNCHANGED mapped
  <1>0. Delivered' = Delivered /\ UNCHANGED <<log, pc, InSemaphore>>
    BY MainFrame, DeliveredFrame DEF traceVars, taskVars, InSemaphore
  <1>1. ASSUME NEW cap \in Caps, Execute(cap) PROVE Contract!Open
    <2>1. phase = "fresh" /\ subCalls = Preflight
      BY <1>1 DEF IInv, PhaseInv, CallsInv, Execute
    <2>2. QED
      BY <1>0, <1>1, <2>1, BoundsAssumption DEF Execute, Outcome, Contract!Open
  <1>2. CASE PlanReady
    BY <1>0, <1>2 DEF IInv, PhaseInv, PlanReady, Outcome, callVars,
       Contract!CNext, Contract!Adopt, Contract!NoPlan, NoPlan
  <1>3. CASE PhaseCall
    BY <1>0, <1>3 DEF IInv, PhaseInv, PhaseCall, InPhase, GatedCall, MayCall,
       Charge, Outcome, runVars, mapped, Contract!CNext, Contract!Spend,
       Contract!MayWork
  <1>4. CASE UNCHANGED <<used, subCap, subCalls, plan>>
    <2>1. CASE used /\ phase # "over" /\ phase' = "over"
      BY <1>0, <1>4, <2>1, ClosesRun DEF Contract!CNext
    <2>2. CASE used /\ phase # "over" /\ phase' # "over"
      BY <1>0, <1>4, <2>2, StaysOpen DEF mapped
    <2>3. CASE phase = "over"
      <3>1. UNCHANGED <<phase, result>>
        BY <1>4, <2>3 DEF IInv, PhaseInv, MainMove, MainStep, Execute, RejectGoal,
           AcceptGoal, PhaseCall, PhaseRefused, PhaseCorrects, PhaseFails, InPhase,
           PlanReady, AnswerReady, VerifyCall, VerifyDone, StartWave, EndSchedule,
           Gather, EndCancelled, CancelPhase, Settled, vars, runVars
      <3>2. QED
        BY <1>0, <1>4, <3>1 DEF mapped, Outcome
    <2>4. CASE ~used
      <3>1. UNCHANGED phase /\ phase = "fresh"
        BY <1>4, <2>4 DEF IInv, PhaseInv, MainMove, MainStep, Execute, RejectGoal,
           AcceptGoal, PhaseCall, PhaseRefused, PhaseCorrects, PhaseFails, InPhase,
           PlanReady, AnswerReady, VerifyCall, VerifyDone, StartWave, EndSchedule,
           Gather, EndCancelled, CancelPhase, Settled, vars, runVars
      <3>2. QED
        BY <1>0, <1>4, <3>1 DEF mapped, Outcome
    <2>5. QED
      BY <2>1, <2>2, <2>3, <2>4
  <1>5. QED
    BY <1>1, <1>2, <1>3, <1>4
       DEF MainMove, MainStep, RejectGoal, AcceptGoal, PhaseRefused,
           PhaseCorrects, PhaseFails, AnswerReady, VerifyCall, UngatedCall,
           VerifyDone, StartWave, EndSchedule, Gather, EndCancelled,
           CancelPhase, Settled, vars, runVars, callVars, Contract!CNext

(* Runtime implements RunContract: one goal and one outcome per object,    *)
(* the allowance fixed and kept, tasks delivered once and in order,        *)
(* success only with all of them, a result only when nobody is at work,    *)
(* and after a cancellation only the tasks it found inside their slot.     *)
THEOREM ContractKept == Spec => KeepsContract
  <1>1. Init => Contract!CInit
    BY BoundsAssumption DEF Init, Outcome, Delivered, HasArtifact, NoPlan,
       InSemaphore, InSlot, Contract!CInit, Contract!NoPlan
  <1>2. IInv /\ [Next]_vars => [Contract!CNext]_(Contract!contractVars)
    <2> SUFFICES ASSUME IInv, [Next]_vars
                 PROVE  Contract!CNext \/ UNCHANGED mapped
      BY DEF mapped, Contract!contractVars
    <2>1. CASE CancelWave
      <3>1. InSemaphore' = InSemaphore
        BY <2>1, CancelShape DEF IInv, InSemaphore, InSlot
      <3> QED BY <2>1, <3>1, StaysOpen, DeliveredFrame
              DEF IInv, PhaseInv, CancelWave, callVars, traceVars, mapped
    <2>2. QED
      BY <2>1, StepShape, MainImplements, TaskImplements DEF Contract!CNext
  <1>3. QED
    BY <1>1, <1>2, InductiveInvariant, PTL DEF Spec, KeepsContract, Contract!CSpec

-----------------------------------------------------------------------------
(* What each task's records are while it walks down its ranking: the trail *)
(* by positions, and no entry but the reroutes until the task ends.        *)
AuditOf(t) ==
  /\ ranked[t] \in Seq(Model) /\ cand[t] - 1 \in 0..Len(ranked[t])
  /\ Len(trail[t]) = cand[t] - 1
  /\ \A i \in 1..(cand[t] - 1) : trail[t][i] = ranked[t][i]
  /\ Len(log[t]) >= cand[t] - 1
  /\ pc[t] \in Unfinished => Len(log[t]) = cand[t] - 1
  /\ \A i \in 1..Len(log[t]) :
       IF i <= cand[t] - 1 THEN log[t][i] = Entry("reroute", trail[t][i])
                           ELSE log[t][i].kind # "reroute"
  /\ executed[t] = IF pc[t] = "ok" THEN Current(t) ELSE Unknown

AuditInv == \A t \in Task : AuditOf(t)

LEMMA AuditInit == Init => AuditInv
  <1> SUFFICES ASSUME Init, NEW t \in Task PROVE AuditOf(t)
    BY DEF AuditInv
  <1>1. /\ ranked[t] = <<>> /\ cand[t] = 1 /\ trail[t] = <<>> /\ log[t] = <<>>
        /\ pc[t] = "idle" /\ executed[t] = Unknown
    BY DEF Init
  <1>2. <<>> \in Seq(Model) /\ Len(<<>>) = 0
    BY EmptySeq
  <1> QED BY <1>1, <1>2 DEF AuditOf

(* A task whose records a step leaves alone, wherever it goes.             *)
LEMMA AuditFrame ==
  ASSUME NEW t \in Task, AuditOf(t),
         UNCHANGED <<ranked[t], cand[t], trail[t], log[t], executed[t]>>,
         pc'[t] = "ok" <=> pc[t] = "ok",
         pc'[t] \in Unfinished => pc[t] \in Unfinished
  PROVE  AuditOf(t)'
  BY DEF AuditOf, Current, Entry

(* The last entry, written as the task ends.                               *)
LEMMA AuditEnds ==
  ASSUME IInv, NEW t \in Task, AuditOf(t), pc[t] \in Unfinished,
         NEW k \in Kinds \ {"reroute"}, NEW m \in Model \cup {Unknown},
         Note(t, <<Entry(k, m)>>), pc'[t] = "failed",
         ranked'[t] = ranked[t] \/ (pc[t] = "idle" /\ ranked'[t] \in Rankings),
         UNCHANGED <<cand[t], trail[t], executed[t]>>
  PROVE  AuditOf(t)'
  <1> DEFINE e == Entry(k, m)
             n == Len(log[t])
  <1>1. e \in Entries /\ e.kind # "reroute"
    BY DEF Entry, Entries
  <1> HIDE DEF e
  <1>2. log \in [Task -> Seq(Entries)] /\ log[t] \in Seq(Entries)
    BY DEF IInv, TypeOK
  <1>3. log'[t] = Append(log[t], e)
    <2>1. log'[t] = log[t] \o <<e>>
      BY <1>2 DEF Note, e
    <2> QED BY <1>1, <1>2, <2>1
  <1>4. /\ n \in Nat /\ Len(log'[t]) = n + 1 /\ log'[t][n + 1] = e
        /\ \A i \in 1..n : log'[t][i] = log[t][i]
    BY <1>1, <1>2, <1>3
  <1>5. ranked'[t] \in Seq(Model) /\ cand[t] - 1 \in 0..Len(ranked'[t])
    <2>1. CASE ranked'[t] = ranked[t]
      BY <2>1 DEF AuditOf
    <2>2. CASE pc[t] = "idle" /\ ranked'[t] \in Rankings
      <3>1. ranked'[t] \in Seq(Model) /\ cand[t] = 1
        BY <2>2, ModelsAssumption DEF IInv, CandidatesInv
      <3> QED BY <3>1
    <2> QED BY <2>1, <2>2
  <1>6. \A i \in 1..(cand[t] - 1) : trail[t][i] = ranked'[t][i]
    <2>1. CASE ranked'[t] = ranked[t]
      BY <2>1 DEF AuditOf
    <2>2. CASE pc[t] = "idle"
      BY <2>2 DEF IInv, CandidatesInv
    <2> QED BY <2>1, <2>2
  <1>7. n = cand[t] - 1 /\ cand[t] \in Nat
    BY DEF AuditOf, IInv, TypeOK
  <1>8. \A i \in 1..(n + 1) :
          IF i <= cand[t] - 1 THEN log'[t][i] = Entry("reroute", trail[t][i])
                              ELSE log'[t][i].kind # "reroute"
    BY SMTT(30), <1>1, <1>4, <1>7 DEF AuditOf
  <1>9. pc[t] # "ok"
    BY DEF Unfinished
  <1>10. Len(trail[t]) = cand[t] - 1 /\ executed[t] = Unknown
    BY <1>9 DEF AuditOf
  <1> HIDE DEF n
  <1>11. Len(log'[t]) >= cand[t] - 1
    BY <1>4, <1>7
  <1> QED BY <1>4, <1>5, <1>6, <1>8, <1>10, <1>11 DEF AuditOf, Unfinished, Entry

LEMMA AuditSucceeds ==
  ASSUME IInv, NEW t \in Task, AuditOf(t), Succeed(t)
  PROVE  AuditOf(t)'
  <1> DEFINE m == Current(t)
             e == Entry("artifact", m)
             f == Entry("success", m)
             n == Len(log[t])
  <1>0. /\ pc[t] = "calling" /\ pc'[t] = "ok" /\ executed'[t] = m
        /\ UNCHANGED <<ranked, cand, trail>>
        /\ log' = [log EXCEPT ![t] = @ \o <<e, f>>]
    BY DEF Succeed, At, Goto, Note, IInv, TypeOK
  <1>1. e \in Entries /\ f \in Entries /\ e.kind # "reroute" /\ f.kind # "reroute"
    BY <1>0, CurrentIsModel DEF Entry, Entries, Kinds
  <1>a. m' = m
    BY <1>0 DEF Current
  <1> HIDE DEF e, f, m
  <1>2. log \in [Task -> Seq(Entries)] /\ log[t] \in Seq(Entries)
    BY DEF IInv, TypeOK
  <1>3. log'[t] = Append(Append(log[t], e), f)
    <2>1. log'[t] = log[t] \o <<e, f>>
      BY <1>0, <1>2
    <2> QED BY <1>1, <1>2, <2>1
  <1>4. /\ n \in Nat /\ Len(log'[t]) = n + 2 /\ log'[t][n + 1] = e /\ log'[t][n + 2] = f
        /\ \A i \in 1..n : log'[t][i] = log[t][i]
    BY <1>1, <1>2, <1>3
  <1>5. n = cand[t] - 1 /\ cand[t] \in Nat
    BY <1>0 DEF AuditOf, IInv, TypeOK, Unfinished
  <1>b. \A i \in 1..n : log[t][i] = Entry("reroute", trail[t][i])
    BY <1>5 DEF AuditOf
  <1> HIDE DEF n
  <1>6. \A i \in 1..(n + 2) :
          IF i <= cand[t] - 1 THEN log'[t][i] = Entry("reroute", trail[t][i])
                              ELSE log'[t][i].kind # "reroute"
    <2> SUFFICES ASSUME NEW i \in 1..(n + 2)
                 PROVE  IF i <= n THEN log'[t][i] = Entry("reroute", trail[t][i])
                                  ELSE log'[t][i].kind # "reroute"
      BY <1>5
    <2>1. i \in 1..n \/ i = n + 1 \/ i = n + 2
      BY <1>4
    <2> QED BY <2>1, <1>1, <1>4, <1>b
  <1>7. Len(log'[t]) >= cand[t] - 1
    BY <1>4, <1>5
  <1>8. executed'[t] = Current(t)'
    BY <1>0, <1>a DEF m
  <1>9. /\ ranked'[t] \in Seq(Model) /\ cand'[t] - 1 \in 0..Len(ranked'[t])
        /\ Len(trail'[t]) = cand'[t] - 1
        /\ \A i \in 1..(cand'[t] - 1) : trail'[t][i] = ranked'[t][i]
    BY <1>0 DEF AuditOf
  <1>10. UNCHANGED <<cand[t], trail[t]>> /\ pc'[t] \notin Unfinished
    BY <1>0 DEF Unfinished
  <1>11. \A i \in 1..Len(log'[t]) :
          IF i <= cand'[t] - 1 THEN log'[t][i] = Entry("reroute", trail'[t][i])
                               ELSE log'[t][i].kind # "reroute"
    BY <1>4, <1>6, <1>10
  <1> QED BY <1>0, <1>7, <1>8, <1>9, <1>10, <1>11 DEF AuditOf, Entry

LEMMA AuditReroutes ==
  ASSUME IInv, NEW t \in Task, AuditOf(t), NEW why, Reroute(t, why),
         pc[t] \in {"ready", "calling"}
  PROVE  AuditOf(t)'
  <1> DEFINE m == Current(t)
             e == Entry("reroute", m)
             n == Len(log[t])
  <1>0. /\ pc'[t] = "ready" /\ cand'[t] = cand[t] + 1 /\ cand[t] < Len(ranked[t])
        /\ UNCHANGED <<ranked, executed>>
        /\ trail' = [trail EXCEPT ![t] = Append(@, m)]
        /\ log' = [log EXCEPT ![t] = @ \o <<e>>]
    BY DEF Reroute, Goto, Note, IInv, TypeOK
  <1>1. m \in Model /\ m = ranked[t][cand[t]] /\ e \in Entries /\ e = Entry("reroute", m)
    BY CurrentIsModel DEF Entry, Entries, Kinds, Current
  <1> HIDE DEF e, m
  <1>2. /\ log \in [Task -> Seq(Entries)] /\ log[t] \in Seq(Entries)
        /\ trail \in [Task -> Seq(Model)] /\ trail[t] \in Seq(Model)
        /\ cand[t] \in Nat \ {0}
    BY DEF IInv, TypeOK
  <1>3. log'[t] = Append(log[t], e) /\ trail'[t] = Append(trail[t], m)
    <2>1. log'[t] = log[t] \o <<e>>
      BY <1>0, <1>2
    <2> QED BY <1>0, <1>1, <1>2, <2>1
  <1>4. /\ n \in Nat /\ Len(log'[t]) = n + 1 /\ log'[t][n + 1] = e
        /\ \A i \in 1..n : log'[t][i] = log[t][i]
    BY <1>1, <1>2, <1>3
  <1>5. n = cand[t] - 1 /\ Len(trail[t]) = n /\ cand[t] = n + 1
    BY <1>2 DEF AuditOf, Unfinished
  <1>6. /\ Len(trail'[t]) = n + 1 /\ trail'[t][n + 1] = m
        /\ \A i \in 1..n : trail'[t][i] = trail[t][i]
    BY <1>1, <1>2, <1>3, <1>5
  <1>7. ranked'[t] \in Seq(Model) /\ cand'[t] - 1 \in 0..Len(ranked'[t])
    BY <1>0, <1>2 DEF AuditOf
  <1>8. \A i \in 1..(n + 1) :
          trail'[t][i] = ranked[t][i] /\ log'[t][i] = Entry("reroute", trail'[t][i])
    <2> SUFFICES ASSUME NEW i \in 1..(n + 1)
                 PROVE  trail'[t][i] = ranked[t][i] /\ log'[t][i] = Entry("reroute", trail'[t][i])
      OBVIOUS
    <2>1. CASE i = n + 1
      BY <2>1, <1>1, <1>4, <1>5, <1>6
    <2>2. CASE i # n + 1
      <3>1. i \in 1..n
        BY <2>2, <1>4
      <3> QED BY <3>1, <1>4, <1>5, <1>6 DEF AuditOf
    <2> QED BY <2>1, <2>2
  <1> HIDE DEF n
  <1>9. cand'[t] - 1 = n + 1 /\ executed[t] = Unknown
    BY <1>0, <1>4, <1>5 DEF AuditOf
  <1>10. \A i \in 1..(cand'[t] - 1) : trail'[t][i] = ranked'[t][i]
    BY <1>0, <1>8, <1>9
  <1>11. \A i \in 1..Len(log'[t]) :
          IF i <= cand'[t] - 1 THEN log'[t][i] = Entry("reroute", trail'[t][i])
                               ELSE log'[t][i].kind # "reroute"
    BY <1>4, <1>8, <1>9
  <1>12. Len(trail'[t]) = cand'[t] - 1 /\ Len(log'[t]) = cand'[t] - 1
    BY <1>4, <1>6, <1>9
  <1>13. Len(log'[t]) >= cand'[t] - 1 /\ executed'[t] = Unknown /\ pc'[t] # "ok"
    BY <1>0, <1>4, <1>9, <1>12
  <1> QED BY <1>7, <1>10, <1>11, <1>12, <1>13 DEF AuditOf, Entry

LEMMA AuditOfTaskMove ==
  ASSUME IInv, AuditInv, NEW t \in Task, TaskMove(t)
  PROVE  AuditOf(t)'
  <1>0. TypeOK /\ AuditOf(t)
    BY DEF IInv, AuditInv
  <1>1. CASE RouteTask(t)
    <2>1. /\ pc[t] = "idle" /\ pc'[t] = "queued" /\ ranked'[t] \in Rankings
          /\ UNCHANGED <<cand, trail, log, executed>>
      BY <1>0, <1>1 DEF RouteTask, At, Goto, TypeOK, traceVars
    <2>2. cand[t] = 1 /\ ranked'[t] \in Seq(Model)
      BY <2>1, ModelsAssumption DEF IInv, CandidatesInv
    <2>3. Len(ranked'[t]) \in Nat
      BY <2>2
    <2> QED BY <1>0, <2>1, <2>2, <2>3 DEF AuditOf, Unfinished, Entry
  <1>2. CASE RefuseTask(t)
    <2>1. /\ pc[t] = "idle" /\ pc'[t] = "failed"
          /\ ranked'[t] = ranked[t] \/ ranked'[t] \in Rankings
          /\ UNCHANGED <<cand, trail, executed>>
      BY <1>0, <1>2 DEF RefuseTask, At, Goto, TypeOK
    <2>2. PICK m \in Model \cup {Unknown} : Note(t, <<Entry("failed", m)>>)
      BY <1>2, FirstRanked DEF RefuseTask
    <2> QED BY <1>0, <2>1, <2>2, AuditEnds DEF Unfinished, Kinds
  <1>3. CASE Acquire(t) \/ Dispatch(t) \/ Pauses(t) \/ Unwind(t)
    <2>1. UNCHANGED <<ranked, cand, trail, log, executed>>
      BY <1>3 DEF Acquire, Dispatch, Pauses, AgentTurn, BackOff, Wake, Unwind, traceVars
    <2>2. pc[t] # "ok" /\ pc'[t] # "ok" /\ (pc'[t] \in Unfinished => pc[t] \in Unfinished)
      BY <1>0, <1>3 DEF Acquire, Dispatch, Pauses, AgentTurn, BackOff, Wake, Unwind, At, Goto,
         TypeOK, Unfinished, InSlot
    <2> QED BY <1>0, <2>1, <2>2, AuditFrame
  <1>4. CASE Succeed(t)
    BY <1>0, <1>4, AuditSucceeds
  <1>5. CASE GivesUp(t)
    <2>1. PICK why \in Errors : Reroute(t, why) \/ FailTask(t, why)
      BY <1>5 DEF GivesUp
    <2>2. pc[t] \in {"ready", "calling"}
      BY <1>5 DEF GivesUp, At
    <2>3. CASE Reroute(t, why)
      BY <1>0, <2>2, <2>3, AuditReroutes
    <2>4. CASE FailTask(t, why)
      <3>1. Named(t, why) \in Model
        BY <2>2, CurrentIsModel
      <3>2. /\ Note(t, <<Entry("failed", Named(t, why))>>) /\ pc'[t] = "failed"
            /\ UNCHANGED <<ranked, cand, trail, executed>>
        BY <1>0, <2>4 DEF FailTask, Goto, TypeOK
      <3> QED BY <1>0, <2>2, <3>1, <3>2, AuditEnds DEF Unfinished, Kinds
    <2> QED BY <2>1, <2>3, <2>4
  <1> QED BY <1>1, <1>2, <1>3, <1>4, <1>5 DEF TaskMove

LEMMA AuditStep == IInv /\ AuditInv /\ [Next]_vars => AuditInv'
  <1> SUFFICES ASSUME IInv, AuditInv, [Next]_vars, NEW s \in Task PROVE AuditOf(s)'
    BY DEF AuditInv
  <1>0. TypeOK /\ AuditOf(s)
    BY DEF IInv, AuditInv
  <1>1. CASE MainMove
    <2>1. UNCHANGED <<pc, ranked, cand, trail, log, executed>>
      BY <1>1, MainFrame DEF traceVars, taskVars
    <2> QED BY <1>0, <2>1, AuditFrame
  <1>2. ASSUME NEW t \in Task, TaskMove(t) PROVE AuditOf(s)'
    <2>1. CASE s = t
      BY <1>2, <2>1, AuditOfTaskMove
    <2>2. CASE s # t
      BY <1>0, <1>2, <2>2, RecordsFrame, AuditFrame
    <2> QED BY <2>1, <2>2
  <1>3. CASE CancelWave
    <2>1. UNCHANGED <<ranked, cand, trail, log, executed>>
      BY <1>3 DEF CancelWave, traceVars
    <2>2. /\ pc'[s] = "ok" <=> pc[s] = "ok"
          /\ pc'[s] \in Unfinished => pc[s] \in Unfinished
      BY <1>0, <1>3, CancelShape DEF InSlot, Unfinished
    <2> QED BY <1>0, <2>1, <2>2, AuditFrame
  <1> QED BY <1>1, <1>2, <1>3, StepShape

(* The trail a reader of the outcome is shown is what happened: the        *)
(* fallback events of _run_task are the candidates passed over, in order,  *)
(* the blackboard says the same, and the executed model is the next one.   *)
THEOREM TrailIsTrue == Spec => []AuditTrail
  <1>1. IInv /\ AuditInv => AuditTrail
    <2> SUFFICES ASSUME IInv, AuditInv, NEW t \in Task
                 PROVE  /\ trail[t] = SubSeq(ranked[t], 1, cand[t] - 1)
                        /\ Len(trail[t]) <= Len(log[t])
                        /\ \A i \in DOMAIN log[t] :
                             IF i <= Len(trail[t]) THEN log[t][i] = Entry("reroute", trail[t][i])
                                                   ELSE log[t][i].kind # "reroute"
                        /\ executed[t] = IF pc[t] = "ok" THEN Current(t) ELSE Unknown
      BY DEF AuditTrail
    <2>1. /\ trail[t] \in Seq(Model) /\ log[t] \in Seq(Entries)
          /\ ranked[t] \in Seq(Model) /\ cand[t] \in Nat \ {0} /\ AuditOf(t)
      BY DEF IInv, TypeOK, AuditInv, AuditOf
    <2>2. trail[t] = SubSeq(ranked[t], 1, cand[t] - 1)
      <3> DEFINE u == SubSeq(ranked[t], 1, cand[t] - 1)
                 v == trail[t]
      <3>1. cand[t] - 1 \in 0..Len(ranked[t]) /\ Len(ranked[t]) \in Nat
        BY <2>1 DEF AuditOf
      <3>2. u \in Seq(Model) /\ Len(u) = cand[t] - 1 /\ \A i \in 1..(cand[t] - 1) : u[i] = ranked[t][i]
        BY <2>1, <3>1
      <3>3. v \in Seq(Model) /\ Len(v) = cand[t] - 1 /\ \A i \in 1..(cand[t] - 1) : v[i] = ranked[t][i]
        BY <2>1 DEF AuditOf
      <3> HIDE DEF u, v
      <3>4. u = v
        BY <3>2, <3>3, SeqEqual
      <3> QED BY <3>4 DEF u, v
    <2>3. DOMAIN log[t] = 1..Len(log[t])
      BY <2>1
    <2> QED BY <2>1, <2>2, <2>3 DEF AuditOf
  <1> QED BY <1>1, AuditInit, AuditStep, InitIInv, StepIInv, PTL DEF Spec

=============================================================================
