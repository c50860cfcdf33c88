-------------------------------- MODULE Bench --------------------------------
(***************************************************************************)
(* The evaluation programs of eval/ and the calibrator they feed.          *)
(*   campaign   calibrate_models.measure: every model answers every goal   *)
(*              k times; calibrate_file turns the scores into profiles     *)
(*   suite      run_suite: three arms answer every goal k times and are    *)
(*              compared                                                   *)
(* Code is graded by Scorer, prose by its rubric.                          *)
(*                                                                         *)
(*   running    the next run is to be made                                 *)
(*   grading    its answer is to be graded                                 *)
(*   scoring    _score_reference is at it                                  *)
(*   measured   the measurements are on disk                               *)
(*   finished   profiles written or refused, or the report printed         *)
(*   lost       an error nobody catches has ended the suite                *)
(***************************************************************************)
EXTENDS Inventory, Scorer

CONSTANTS
  TypeOf,     \* the task type of a goal
  Repo,       \* goals that hand out a project
  Wires,      \* models of one endpoint
  Named,      \* ids a user may give its slot by *_NAME
  MaxRuns,    \* bound: runs of a campaign
  Suites      \* bound: suites, of two rounds at most

ASSUME BenchAssumption ==
  /\ TypeOf \in [Goals -> TaskTypes] /\ Repo \subseteq Goals
  /\ Wires \subseteq Nat /\ Named \subseteq Nat
  /\ MaxRuns \in Nat \ {0}
  /\ \A o \in Suites :
       /\ o.k \in Nat \ {0}
       /\ o.goals \in Seq(Goals) /\ NoDuplicates(o.goals)  \* a task has an id of its own

VARIABLES
  job,          \* "campaign", "suite"
  order,        \* what was asked of it
  bench,        \* see above
  todo,         \* campaign: runs left; suite: goals left, one per round
  runs,         \* campaign: the runs made, in order
  trial,        \* suite: the arms of this round so far
  rows,         \* suite: finished rounds
  report,       \* suite: what it prints, Null before
  spent,        \* history: what the suite's calls cost
  profilesFile  \* the quality profiles file on disk

benchVars == <<job, order, bench, todo, runs, trial, rows, spent, report, profilesFile>>

NoFile == [kind |-> "none"]
Arms == <<"baseline", "orchestration", "agentic">>
Tie == 0                     \* arms are known by their place
Plain == {g \in Goals \ Repo : TypeOf[g] = "code"}   \* EVAL_SUITE

(* The ids of bootstrap.py: a prefix for the family, and the wire name. *)
CompatId(wire) == 200 + wire

(* Mutant: the convention of its own that the code once had. *)
ModelIdForOwn(name, wire) == CompatId(wire)

(* model_id_for *)
ModelIdFor(name, wire) == IF name = Null THEN CompatId(wire) ELSE name

-----------------------------------------------------------------------------
(* [wire, goal] of the loops of measure, the runs of a goal together. *)
Campaign(o) ==
  LET goals == SetToSeq({g \in Goals \ Repo : o.only \in {Null, TypeOf[g]}})
      n == Len(goals) * o.k
  IN  [i \in 1..(Len(o.wires) * n) |->
         [wire |-> o.wires[(i - 1) \div n + 1], goal |-> goals[((i - 1) % n) \div o.k + 1]]]
Suite(o) == [i \in 1..(Len(o.goals) * o.k) |-> o.goals[(i - 1) \div o.k + 1]]

CampaignOrders ==
  {o \in [wires : {<<w>> : w \in Wires} \cup {<<v, w>> : v, w \in Wires},
          name : Named \cup {Null}, only : TaskTypes \cup {Null}, k : 1..2] :
     NoDuplicates(o.wires) /\ Len(Campaign(o)) \in 1..MaxRuns}
BenchInit ==
  /\ ScorerInit
  /\ \/ job = "campaign" /\ order \in CampaignOrders /\ todo = Campaign(order)
     \/ job = "suite" /\ order \in Suites /\ todo = Suite(order)
  /\ bench = "running"
  /\ runs = <<>> /\ trial = <<>> /\ rows = <<>>
  /\ spent = 0 /\ report = Null
  /\ profilesFile = NoFile

-----------------------------------------------------------------------------
(* The campaign. *)

(* One answer in the measurements. *)
Observed(score) ==
  /\ runs' = Append(runs, [wire |-> Head(todo).wire, goal |-> Head(todo).goal, score |-> score])
  /\ todo' = Tail(todo)
  /\ bench' = "running"

(* run_baseline, whose errors are caught and written down as null. *)
AsksModel ==
  /\ job = "campaign" /\ bench = "running" /\ todo # <<>>
  /\ \/ Observed(Null)
     \/ bench' = "grading" /\ UNCHANGED <<runs, todo>>
  /\ UNCHANGED <<scorerVars, job, order, trial, rows, spent, report, profilesFile>>

(* score_text over a rubric of one thing to say and one to leave out; a    *)
(* check that raises counts as failed.                                     *)
Rubric == <<"present", "absent">>
ScoreText(hits) ==
  LET satisfied == {i \in DOMAIN Rubric :
                      hits[i] = IF Rubric[i] = "absent" THEN "miss" ELSE "hit"}
  IN  (100 * Cardinality(satisfied)) \div Len(Rubric)

GradesProse ==
  /\ job = "campaign" /\ bench = "grading" /\ TypeOf[Head(todo).goal] # "code"
  /\ \E hits \in [DOMAIN Rubric -> {"hit", "miss", "raises"}] : Observed(ScoreText(hits))
  /\ UNCHANGED <<scorerVars, job, order, trial, rows, spent, report, profilesFile>>

SendsToScorer ==
  /\ job = "campaign" /\ bench = "grading" /\ TypeOf[Head(todo).goal] = "code"
  /\ ScoreStarts
  /\ bench' = "scoring"
  /\ UNCHANGED <<job, order, todo, runs, trial, rows, spent, report, profilesFile>>

(* score_for_calibration *)
ScoreForCalibration(g) == IF g.measured THEN g.score ELSE Null

TakesGrade ==
  /\ job = "campaign" /\ bench = "scoring"
  /\ GradeTaken
  /\ Observed(ScoreForCalibration(grade))
  /\ UNCHANGED <<job, order, trial, rows, spent, report, profilesFile>>

(* measurements[model_id] = by_type: the last model under an id stays. *)
ByType(wire) ==
  LET ofWire == {i \in DOMAIN runs : runs[i].wire = wire} IN
  [t \in {TypeOf[runs[i].goal] : i \in ofWire} |->
     [i \in {j \in ofWire : TypeOf[runs[j].goal] = t} |->
        [goal |-> runs[i].goal, score |-> runs[i].score]]]
LastUnder(id) ==
  LET i == Max({j \in DOMAIN order.wires : ModelIdFor(order.name, order.wires[j]) = id})
  IN  order.wires[i]
Measurements ==
  [id \in {ModelIdFor(order.name, order.wires[j]) : j \in DOMAIN order.wires} |->
     ByType(LastUnder(id))]

WritesMeasurements ==
  /\ job = "campaign" /\ bench = "running" /\ todo = <<>>
  /\ bench' = "measured"
  /\ UNCHANGED <<scorerVars, job, order, todo, runs, trial, rows, spent, report, profilesFile>>

(* calibrate_file: what was on disk is replaced before it is read back. *)
Calibrates ==
  /\ bench = "measured"
  /\ bench' = "finished"
  /\ profilesFile' =
       IF Calibratable(Measurements)
       THEN [kind |-> "profiles", of |-> BuildProfiles(Measurements)]
       ELSE profilesFile
  /\ UNCHANGED <<scorerVars, job, order, todo, runs, trial, rows, spent, report>>

CampaignStep ==
  \/ AsksModel \/ GradesProse \/ SendsToScorer \/ TakesGrade
  \/ WritesMeasurements \/ Calibrates

-----------------------------------------------------------------------------
(* The suite. *)

(* What an arm leaves to grade: the extras (tests, a README) it wrote with *)
(* the code, what its calls cost, whether the agentic loop gave up.        *)
Left(arm, goal) ==
  [extras : IF goal \in Repo THEN {0} ELSE 0..2,
   cost : [baseline |-> {1}, orchestration |-> {2}, agentic |-> 1..2][arm],
   error : IF arm = "agentic" THEN BOOLEAN ELSE {FALSE},
   code : {Null}, measured : {FALSE}]

ArmRuns ==
  /\ job = "suite" /\ bench = "running" /\ todo # <<>> /\ Len(trial) < Len(Arms)
  /\ \E left \in Left(Arms[Len(trial) + 1], Head(todo)) :
       /\ left.error => left.cost = 2          \* bound: giving up is the dear way
       /\ trial' = Append(trial, left)
       /\ spent' = spent + left.cost
  /\ UNCHANGED <<scorerVars, job, order, bench, todo, runs, rows, report, profilesFile>>

(* run_suite does not guard the baseline's call. *)
BaselineRaises ==
  /\ job = "suite" /\ bench = "running" /\ todo # <<>> /\ trial = <<>>
  /\ bench' = "lost"
  /\ UNCHANGED <<scorerVars, job, order, todo, runs, trial, rows, spent, report, profilesFile>>

(* score_task and score_agentic, one arm after the other. *)
Ungraded == {i \in DOMAIN trial : trial[i].code = Null}

GradesArm ==
  /\ job = "suite" /\ bench = "running" /\ Len(trial) = Len(Arms) /\ Ungraded # {}
  /\ ScoreStarts
  /\ bench' = "scoring"
  /\ UNCHANGED <<job, order, todo, runs, trial, rows, spent, report, profilesFile>>

TakesArmGrade ==
  /\ job = "suite" /\ bench = "scoring"
  /\ GradeTaken
  /\ trial' = [trial EXCEPT ![Min(Ungraded)].code = grade.score,
                            ![Min(Ungraded)].measured = grade.measured]
  /\ bench' = "running"
  /\ UNCHANGED <<job, order, todo, runs, rows, spent, report, profilesFile>>

EndsRound ==
  /\ job = "suite" /\ bench = "running" /\ Len(trial) = Len(Arms) /\ Ungraded = {}
  /\ rows' = Append(rows, [goal |-> Head(todo), arms |-> trial])
  /\ trial' = <<>>
  /\ todo' = Tail(todo)
  /\ UNCHANGED <<scorerVars, job, order, bench, runs, spent, report, profilesFile>>

(* Thousandths.  Every goal has k rounds, so sums stand for means. *)
Composite(goal, arm) ==
  IF goal \in Repo THEN 10 * arm.code ELSE 7 * arm.code + 150 * arm.extras
RoundsOf(goal) == {i \in DOMAIN rows : rows[i].goal = goal}
Points(goal, a) ==
  SumOver(RoundsOf(goal), [i \in DOMAIN rows |-> Composite(goal, rows[i].arms[a])])
CostOf(goal, a) == SumOver(RoundsOf(goal), [i \in DOMAIN rows |-> rows[i].arms[a].cost])

Sole(set) == IF Cardinality(set) = 1 THEN CHOOSE a \in set : TRUE ELSE Tie

(* compare_arms: the best, then the cheapest of the best. *)
Winner(goal) ==
  LET best == {a \in DOMAIN Arms :
                 \A b \in DOMAIN Arms : Points(goal, b) <= Points(goal, a)}
  IN  Sole({a \in best : \A b \in best : CostOf(goal, a) <= CostOf(goal, b)})

Wins(a) == Cardinality({g \in Range(order.goals) : Winner(g) = a})
Verdict == Sole({a \in DOMAIN Arms : \A b \in DOMAIN Arms : Wins(b) <= Wins(a)})

(* paired_delta and significant, for the two pairs an instance has at      *)
(* most: the difference of means against 12.706 standard errors.           *)
Abs(x) == IF x < 0 THEN -x ELSE x
Significant(pairs) ==
  /\ Len(pairs) = 2
  /\ 1000 * Abs(pairs[1] + pairs[2]) > 12706 * Abs(pairs[1] - pairs[2])
Gap(goal) == Points(goal, 2) - Points(goal, 1)

(* Mutant: every run is a pair of its own. *)
ClaimsByRun ==
  Significant([i \in DOMAIN rows |->
                 Composite(rows[i].goal, rows[i].arms[2])
                   - Composite(rows[i].goal, rows[i].arms[1])])

(* _pooled_delta: the goal is the unit; with one there is no interval. *)
ClaimsDifference ==
  Significant([i \in DOMAIN order.goals |-> Gap(order.goals[i])])

Reports ==
  /\ job = "suite" /\ bench = "running" /\ todo = <<>>
  /\ bench' = "finished"
  /\ report' =
       [wins |-> [a \in DOMAIN Arms |-> Wins(a)],
        cost |-> [a \in DOMAIN Arms |->
                    SumOver(Range(order.goals), [g \in Goals |-> CostOf(g, a)])],
        errors |-> Cardinality({i \in DOMAIN rows : rows[i].arms[3].error}),
        unmeasured |-> {g \in Range(order.goals) :
                          \A i \in DOMAIN rows : rows[i].goal = g =>
                            \A a \in DOMAIN Arms : ~rows[i].arms[a].measured},
        claim |-> ClaimsDifference,
        verdict |-> Verdict]
  /\ UNCHANGED <<scorerVars, job, order, todo, runs, trial, rows, spent, profilesFile>>

SuiteStep ==
  \/ ArmRuns \/ BaselineRaises \/ GradesArm \/ TakesArmGrade \/ EndsRound \/ Reports

BenchStep ==
  \/ CampaignStep
  \/ SuiteStep
  \/ bench = "scoring" /\ ScorerStep /\ UNCHANGED benchVars
=============================================================================
