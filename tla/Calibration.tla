----------------------------- MODULE Calibration -----------------------------
(***************************************************************************)
(* calibrate.py: the profile that measured runs of a model amount to.      *)
(* Measurements map a model to task types, and a task type to its runs, by *)
(* their numbers: each names its goal (NoGoal in files that give bare      *)
(* scores) and has a score in hundredths, Null where the run produced      *)
(* nothing usable.                                                         *)
(* A profile's numbers are in ten-thousandths, the digits the code keeps.  *)
(* Two scores are never exactly _TIER_SEPARATION apart in the instance:    *)
(* what floats make of that difference is left out.                        *)
(***************************************************************************)
EXTENDS Routing

CONSTANTS Goals, NoGoal, Null

ASSUME NullAssumption == Null \notin Nat
ASSUME GoalsAssumption == IsFiniteSet(Goals) /\ NoGoal \notin Goals

TaskTypes == {"code", "research", "write", "analyze"}
TierSeparation == 200
FullScore == 10000           \* a score of one
MaxConfidence == 9000
Unclaimed == -1              \* a field the profile leaves out

(* _entry and the tests of _scores. *)
WellFormed(entry) ==
  /\ entry.goal \in Goals \cup {NoGoal}
  /\ entry.score = Null \/ entry.score \in 0..100
Graded(entries) == {i \in DOMAIN entries : entries[i].score # Null}
Gradable(entries) ==
  /\ \A i \in DOMAIN entries : WellFormed(entries[i])
  /\ Graded(entries) # {}

(* build_profiles refuses the whole file for one list of it. *)
Calibratable(measurements) ==
  /\ DOMAIN measurements # {}
  /\ \A m \in DOMAIN measurements :
       /\ DOMAIN measurements[m] # {} /\ DOMAIN measurements[m] \subseteq TaskTypes
       /\ \A t \in DOMAIN measurements[m] : Gradable(measurements[m][t])

TaskScore(entries) ==
  LET graded == Graded(entries) IN
  Rounded(100 * SumOver(graded, [i \in graded |-> entries[i].score]), Cardinality(graded))

(* Distinct goals, or runs where a single one does not name its goal. *)
Breadth(entries) ==
  LET goals == {entries[i].goal : i \in DOMAIN entries} IN
  IF NoGoal \in goals THEN Cardinality(DOMAIN entries) ELSE Cardinality(goals)

Confidence(tasks) ==
  Min({MaxConfidence} \cup
      {Rounded(FullScore * Breadth(tasks[t]), Breadth(tasks[t]) + 3) : t \in DOMAIN tasks})

Overall(tasks) ==
  IF DOMAIN tasks = TaskTypes
  THEN Rounded(SumOver(TaskTypes, [t \in TaskTypes |-> TaskScore(tasks[t])]), 4)
  ELSE Unclaimed

Reliability(tasks) ==
  LET runs == SumOver(DOMAIN tasks, [t \in DOMAIN tasks |-> Cardinality(DOMAIN tasks[t])])
      graded == SumOver(DOMAIN tasks, [t \in DOMAIN tasks |-> Cardinality(Graded(tasks[t]))])
  IN  IF graded = runs THEN Unclaimed ELSE Rounded(FullScore * graded, runs)

Profile(tasks) ==
  [taskScores |-> [t \in DOMAIN tasks |-> TaskScore(tasks[t])],
   confidence |-> Confidence(tasks),
   overall |-> Overall(tasks),
   reliability |-> Reliability(tasks)]
BuildProfiles(measurements) == [m \in DOMAIN measurements |-> Profile(measurements[m])]

(* suggest_tiers: best first, a tier lower after every gap. *)
SuggestTiers(profiles, t) ==
  LET S == {m \in DOMAIN profiles : t \in DOMAIN profiles[m].taskScores}
      score(m) == profiles[m].taskScores[t]
      ranked == ByKey(S, [m \in S |-> <<-score(m), m>>])
      place(m) == CHOOSE i \in DOMAIN ranked : ranked[i] = m
      gaps(m) == {i \in 2..place(m) : score(ranked[i - 1]) - score(ranked[i]) > TierSeparation}
  IN  [m \in S |-> Greater(1, 4 - Cardinality(gaps(m)))]
=============================================================================
