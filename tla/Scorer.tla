------------------------------- MODULE Scorer -------------------------------
(***************************************************************************)
(* _score_reference of eval/harness.py: how the code a model wrote is      *)
(* graded.  A trusted runner, in a process group of its own, holds the     *)
(* nonce and the expected answers; the solution runs in a server process   *)
(* the runner starts, and may fork.  Only a line with the nonce counts.    *)
(* What a process does is the operating system's and the solution's        *)
(* affair; the harness waits for the end of the runner's output, or for    *)
(* its timeout, and kills the group either way.                            *)
(***************************************************************************)
EXTENDS Integers

CONSTANT Scores   \* passed / total of a line, in hundredths

ASSUME ScoresAssumption == Scores \subseteq 0..100 /\ 0 \in Scores

VARIABLES
  runner,    \* "none", "alive", "dead"
  server,    \* the same, and "starting" while it still has the runner's stderr
  fork,      \* "none", "alive", "dead", and "away" in a session of its own
  line,      \* the tagged line on the runner's stdout: "none", "broken", a score
  scorer,    \* "idle", "waiting" in communicate, "done"
  grade      \* what it returned: score and measured

scorerVars == <<runner, server, fork, line, scorer, grade>>

Unmeasured == [score |-> 0, measured |-> FALSE]

ScorerInit ==
  /\ runner = "none" /\ server = "none" /\ fork = "none"
  /\ line = "none"
  /\ scorer = "idle"
  /\ grade = Unmeasured

-----------------------------------------------------------------------------
(* The runner and the solution. *)

(* The preamble has read the nonce and removed the runner's own source. *)
ServerStarts ==
  /\ runner = "alive" /\ server = "none"
  /\ server' = "starting"
  /\ UNCHANGED <<runner, fork, line, scorer, grade>>
(* Its standard streams point nowhere before it imports the solution. *)
ServerReady ==
  /\ server = "starting"
  /\ server' = "alive"
  /\ UNCHANGED <<runner, fork, line, scorer, grade>>
SolutionForks ==
  /\ server = "alive" /\ fork = "none"
  /\ fork' \in {"alive", "away"}
  /\ UNCHANGED <<runner, server, line, scorer, grade>>
(* os._exit in the solution, or its CPU limit. *)
ServerDies ==
  /\ server = "alive"
  /\ server' = "dead"
  /\ UNCHANGED <<runner, fork, line, scorer, grade>>
(* A line without both counts is worth nothing. *)
RunnerReports ==
  /\ runner = "alive" /\ server # "none" /\ line = "none"
  /\ \/ line' = "broken" /\ UNCHANGED grade
     \/ line' = "tagged" /\ \E s \in Scores : grade' = [grade EXCEPT !.score = s]
  /\ UNCHANGED <<runner, server, fork, scorer>>
(* At exit it terminates the server, which the solution may have taught to *)
(* ignore that; killed by its own CPU limit it does not even ask.          *)
RunnerExits ==
  /\ runner = "alive"
  /\ runner' = "dead"
  /\ \/ UNCHANGED server
     \/ server \in {"starting", "alive"} /\ server' = "dead"
  /\ UNCHANGED <<fork, line, scorer, grade>>

ProcessStep ==
  \/ ServerStarts \/ ServerReady \/ SolutionForks \/ ServerDies
  \/ RunnerReports \/ RunnerExits

-----------------------------------------------------------------------------
(* The harness. *)

(* Popen with start_new_session. *)
ScoreStarts ==
  /\ scorer = "idle"
  /\ runner' = "alive"
  /\ server' = "none" /\ fork' = "none" /\ line' = "none"
  /\ grade' = Unmeasured
  /\ scorer' = "waiting"

(* Mutant: only a timeout kills. *)
LeavesGroup == UNCHANGED <<runner, server, fork>>

(* _killpg: whoever left the group is out of reach. *)
KillGroup ==
  /\ runner' = "dead"
  /\ server' = IF server = "none" THEN "none" ELSE "dead"
  /\ fork' = IF fork = "alive" THEN "dead" ELSE fork

(* The finally block, on every way out. *)
Finally == KillGroup

(* communicate has seen the end of stdout and of stderr. *)
ScoreEnds ==
  /\ scorer = "waiting"
  /\ runner = "dead" /\ server # "starting"
  /\ grade' = IF line = "tagged" THEN [grade EXCEPT !.measured = TRUE] ELSE Unmeasured
  /\ Finally
  /\ scorer' = "done"
  /\ UNCHANGED line
ScoreTimesOut ==
  /\ scorer = "waiting"
  /\ grade' = Unmeasured
  /\ KillGroup
  /\ scorer' = "done"
  /\ UNCHANGED line

ScorerStep == ProcessStep \/ ScoreEnds \/ ScoreTimesOut

(* The caller has taken the grade; the directory is gone. *)
GradeTaken ==
  /\ scorer = "done"
  /\ scorer' = "idle"
  /\ grade' = Unmeasured
  /\ line' = "none"
  /\ UNCHANGED <<runner, server, fork>>

-----------------------------------------------------------------------------
(* Nothing of one grading outlives it, however it ended: a solution that   *)
(* forks or ignores a signal would compete with the next one for the CPU.  *)
(* Only who left the process group can (harness.py:411 says so).           *)
NoScorerSurvives ==
  scorer # "waiting" => "alive" \notin {runner, server, fork} /\ server # "starting"
=============================================================================
