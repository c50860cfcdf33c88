---------------------------- MODULE PhaseContract ----------------------------
(***************************************************************************)
(* What Runtime.tla takes the planning and the synthesis phase to be: the  *)
(* configured candidates in order, each asked a bounded number of times    *)
(* under the subscription allowance, one outcome.  Phases.tla implements   *)
(* it with deadlines, corrections, repairs and error classes.              *)
(***************************************************************************)
EXTENDS Naturals

CONSTANTS
  Width,    \* candidates
  MaxAsks,  \* calls one candidate makes at most
  Cap       \* subscription calls of the run

VARIABLES idx, asked, inflight, charged, state

phaseVars == <<idx, asked, inflight, charged, state>>

PInit ==
  /\ idx = 1 /\ asked = 0 /\ inflight = FALSE
  /\ charged \in 0..Cap
  /\ state = "open"

PAsk ==
  /\ state = "open" /\ ~inflight /\ asked < MaxAsks
  /\ asked' = asked + 1 /\ inflight' = TRUE
  /\ charged' \in {charged, charged + 1} /\ charged' =< Cap
  /\ UNCHANGED <<idx, state>>

(* The component looks at the reply and will ask again. *)
PCorrect ==
  /\ state = "open" /\ inflight /\ asked < MaxAsks
  /\ inflight' = FALSE
  /\ UNCHANGED <<idx, asked, charged, state>>

PNext ==
  /\ state = "open" /\ idx < Width
  /\ idx' = idx + 1 /\ asked' = 0 /\ inflight' = FALSE
  /\ UNCHANGED <<charged, state>>

PFail ==
  /\ state = "open"
  /\ state' = "failed" /\ inflight' = FALSE /\ asked' = 0
  /\ UNCHANGED <<idx, charged>>

(* Success comes of a reply that has just arrived, or of no call at all:   *)
(* the assembler's, which is the first candidate.                          *)
PSucceed ==
  /\ state = "open"
  /\ inflight \/ (asked = 0 /\ idx = 1)
  /\ state' = "done" /\ inflight' = FALSE /\ asked' = 0
  /\ UNCHANGED <<idx, charged>>

PStep == PAsk \/ PCorrect \/ PNext \/ PFail \/ PSucceed
PSafe == PInit /\ [][PStep]_phaseVars
PSpec == PSafe /\ WF_phaseVars(PFail \/ PSucceed \/ PNext)
=============================================================================
