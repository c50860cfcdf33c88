---------------------------- MODULE Verification ----------------------------
(***************************************************************************)
(* The detector of an answer (verify.py, Runtime._verify_final): a model   *)
(* derives assertions from the goal, the sandbox runs the answer's code    *)
(* and then each of them, and a report says what happened.  Text is what   *)
(* decides the report: where a code block may close and whether it parses  *)
(* there, how many assertions there are, how many of them fail.            *)
(***************************************************************************)
EXTENDS Integers, Sequences

CONSTANT MinGroundedChecks  \* _MIN_GROUNDED_CHECKS
ASSUME VerificationAssumption == MinGroundedChecks \in Nat \ {0}

CheckReport(total, failed, error) == [total |-> total, failed |-> failed, error |-> error]

(* "a detector must never fail a good run": whatever went wrong before     *)
(* there was a program.                                                    *)
NotChecked == CheckReport(0, 0, TRUE)

Ran(r) == r.total > 0 \/ r.error
Inconclusive(r) == ~r.error /\ r.failed = 0 /\ r.total \in 1..(MinGroundedChecks - 1)
AllPassed(r) == ~r.error /\ r.failed = 0 /\ r.total >= MinGroundedChecks

(* What the summary says of a report. *)
Reading(r) ==
  IF r.error THEN "could not run"
  ELSE IF r.total = 0 THEN "none derived"
  ELSE IF Inconclusive(r) THEN "not enough"
  ELSE IF r.failed = 0 THEN "all passed" ELSE "some failed"

(* extract_python: of the places where the first block may close, the      *)
(* first at which it parses, or else the first; closes[i] is whether it    *)
(* parses there.                                                           *)
Closing(closes) ==
  LET parsing == {i \in DOMAIN closes : closes[i]} IN
  IF parsing = {} THEN 1 ELSE CHOOSE i \in parsing : \A j \in parsing : i <= j

(* Whether the code that the program starts with parses: with no block, or *)
(* none that closes, it is all the text there is.                          *)
Parses(text, closes) == IF closes = <<>> THEN text ELSE closes[Closing(closes)]

(* read_report: the runner prints its line after the last assertion, so    *)
(* there is none when the program ends before.                             *)
ReadReport(marker, total, failed) ==
  IF marker THEN CheckReport(total, failed, FALSE) ELSE CheckReport(total, 0, TRUE)

(* No assertion, no program.                                               *)
Verified(total, wrong, finishes) ==
  IF total = 0 THEN CheckReport(0, 0, FALSE) ELSE ReadReport(finishes, total, wrong)
=============================================================================
