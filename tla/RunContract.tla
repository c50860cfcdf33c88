---------------------------- MODULE RunContract ----------------------------
(***************************************************************************)
(* What one Runtime promises its caller, with no word on how it is done:   *)
(* one goal per object, one outcome per goal, a subscription allowance     *)
(* fixed when the goal is accepted and never exceeded by the calls that    *)
(* are counted, every planned task delivered at most once and only after   *)
(* the tasks it depends on, success only when all of them are.  A result   *)
(* comes when no task is at work, and nothing follows it.  A cancelled run *)
(* may leave behind tasks that are at work; none begins any more.          *)
(* Runtime.tla is shown to implement this module.                          *)
(***************************************************************************)
EXTENDS Naturals

CONSTANTS
  Plans,      \* the dependency maps [tasks -> SUBSET tasks] a plan may have
  Preflight   \* subscription calls already spent before the goal arrived

VARIABLES
  outcome,    \* "unopened", "open", then "success", "failed" or "cancelled"
  limit,      \* the subscription allowance of this run
  spent,      \* subscription calls charged to it
  plan,       \* the adopted dependency map; the empty map before that
  delivered,  \* tasks whose artifact is on the blackboard
  working     \* tasks inside their slot

contractVars == <<outcome, limit, spent, plan, delivered, working>>

NoPlan == [t \in {} |-> {}]

CInit ==
  /\ outcome = "unopened"
  /\ limit \in Nat
  /\ spent = Preflight
  /\ plan = NoPlan
  /\ delivered = {}
  /\ working = {}

(* A goal is accepted, once, with the allowance that holds to its end. *)
Open ==
  /\ outcome = "unopened"
  /\ outcome' = "open"
  /\ limit' \in Nat
  /\ spent <= limit'
  /\ UNCHANGED <<spent, plan, delivered, working>>

Adopt ==
  /\ outcome = "open"
  /\ plan = NoPlan
  /\ plan' \in Plans
  /\ UNCHANGED <<outcome, limit, spent, delivered, working>>

(* A task may outlive a cancellation, never a result. *)
MayWork == outcome = "open" \/ (outcome = "cancelled" /\ working # {})

Start ==
  /\ outcome = "open"
  /\ \E t \in DOMAIN plan \ (delivered \cup working) :
       /\ plan[t] \subseteq delivered
       /\ working' = working \cup {t}
  /\ UNCHANGED <<outcome, limit, spent, plan, delivered>>

Spend ==
  /\ MayWork
  /\ spent < limit
  /\ spent' = spent + 1
  /\ UNCHANGED <<outcome, limit, plan, delivered, working>>

Deliver ==
  /\ MayWork
  /\ \E t \in working \ delivered :
       /\ delivered' = delivered \cup {t}
       /\ working' = working \ {t}
  /\ UNCHANGED <<outcome, limit, spent, plan>>

(* A task fails, or ends cancelled. *)
Stop ==
  /\ MayWork
  /\ \E t \in working : working' = working \ {t}
  /\ UNCHANGED <<outcome, limit, spent, plan, delivered>>

Close ==
  /\ outcome = "open"
  /\ outcome' \in {"success", "failed", "cancelled"}
  /\ outcome' \in {"success", "failed"} => working = {}
  /\ outcome' = "success" => plan # NoPlan /\ delivered = DOMAIN plan
  /\ UNCHANGED <<limit, spent, plan, delivered, working>>

CNext == Open \/ Adopt \/ Start \/ Spend \/ Deliver \/ Stop \/ Close

CSpec == CInit /\ [][CNext]_contractVars
=============================================================================
