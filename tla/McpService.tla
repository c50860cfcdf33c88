------------------------------- MODULE McpService -------------------------------
(***************************************************************************)
(* The MCP server's volante_run: concurrent calls share one verified       *)
(* runtime factory per objective, built under a lock after a live probe of *)
(* a subscription planner (bootstrap.make_verified_runtime_factory); each  *)
(* call runs a runtime of the factory and appends a line to the ledger.    *)
(***************************************************************************)
EXTENDS Ledger, FiniteSets, FiniteSetsExt

CONSTANTS
  Calls,          \* tool calls, each with a record of its own
  Others,         \* runs of other surfaces, which write to the ledger too
  Objectives,     \* legal routing objectives
  Cap,            \* VOLANTE_MAX_SUBSCRIPTION_CALLS
  MaxAttempts,    \* _MAX_PLAN_ATTEMPTS of the probing Supervisor
  MaxUse,         \* bound: subscription calls of one run
  MaxResets,      \* bound: cache resets
  None

ASSUME ServiceAssumption ==
  /\ Records = Calls \cup Others /\ Calls \cap Others = {}
  /\ Cap \in Nat /\ MaxAttempts \in Nat \ {0} /\ MaxUse \in Nat
  /\ None \notin Calls /\ IsFiniteSet(Calls)

VARIABLES
  at,         \* what a call waits for
  objective,  \* what it asked for
  spent,      \* calls of the probe a call made: attempts, preflight_calls
  runs,       \* the call whose build the call's runtime comes from
  charge,     \* initial_subscription_calls of the call's runtime
  used,       \* calls of the run itself that its gate counts
  pending,    \* preflight_pending of the factory a call built
  cache,      \* _factory_cache: objective -> builder, or None
  holder,     \* who holds _factory_lock
  queue,      \* who waits for it, in order
  others,     \* runs of other surfaces that are recorded
  probes,     \* history: factories verified by a probe, per objective
  resets,     \* history: cache resets
  checked,    \* history: whose answer the planner was asked checks for
  physical    \* history: subscription calls made by anyone

callVars == <<at, objective, spent, runs, charge, used>>
buildVars == <<pending, cache, holder, queue>>
worldVars == <<others, probes, resets, checked, physical>>
vars == <<ledgerVars, callVars, buildVars, worldVars>>

Standing == {"idle", "queued", "probing", "running", "verifying",
             "recorded", "unrecorded", "refused", "failed", "cancelled"}
Over == {"recorded", "unrecorded", "refused", "failed", "cancelled"}
Setups == {"none", "card", "plan"}

TypeOK ==
  /\ LedgerTypeOK
  /\ at \in [Calls -> Standing]
  /\ objective \in [Calls -> Objectives]
  /\ spent \in [Calls -> 0..MaxAttempts]
  /\ runs \in [Calls -> Calls \cup {None}]
  /\ charge \in [Calls -> 0..MaxAttempts]
  /\ used \in [Calls -> 0..MaxUse]
  /\ pending \in [Calls -> BOOLEAN]
  /\ cache \in [Objectives -> Calls \cup {None}]
  /\ holder \in Calls \cup {None}
  /\ queue \in Seq(Calls)
  /\ others \subseteq Others
  /\ resets \in 0..MaxResets
  /\ probes \in [Objectives -> Nat]
  /\ checked \subseteq Calls
  /\ physical \in Nat

Init ==
  /\ LedgerInit
  /\ at = [c \in Calls |-> "idle"]
  /\ objective \in [Calls -> Objectives]
  /\ spent = [c \in Calls |-> 0]
  /\ runs = [c \in Calls |-> None]
  /\ charge = [c \in Calls |-> 0]
  /\ used = [c \in Calls |-> 0]
  /\ pending = [c \in Calls |-> FALSE]
  /\ cache = [o \in Objectives |-> None]
  /\ holder = None
  /\ queue = <<>>
  /\ others = {}
  /\ resets = 0
  /\ probes = [o \in Objectives |-> 0]
  /\ checked = {}
  /\ physical = 0

-----------------------------------------------------------------------------
(* make_runtime of builder b's factory for call c, a preflight being due or *)
(* not, and the start of its aexecute.                                      *)
(* Mutant: preflight_pending is not lowered.                                *)
MakesRuntimeDue(c, b, due) ==
  /\ runs' = [runs EXCEPT ![c] = b]
  /\ charge' = [charge EXCEPT ![c] = IF due THEN spent[b] ELSE 0]
  /\ pending' = [pending EXCEPT ![b] = due]
  /\ at' = [at EXCEPT ![c] = "running"]

MakesRuntime(c, b, due) ==
  /\ runs' = [runs EXCEPT ![c] = b]
  /\ charge' = [charge EXCEPT ![c] = IF due THEN spent[b] ELSE 0]
  /\ pending' = [pending EXCEPT ![b] = FALSE]
  /\ at' = [at EXCEPT ![c] = "running"]

(* The factory call c built goes to the cache, and its first runtime to c:  *)
(* nothing is awaited from here to the start of the run.                    *)
Caches(c) ==
  /\ cache' = [cache EXCEPT ![objective[c]] = c]
  /\ MakesRuntime(c, c, spent[c] > 0)

(* The build raises: nothing is cached and the lock is left.                *)
(* Mutant: the lock is not left.                                            *)
BuildFailsLocked(c) ==
  /\ at' = [at EXCEPT ![c] = "failed"]
  /\ holder' = c
  /\ UNCHANGED <<runs, charge, pending, cache>>

BuildFails(c) ==
  /\ at' = [at EXCEPT ![c] = "failed"]
  /\ holder' = None
  /\ UNCHANGED <<runs, charge, pending, cache>>

(* reserve_preflight, and the physical call it admits. *)
ProbeCalls(c) ==
  /\ spent[c] < Cap
  /\ spent' = [spent EXCEPT ![c] = @ + 1]
  /\ physical' = physical + 1
  /\ at' = [at EXCEPT ![c] = "probing"]
  /\ holder' = c
  /\ UNCHANGED <<runs, charge, pending, cache>>

-----------------------------------------------------------------------------
(* run_goal refuses a blank goal and an unknown objective before any call. *)
Refused(c) ==
  /\ at[c] = "idle"
  /\ at' = [at EXCEPT ![c] = "refused"]
  /\ UNCHANGED <<ledgerVars, objective, spent, runs, charge, used,
                 buildVars, worldVars>>

(* The first look finds a factory. *)
FindsFactory(c) ==
  /\ at[c] = "idle" /\ cache[objective[c]] # None
  /\ LET b == cache[objective[c]] IN MakesRuntime(c, b, pending[b])
  /\ UNCHANGED <<ledgerVars, objective, spent, used,
                 cache, holder, queue, worldVars>>

(* It does not, and the lock is busy or others wait for it. *)
Queues(c) ==
  /\ at[c] = "idle" /\ cache[objective[c]] = None
  /\ holder # None \/ queue # <<>>
  /\ at' = [at EXCEPT ![c] = "queued"]
  /\ queue' = Append(queue, c)
  /\ UNCHANGED <<ledgerVars, objective, spent, runs, charge, used,
                 pending, cache, holder, worldVars>>

(* Mutant: no second look under the lock. *)
SecondLookNone(c) == None

SecondLook(c) == cache[objective[c]]

(* Under the lock, up to the first await: the second look, the planner the  *)
(* environment gives now, the cap, the first call of the probe.             *)
Builds(c) ==
  \E setup \in Setups :
  \/ /\ SecondLook(c) # None
     /\ MakesRuntime(c, SecondLook(c), pending[SecondLook(c)])
     /\ holder' = None
     /\ UNCHANGED <<spent, cache, physical>>
  \/ /\ SecondLook(c) = None /\ setup = "card"
     /\ Caches(c)
     /\ holder' = None
     /\ UNCHANGED <<spent, physical>>
  \/ /\ SecondLook(c) = None
     /\ setup = "none" \/ (setup = "plan" /\ Cap = 0)
     /\ BuildFails(c)
     /\ UNCHANGED <<spent, physical>>
  \/ SecondLook(c) = None /\ setup = "plan" /\ ProbeCalls(c)

TakesLock(c) ==
  /\ at[c] = "idle" /\ cache[objective[c]] = None
  /\ holder = None /\ queue = <<>>
  /\ Builds(c)
  /\ UNCHANGED <<ledgerVars, objective, used, queue, others, probes,
                 resets, checked>>
IsWoken(c) ==
  /\ at[c] = "queued" /\ holder = None /\ Head(queue) = c
  /\ queue' = Tail(queue)
  /\ Builds(c)
  /\ UNCHANGED <<ledgerVars, objective, used, others, probes, resets, checked>>

(* The probe's answer is a plan that the Supervisor accepts. *)
ProbeSucceeds(c) ==
  /\ at[c] = "probing"
  /\ Caches(c)
  /\ holder' = None
  /\ probes' = [probes EXCEPT ![objective[c]] = @ + 1]
  /\ UNCHANGED <<ledgerVars, objective, spent, used, queue,
                 others, resets, checked, physical>>

(* It is not, and there are an attempt and a call left for a correction. *)
ProbeCorrected(c) ==
  /\ at[c] = "probing" /\ spent[c] < MaxAttempts
  /\ ProbeCalls(c)
  /\ UNCHANGED <<ledgerVars, objective, used, queue, others, probes,
                 resets, checked>>

(* Or there are not, or the provider raised, or the prompt has no room. *)
ProbeFails(c) ==
  /\ at[c] = "probing"
  /\ BuildFails(c)
  /\ UNCHANGED <<ledgerVars, objective, spent, used, queue, worldVars>>

-----------------------------------------------------------------------------
(* A call the gate of the run admits and counts: planning, workers, their   *)
(* retries, synthesis.                                                      *)
RunCalls(c) ==
  /\ at[c] = "running" /\ charge[c] + used[c] < Cap /\ used[c] < MaxUse
  /\ used' = [used EXCEPT ![c] = @ + 1]
  /\ physical' = physical + 1
  /\ UNCHANGED <<ledgerVars, at, objective, spent, runs, charge,
                 buildVars, others, probes, resets, checked>>

(* The planner of the call's runtime is on a plan: its factory was probed. *)
OnPlan(c) == spent[runs[c]] > 0

(* run_goal set verify_answer and the synthesis succeeded: _verify_final    *)
(* asks the planner, which has planned the run, for checks.  No gate admits *)
(* or counts that call, and only a planner on a plan makes it a subscription *)
(* call.                                                                    *)
Verifies(c) ==
  /\ at[c] = "running" /\ OnPlan(c) /\ used[c] > 0
  /\ at' = [at EXCEPT ![c] = "verifying"]
  /\ checked' = checked \cup {c}
  /\ physical' = physical + 1
  /\ UNCHANGED <<ledgerVars, objective, spent, runs, charge, used,
                 buildVars, others, probes, resets>>

(* aexecute returns, successful or failed, the answer checked or not, and   *)
(* record_run appends a line with what the gate has counted.                *)
RunEnds(c) ==
  /\ at[c] \in {"running", "verifying"}
  /\ \/ Writes(c) /\ at' = [at EXCEPT ![c] = "recorded"]
     \/ WritesTorn(c) /\ at' = [at EXCEPT ![c] = "unrecorded"]
  /\ UNCHANGED <<reader, objective, spent, runs, charge, used,
                 buildVars, worldVars>>

(* The client cancels the call at the await it is in. *)
CancelCall(c) ==
  /\ at[c] \in {"queued", "probing", "running", "verifying"}
  /\ at' = [at EXCEPT ![c] = "cancelled"]
  /\ queue' = Remove(queue, c)
  /\ holder' = IF holder = c THEN None ELSE holder
  /\ UNCHANGED <<ledgerVars, objective, spent, runs, charge, used,
                 pending, cache, worldVars>>

(* _reset_factory_cache, by whoever wants the next run to verify again, *)
(* the credentials having changed, say.                                     *)
ResetFactoryCache ==
  /\ resets < MaxResets
  /\ cache' = [o \in Objectives |-> None]
  /\ resets' = resets + 1
  /\ UNCHANGED <<ledgerVars, callVars, pending, holder, queue, others,
                 probes, checked, physical>>

(* A run of the CLI or of the Web UI is recorded, from another process. *)
OtherRunEnds(r) ==
  /\ r \notin others
  /\ others' = others \cup {r}
  /\ Writes(r) \/ WritesTorn(r)
  /\ UNCHANGED <<reader, callVars, buildVars, probes, resets,
                 checked, physical>>

Reads == ReaderStep /\ UNCHANGED <<callVars, buildVars, worldVars>>

Next ==
  \/ \E c \in Calls :
       \/ Refused(c) \/ FindsFactory(c) \/ Queues(c)
       \/ TakesLock(c) \/ IsWoken(c)
       \/ ProbeSucceeds(c) \/ ProbeCorrected(c) \/ ProbeFails(c)
       \/ RunCalls(c) \/ Verifies(c) \/ RunEnds(c) \/ CancelCall(c)
  \/ \E r \in Others : OtherRunEnds(r)
  \/ ResetFactoryCache
  \/ Reads

Spec == Init /\ [][Next]_vars

(* A probe is answered or times out, a run returns (it has deadlines of its *)
(* own), and the event loop wakes who may have the lock.                    *)
Proceeds(c) ==
  \/ IsWoken(c)
  \/ ProbeSucceeds(c) \/ ProbeCorrected(c) \/ ProbeFails(c)
  \/ RunEnds(c)
FairSpec == Spec /\ \A c \in Calls : WF_vars(Proceeds(c))

-----------------------------------------------------------------------------
Total(f, S) == MapThenSumSet(LAMBDA c : f[c], S)

(* Concurrent calls on a cold cache share a live probe: one is under way at *)
(* most, and an objective is verified again only after a reset.             *)
ProbesShared ==
  /\ Cardinality({c \in Calls : at[c] = "probing"}) =< 1
  /\ \A o \in Objectives : probes[o] =< 1 + resets

(* Every subscription call that a gate admits is on one bill: a verified     *)
(* probe on that of one run of its factory, a run's own on its own.  On none *)
(* are the calls of a build that failed or was cancelled, and one for each  *)
(* answer that is checked.                                                  *)
CallsBilledOnce ==
  LET Running == {c \in Calls : runs[c] # None} IN
  physical = Total(charge, Running) + Total(used, Running)
               + Total(spent, Calls \ Running) + Cardinality(checked)

(* When all calls are over, each was refused or recorded, and no write to   *)
(* the ledger was torn, the usage a reader adds up is what was called, but  *)
(* for the checks of answers.                                               *)
UsageAddsUp ==
  LET Recorded == {c \in Calls : at[c] = "recorded"}
      Reported == ToSet(reader.out) \cap Calls IN
  /\ \A c \in Calls : at[c] \in {"recorded", "refused"}
  /\ Cardinality(Recorded) + Cardinality(others) =< Limit
  /\ \A i \in DOMAIN Lines(file) :
       Lines(file)[i] = <<>> \/ Parses(Lines(file)[i])
  /\ reader.at = "done" /\ reader.opened = file
  => Total(charge, Reported) + Total(used, Reported) + Cardinality(checked)
       = physical

(* Bills and ledger agree with the calls that gates admit, and miss one call *)
(* for each answer checked and no other, whoever built the factory, failed  *)
(* at it or was cancelled, and whoever writes to the ledger besides         *)
(* (bootstrap.py:902, observability.py:164).                                *)
BillsAddUp == CallsBilledOnce /\ UsageAddsUp

(* No call waits for ever, for the lock or for an answer.                   *)
CallsEnd == \A c \in Calls : at[c] \notin Over \cup {"idle"} ~> at[c] \in Over
=============================================================================
