--------------------------- MODULE McpServiceProofs ---------------------------
(***************************************************************************)
(* The MCP server and its ledger for any set of calls, objectives and other *)
(* surfaces, any cap, any number of resets, any length of a record and of   *)
(* a block: concurrent calls share a live probe, and the call that paid for *)
(* it is the one charged; a reader hands out the newest whole records,      *)
(* whatever is appended meanwhile; what it adds up is what was called.      *)
(***************************************************************************)
EXTENDS McpService, FiniteSetTheorems, DataTheorems, TLAPS

ServiceTypes ==
  /\ at \in [Calls -> Standing]
  /\ objective \in [Calls -> Objectives]
  /\ spent \in [Calls -> Nat]
  /\ runs \in [Calls -> Calls \cup {None}]
  /\ charge \in [Calls -> Nat]
  /\ pending \in [Calls -> BOOLEAN]
  /\ cache \in [Objectives -> Calls \cup {None}]
  /\ probes \in [Objectives -> Nat]
  /\ resets \in Nat
  /\ used \in [Calls -> Nat]

(* Who probes has the lock and nobody else, and so nobody has cached        *)
(* meanwhile what it is about to; a factory in the cache accounts for one   *)
(* probe, a reset for those of the factories it has dropped.                *)
LockInv ==
  /\ \A c \in Calls : at[c] = "probing" => holder = c /\ cache[objective[c]] = None
  /\ \A c \in Calls : holder = c => at[c] = "probing"
  /\ \A o \in Objectives : probes[o] <= resets + (IF cache[o] = None THEN 0 ELSE 1)

(* What is cached has made its builder's runtime, and its preflight is no   *)
(* longer due.                                                              *)
FirstRuntimeInv ==
  /\ \A c \in Calls : ~pending[c]
  /\ \A c \in Calls : at[c] \in {"idle", "queued", "probing"} => runs[c] = None
  /\ \A o \in Objectives : cache[o] # None => runs[cache[o]] = cache[o]

(* A run is charged for the probe that its own call made, and for no other. *)
ChargedToBuilder ==
  \A c \in Calls : charge[c] = IF runs[c] = c THEN spent[c] ELSE 0

(* A call has spent nothing before it builds, nor ever when its runtime is   *)
(* of another's factory; it uses nothing without a runtime; its answer is    *)
(* checked once, after all that; and what was spent, used and asked for      *)
(* checks is what was called.                                                *)
SpendingInv ==
  /\ \A c \in Calls : at[c] \in {"idle", "queued"} => spent[c] = 0
  /\ \A c \in Calls : runs[c] \notin {None, c} => spent[c] = 0
  /\ \A c \in Calls : runs[c] = None => used[c] = 0
  /\ \A c \in Calls : at[c] \in {"running", "verifying"} => runs[c] # None
  /\ checked \subseteq Calls
  /\ \A c \in checked : at[c] \notin {"idle", "queued", "probing", "running"}
  /\ physical = SumOver(Calls, spent) + SumOver(Calls, used) + Cardinality(checked)

IInv == ServiceTypes /\ LockInv /\ FirstRuntimeInv /\ ChargedToBuilder /\ SpendingInv

-----------------------------------------------------------------------------
(* The steps, by what they do to the cache.                                 *)

(* A runtime of what is cached: somebody else's factory. *)
Shares(c) ==
  /\ at[c] \in {"idle", "queued"}
  /\ cache[objective[c]] # None
  /\ MakesRuntime(c, cache[objective[c]], pending[cache[objective[c]]])
  /\ holder' = holder
  /\ UNCHANGED <<objective, spent, used, cache, probes, resets, checked, physical>>

(* A factory of the call's own, verified or not in need of it. *)
Creates(c) ==
  /\ \/ at[c] \in {"idle", "queued"} /\ cache[objective[c]] = None /\ probes' = probes
     \/ at[c] = "probing" /\ probes' = [probes EXCEPT ![objective[c]] = @ + 1]
  /\ holder \in {None, c}
  /\ Caches(c)
  /\ holder' = None
  /\ UNCHANGED <<objective, spent, used, resets, checked, physical>>

(* The next call of a probe. *)
Probes(c) ==
  /\ \/ at[c] \in {"idle", "queued"} /\ cache[objective[c]] = None /\ holder = None
     \/ at[c] = "probing"
  /\ ProbeCalls(c)
  /\ UNCHANGED <<objective, used, probes, resets, checked>>

(* A call goes on without: it waits, runs, ends or is cancelled.            *)
Moves(c) ==
  /\ \E place \in Standing \ {"idle", "probing", "running", "verifying"} :
       /\ place = "queued" => at[c] = "idle"
       /\ at' = [at EXCEPT ![c] = place]
  /\ holder' = IF holder = c THEN None ELSE holder
  /\ UNCHANGED <<objective, spent, used, runs, charge, pending, cache, probes, resets,
                 checked, physical>>

(* A run makes a call of its own.                                           *)
Uses(c) ==
  /\ at[c] = "running"
  /\ used' = [used EXCEPT ![c] = @ + 1]
  /\ physical' = physical + 1
  /\ UNCHANGED <<at, objective, spent, runs, charge, pending, cache, holder, probes, resets, checked>>

(* Its answer is checked. *)
Checks(c) ==
  /\ at[c] = "running"
  /\ at' = [at EXCEPT ![c] = "verifying"]
  /\ checked' = checked \cup {c}
  /\ physical' = physical + 1
  /\ UNCHANGED <<objective, spent, used, runs, charge, pending, cache, holder, probes, resets>>

(* All else: other surfaces, the reader of the ledger.                      *)
Quiet ==
  UNCHANGED <<at, objective, spent, used, runs, charge, pending, cache, holder, probes, resets,
              checked, physical>>

LEMMA StepShape ==
  ASSUME IInv, [Next]_vars
  PROVE  \/ \E c \in Calls : Shares(c) \/ Creates(c) \/ Probes(c) \/ Moves(c) \/ Uses(c) \/ Checks(c)
         \/ ResetFactoryCache
         \/ Quiet
<1>1. CASE UNCHANGED vars
  BY <1>1 DEF vars, callVars, buildVars, worldVars, Quiet
<1>2. ASSUME NEW c \in Calls, TakesLock(c) \/ IsWoken(c)
      PROVE  Shares(c) \/ Creates(c) \/ Probes(c) \/ Moves(c)
  <2>1. /\ at[c] \in {"idle", "queued"} /\ holder = None
        /\ UNCHANGED <<objective, used, probes, resets, checked>> /\ Builds(c)
    BY <1>2 DEF TakesLock, IsWoken
  <2>2. CASE SecondLook(c) # None
    BY <2>1, <2>2 DEF Builds, SecondLook, Shares
  <2>3. CASE SecondLook(c) = None
    <3>1. CASE Caches(c) /\ holder' = None /\ UNCHANGED <<spent, physical>>
      BY <2>1, <2>3, <3>1 DEF SecondLook, Creates
    <3>2. CASE BuildFails(c) /\ UNCHANGED <<spent, physical>>
      BY <2>1, <3>2, ServiceAssumption DEF BuildFails, Moves, Standing
    <3>3. CASE ProbeCalls(c)
      BY <2>1, <2>3, <3>3 DEF SecondLook, Probes
    <3> QED BY <2>1, <2>3, <3>1, <3>2, <3>3 DEF Builds
  <2> QED BY <2>2, <2>3
<1>3. ASSUME NEW c \in Calls, ProbeSucceeds(c)
      PROVE  Creates(c)
  BY <1>3 DEF ProbeSucceeds, Creates, IInv, LockInv
<1>4. ASSUME NEW c \in Calls, ProbeCorrected(c)
      PROVE  Probes(c)
  BY <1>4 DEF ProbeCorrected, Probes
<1>5. ASSUME NEW c \in Calls, ProbeFails(c)
      PROVE  Moves(c)
  BY <1>5 DEF ProbeFails, BuildFails, Moves, IInv, LockInv, Standing, worldVars
<1>6. ASSUME NEW c \in Calls, FindsFactory(c)
      PROVE  Shares(c)
  BY <1>6 DEF FindsFactory, Shares, worldVars
<1>7. ASSUME NEW c \in Calls, CancelCall(c)
      PROVE  Moves(c)
  BY <1>7 DEF CancelCall, Moves, Standing, worldVars
<1>8. ASSUME NEW c \in Calls, Refused(c) \/ Queues(c)
      PROVE  Moves(c)
  BY <1>8 DEF Refused, Queues, Moves, IInv, LockInv, Standing, buildVars, worldVars
<1>9. ASSUME NEW c \in Calls, RunEnds(c)
      PROVE  Moves(c)
  BY <1>9 DEF RunEnds, Moves, IInv, LockInv, Standing, buildVars, worldVars
<1>10. ASSUME NEW c \in Calls, RunCalls(c)
       PROVE  Uses(c)
  BY <1>10 DEF RunCalls, Uses, buildVars
<1>11. ASSUME NEW c \in Calls, Verifies(c)
       PROVE  Checks(c)
  BY <1>11 DEF Verifies, Checks, buildVars
<1>12. CASE Reads \/ \E r \in Others : OtherRunEnds(r)
  BY <1>12 DEF Reads, OtherRunEnds, Quiet, callVars, buildVars, worldVars
<1> QED BY <1>1, <1>2, <1>3, <1>4, <1>5, <1>6, <1>7, <1>8, <1>9, <1>10, <1>11, <1>12 DEF Next

-----------------------------------------------------------------------------
(* The total of the model is the sum of DataTheorems. *)
LEMMA TotalIsSum ==
  ASSUME NEW f, NEW S
  PROVE  Total(f, S) = SumOver(S, f)
BY DEF Total, SumOver

LEMMA InitHolds == Init => IInv
<1> SUFFICES ASSUME Init PROVE IInv
  OBVIOUS
<1> DEFINE nothing == [c \in Calls |-> 0]
<1>1. SumOver(Calls, nothing) = 0
  <2>1. \A c \in Calls : nothing[c] = 0
    OBVIOUS
  <2>2. {} \in SUBSET Calls /\ \A c \in Calls \ {} : nothing[c] = 0
    BY <2>1
  <2> HIDE DEF nothing
  <2> QED BY <2>1, <2>2, SumWithin, SumEmpty, ServiceAssumption
<1>2. /\ spent = nothing /\ used = nothing /\ physical = 0 + 0 + 0
      /\ checked = {} /\ Cardinality({}) = 0
  BY FS_EmptySet DEF Init
<1>3. physical = SumOver(Calls, spent) + SumOver(Calls, used) + Cardinality(checked)
  BY <1>1, <1>2
<1>4. SpendingInv
  BY <1>2, <1>3, ServiceAssumption DEF Init, SpendingInv
<1> QED BY <1>4, ServiceAssumption DEF Init, IInv, ServiceTypes, Standing, LockInv,
    FirstRuntimeInv, ChargedToBuilder

(* What is cached names a builder that has its runtime, so the call is      *)
(* another one, and no preflight is due to it.                              *)
LEMMA SharesKeeps ==
  ASSUME IInv, NEW c \in Calls, Shares(c)
  PROVE  IInv'
<1> DEFINE b == cache[objective[c]]
<1>1. b \in Calls /\ runs[b] = b /\ runs[c] = None /\ ~pending[b] /\ b # c
  BY ServiceAssumption DEF IInv, ServiceTypes, FirstRuntimeInv, Shares
<1>2. /\ at' = [at EXCEPT ![c] = "running"] /\ runs' = [runs EXCEPT ![c] = b]
      /\ charge' = [charge EXCEPT ![c] = 0] /\ pending' = [pending EXCEPT ![b] = FALSE]
      /\ holder' = holder /\ at[c] \in {"idle", "queued"}
      /\ UNCHANGED <<objective, spent, used, cache, probes, resets, checked, physical>>
  BY <1>1 DEF Shares, MakesRuntime
<1> HIDE DEF b
<1>3. ServiceTypes'
  BY <1>1, <1>2 DEF IInv, ServiceTypes, Standing
<1>4. LockInv'
  BY <1>1, <1>2, <1>3, ServiceAssumption DEF IInv, ServiceTypes, LockInv
<1>5. FirstRuntimeInv'
  BY <1>1, <1>2, <1>3, ServiceAssumption DEF IInv, ServiceTypes, FirstRuntimeInv
<1>6. ChargedToBuilder'
  BY <1>1, <1>2, ServiceAssumption DEF IInv, ServiceTypes, ChargedToBuilder
<1>7. SpendingInv'
  BY <1>1, <1>2, ServiceAssumption DEF IInv, ServiceTypes, SpendingInv
<1> QED BY <1>3, <1>4, <1>5, <1>6, <1>7 DEF IInv

LEMMA CreatesKeeps ==
  ASSUME IInv, NEW c \in Calls, Creates(c)
  PROVE  IInv'
<1>1. /\ at' = [at EXCEPT ![c] = "running"] /\ runs' = [runs EXCEPT ![c] = c]
      /\ charge' = [charge EXCEPT ![c] = IF spent[c] > 0 THEN spent[c] ELSE 0]
      /\ pending' = [pending EXCEPT ![c] = FALSE]
      /\ cache' = [cache EXCEPT ![objective[c]] = c]
      /\ holder \in {None, c} /\ holder' = None /\ cache[objective[c]] = None
      /\ probes' \in {probes, [probes EXCEPT ![objective[c]] = @ + 1]}
      /\ UNCHANGED <<objective, spent, used, resets, checked, physical>>
  BY DEF IInv, LockInv, Creates, Caches, MakesRuntime
<1>2. ServiceTypes'
  BY <1>1 DEF IInv, ServiceTypes, Standing
<1>3. LockInv'
  <2>1. \A d \in Calls : at'[d] # "probing"
    BY <1>1, ServiceAssumption DEF IInv, ServiceTypes, LockInv
  <2>2. \A o \in Objectives : probes'[o] <= resets' + (IF cache'[o] = None THEN 0 ELSE 1)
    BY <1>1, ServiceAssumption DEF IInv, ServiceTypes, LockInv
  <2> QED BY <1>1, <2>1, <2>2, ServiceAssumption DEF LockInv
<1>4. FirstRuntimeInv'
  BY <1>1, <1>2, ServiceAssumption DEF IInv, ServiceTypes, FirstRuntimeInv
<1>5. ChargedToBuilder'
  BY <1>1 DEF IInv, ServiceTypes, ChargedToBuilder
<1>6. SpendingInv'
  <2>1. /\ \A d \in Calls : at'[d] \in {"idle", "queued"} => spent'[d] = 0
        /\ \A d \in Calls : runs'[d] \notin {None, d} => spent'[d] = 0
        /\ \A d \in Calls : runs'[d] = None => used'[d] = 0
    <3>1. \A d \in Calls : d # c => at'[d] = at[d] /\ runs'[d] = runs[d]
      BY <1>1 DEF IInv, ServiceTypes
    <3>2. at'[c] = "running" /\ runs'[c] = c /\ c # None
      BY <1>1, ServiceAssumption DEF IInv, ServiceTypes
    <3>3. spent' = spent /\ used' = used
      BY <1>1
    <3> QED BY <3>1, <3>2, <3>3 DEF IInv, SpendingInv
  <2>2. \A d \in Calls : at'[d] \in {"running", "verifying"} => runs'[d] # None
    BY <1>1, ServiceAssumption DEF IInv, ServiceTypes, SpendingInv
  <2>3. c \notin checked
    BY DEF IInv, SpendingInv, Creates
  <2>4. /\ checked' \subseteq Calls
        /\ \A d \in checked' : at'[d] \notin {"idle", "queued", "probing", "running"}
    BY <1>1, <2>3 DEF IInv, ServiceTypes, SpendingInv
  <2>5. physical' = SumOver(Calls, spent') + SumOver(Calls, used') + Cardinality(checked')
    BY <1>1 DEF IInv, SpendingInv
  <2> QED BY <2>1, <2>2, <2>4, <2>5 DEF SpendingInv
<1> QED BY <1>2, <1>3, <1>4, <1>5, <1>6 DEF IInv

(* One call more is one more in the sum. *)
LEMMA OneMoreFor ==
  ASSUME NEW f, NEW h, NEW c \in Calls,
         \A d \in Calls : f[d] \in Int, \A d \in Calls \ {c} : h[d] = f[d], h[c] = f[c] + 1
  PROVE  SumOver(Calls, h) = SumOver(Calls, f) + 1
<1>1. f[c] \in Int /\ h[c] \in Int
  OBVIOUS
<1>2. SumOver(Calls, h) = SumOver(Calls, f) + (h[c] - f[c])
  BY <1>1, SumChanged, ServiceAssumption
<1>3. h[c] - f[c] = 1
  BY <1>1
<1> QED BY <1>2, <1>3

LEMMA OneMore ==
  ASSUME NEW f \in [Calls -> Nat], NEW c \in Calls,
         NEW h, h = [f EXCEPT ![c] = @ + 1]
  PROVE  SumOver(Calls, h) = SumOver(Calls, f) + 1
<1>1. /\ \A d \in Calls : f[d] \in Int
      /\ \A d \in Calls \ {c} : h[d] = f[d]
      /\ h[c] = f[c] + 1
  OBVIOUS
<1> QED BY <1>1, OneMoreFor

LEMMA SumsAreNumbers ==
  ASSUME ServiceTypes, SpendingInv
  PROVE  /\ SumOver(Calls, spent) \in Int /\ SumOver(Calls, used) \in Int
         /\ IsFiniteSet(checked) /\ Cardinality(checked) \in Nat
<1>1. \A d \in Calls : spent[d] \in Int /\ used[d] \in Int
  BY DEF ServiceTypes
<1>2. IsFiniteSet(checked) /\ Cardinality(checked) \in Nat
  BY ServiceAssumption, FS_Subset, FS_CardinalityType DEF SpendingInv
<1> QED BY <1>1, <1>2, SumInt, ServiceAssumption

LEMMA ProbesKeeps ==
  ASSUME IInv, NEW c \in Calls, Probes(c)
  PROVE  IInv'
<1>1. /\ at' = [at EXCEPT ![c] = "probing"] /\ spent' = [spent EXCEPT ![c] = @ + 1]
      /\ holder' = c /\ holder \in {None, c}
      /\ runs[c] = None /\ cache[objective[c]] = None /\ physical' = physical + 1
      /\ UNCHANGED <<objective, used, runs, charge, pending, cache, probes, resets, checked>>
  BY DEF IInv, LockInv, FirstRuntimeInv, Probes, ProbeCalls
<1>2. ServiceTypes'
  BY <1>1 DEF IInv, ServiceTypes, Standing
<1>3. LockInv'
  BY <1>1, ServiceAssumption DEF IInv, ServiceTypes, LockInv
<1>4. FirstRuntimeInv'
  BY <1>1 DEF IInv, ServiceTypes, FirstRuntimeInv
<1>5. ChargedToBuilder'
  BY <1>1, ServiceAssumption DEF IInv, ServiceTypes, ChargedToBuilder
<1>6. physical' = SumOver(Calls, spent') + SumOver(Calls, used') + Cardinality(checked')
  <2>1. SumOver(Calls, spent') = SumOver(Calls, spent) + 1
    BY <1>1, OneMore DEF IInv, ServiceTypes
  <2>2. physical = SumOver(Calls, spent) + SumOver(Calls, used) + Cardinality(checked)
    BY DEF IInv, SpendingInv
  <2> QED BY <1>1, <2>1, <2>2, SumsAreNumbers DEF IInv
<1>7. SpendingInv'
  <2>1. /\ \A d \in Calls : at'[d] \in {"idle", "queued"} => spent'[d] = 0
        /\ \A d \in Calls : runs'[d] \notin {None, d} => spent'[d] = 0
        /\ \A d \in Calls : runs'[d] = None => used'[d] = 0
        /\ \A d \in Calls : at'[d] \in {"running", "verifying"} => runs'[d] # None
    BY <1>1 DEF IInv, ServiceTypes, SpendingInv
  <2>2. c \notin checked
    BY DEF IInv, SpendingInv, Probes
  <2>3. /\ checked' \subseteq Calls
        /\ \A d \in checked' : at'[d] \notin {"idle", "queued", "probing", "running"}
    BY <1>1, <2>2 DEF IInv, ServiceTypes, SpendingInv
  <2> QED BY <1>6, <2>1, <2>3 DEF SpendingInv
<1> QED BY <1>2, <1>3, <1>4, <1>5, <1>7 DEF IInv

(* The run's own calls are used, and not spent. *)
LEMMA UsesKeeps ==
  ASSUME IInv, NEW c \in Calls, Uses(c)
  PROVE  IInv'
<1>1. /\ used' = [used EXCEPT ![c] = @ + 1] /\ physical' = physical + 1
      /\ runs[c] # None
      /\ UNCHANGED <<at, objective, spent, runs, charge, pending, cache, holder, probes, resets,
                     checked>>
  BY DEF Uses, IInv, SpendingInv
<1>2. ServiceTypes'
  BY <1>1 DEF IInv, ServiceTypes
<1>3. LockInv' /\ FirstRuntimeInv' /\ ChargedToBuilder'
  BY <1>1 DEF IInv, LockInv, FirstRuntimeInv, ChargedToBuilder
<1>4. physical' = SumOver(Calls, spent') + SumOver(Calls, used') + Cardinality(checked')
  <2>1. SumOver(Calls, used') = SumOver(Calls, used) + 1
    BY <1>1, OneMore DEF IInv, ServiceTypes
  <2>2. physical = SumOver(Calls, spent) + SumOver(Calls, used) + Cardinality(checked)
    BY DEF IInv, SpendingInv
  <2> QED BY <1>1, <2>1, <2>2, SumsAreNumbers DEF IInv
<1>5. SpendingInv'
  BY <1>1, <1>4 DEF IInv, ServiceTypes, SpendingInv
<1> QED BY <1>2, <1>3, <1>5 DEF IInv

(* A run that goes to the check of its answer has none checked before, and  *)
(* makes no call after it.                                                  *)
LEMMA ChecksKeeps ==
  ASSUME IInv, NEW c \in Calls, Checks(c)
  PROVE  IInv'
<1>1. /\ at' = [at EXCEPT ![c] = "verifying"] /\ checked' = checked \cup {c}
      /\ physical' = physical + 1 /\ runs[c] # None /\ c \notin checked
      /\ UNCHANGED <<objective, spent, used, runs, charge, pending, cache, holder, probes, resets>>
      /\ at[c] = "running"
  BY DEF Checks, IInv, SpendingInv
<1>2. ServiceTypes'
  BY <1>1 DEF IInv, ServiceTypes, Standing
<1>3. LockInv'
  BY <1>1, ServiceAssumption DEF IInv, ServiceTypes, LockInv
<1>4. FirstRuntimeInv' /\ ChargedToBuilder'
  BY <1>1 DEF IInv, ServiceTypes, FirstRuntimeInv, ChargedToBuilder
<1>5. physical' = SumOver(Calls, spent') + SumOver(Calls, used') + Cardinality(checked')
  <2>1. Cardinality(checked') = Cardinality(checked) + 1
    BY <1>1, SumsAreNumbers, FS_AddElement DEF IInv
  <2>2. physical = SumOver(Calls, spent) + SumOver(Calls, used) + Cardinality(checked)
    BY DEF IInv, SpendingInv
  <2> QED BY <1>1, <2>1, <2>2, SumsAreNumbers DEF IInv
<1>6. SpendingInv'
  BY <1>1, <1>5 DEF IInv, ServiceTypes, SpendingInv
<1> QED BY <1>2, <1>3, <1>4, <1>6 DEF IInv

LEMMA MovesKeeps ==
  ASSUME IInv, NEW c \in Calls, Moves(c)
  PROVE  IInv'
<1>1. PICK place \in Standing \ {"idle", "probing", "running", "verifying"} :
        /\ place = "queued" => at[c] = "idle"
        /\ at' = [at EXCEPT ![c] = place]
  BY DEF Moves
<1>2. /\ holder' = IF holder = c THEN None ELSE holder
      /\ UNCHANGED <<objective, spent, used, runs, charge, pending, cache, probes, resets,
                     checked, physical>>
  BY DEF Moves
<1>3. ServiceTypes'
  BY <1>1, <1>2 DEF IInv, ServiceTypes
<1>4. LockInv'
  BY <1>1, <1>2, ServiceAssumption DEF IInv, ServiceTypes, LockInv
<1>5. FirstRuntimeInv'
  BY <1>1, <1>2 DEF IInv, ServiceTypes, FirstRuntimeInv
<1>6. ChargedToBuilder'
  BY <1>2 DEF IInv, ChargedToBuilder
<1>7. SpendingInv'
  BY <1>1, <1>2 DEF IInv, ServiceTypes, SpendingInv
<1> QED BY <1>3, <1>4, <1>5, <1>6, <1>7 DEF IInv

LEMMA ResetKeeps ==
  ASSUME IInv, ResetFactoryCache
  PROVE  IInv'
<1>1. /\ cache' = [o \in Objectives |-> None] /\ resets' = resets + 1
      /\ UNCHANGED <<at, objective, spent, used, runs, charge, pending, holder, probes,
                     checked, physical>>
  BY DEF ResetFactoryCache, callVars
<1>2. ServiceTypes'
  BY <1>1 DEF IInv, ServiceTypes
<1>3. LockInv'
  BY <1>1 DEF IInv, ServiceTypes, LockInv
<1>4. FirstRuntimeInv' /\ ChargedToBuilder' /\ SpendingInv'
  BY <1>1 DEF IInv, FirstRuntimeInv, ChargedToBuilder, SpendingInv
<1> QED BY <1>2, <1>3, <1>4 DEF IInv

LEMMA StepKeeps == IInv /\ [Next]_vars => IInv'
<1>1. ASSUME IInv, Quiet PROVE IInv'
  BY <1>1 DEF IInv, ServiceTypes, LockInv, FirstRuntimeInv, ChargedToBuilder, SpendingInv, Quiet
<1> QED BY <1>1, StepShape, SharesKeeps, CreatesKeeps, ProbesKeeps, MovesKeeps, UsesKeeps,
   ChecksKeeps, ResetKeeps

LEMMA InvHolds == Spec => []IInv
BY InitHolds, StepKeeps, PTL DEF Spec

-----------------------------------------------------------------------------
(* However many calls meet on a cold cache, in whatever order they are      *)
(* woken, fail or are cancelled, one probe is under way at most, and an     *)
(* objective is verified again only after a reset (server.py:57).           *)
THEOREM ProbesAreShared == Spec => []ProbesShared
<1>1. IInv => ProbesShared
  <2> SUFFICES ASSUME IInv PROVE ProbesShared
    OBVIOUS
  <2> DEFINE probing == {c \in Calls : at[c] = "probing"}
  <2>1. probing \subseteq {holder}
    BY DEF IInv, LockInv
  <2>2. Cardinality(probing) <= 1
    <3>1. IsFiniteSet({holder}) /\ Cardinality({holder}) = 1
      BY FS_Singleton
    <3>2. Cardinality(probing) <= Cardinality({holder})
      BY <2>1, <3>1, FS_Subset
    <3> QED BY <3>1, <3>2
  <2>3. \A o \in Objectives : probes[o] <= 1 + resets
    BY DEF IInv, ServiceTypes, LockInv
  <2> QED BY <2>2, <2>3 DEF ProbesShared
<1> QED BY <1>1, InvHolds, PTL

(* The calls of a probe are on the bill of the run whose call made it, and  *)
(* on no other run of the factory, cached or not (bootstrap.py:902).        *)
THEOREM ProbesAreCharged == Spec => []ChargedToBuilder
BY InvHolds, PTL DEF IInv

(* What a call spent on a probe is what its run is charged, whether it     *)
(* built the factory or shares one; what builds without a run spent is the  *)
(* rest.                                                                    *)
LEMMA BilledOnce == IInv => CallsBilledOnce
<1>. SUFFICES ASSUME IInv PROVE CallsBilledOnce
  OBVIOUS
<1> DEFINE Running == {c \in Calls : runs[c] # None}
<1>1. /\ IsFiniteSet(Calls) /\ Running \in SUBSET Calls /\ IsFiniteSet(Running)
      /\ \A c \in Calls : spent[c] \in Int /\ used[c] \in Int
  BY ServiceAssumption, FS_Subset DEF IInv, ServiceTypes
<1>2. \A c \in Running : charge[c] = spent[c]
  BY DEF IInv, ServiceTypes, ChargedToBuilder, SpendingInv
<1>3. \A c \in Calls \ Running : used[c] = 0
  BY DEF IInv, SpendingInv
<1> HIDE DEF Running
<1>4. Total(charge, Running) = SumOver(Running, spent)
  BY <1>1, <1>2, SumSame, TotalIsSum
<1>5. Total(used, Running) = SumOver(Calls, used)
  BY <1>1, <1>3, SumWithin, TotalIsSum
<1>6. SumOver(Calls, spent) = SumOver(Running, spent) + SumOver(Calls \ Running, spent)
  BY <1>1, SumSplit
<1>7. /\ SumOver(Running, spent) \in Int /\ SumOver(Calls, used) \in Int
      /\ SumOver(Calls \ Running, spent) \in Int
  <2>1. IsFiniteSet(Calls \ Running)
    BY <1>1, FS_Subset
  <2> QED BY <1>1, <2>1, SumInt
<1>8. \A i, j, k, n \in Int : (i + j) + k + n = i + k + j + n
  OBVIOUS
<1>9. /\ physical = SumOver(Calls, spent) + SumOver(Calls, used) + Cardinality(checked)
      /\ Cardinality(checked) \in Int
  BY SumsAreNumbers DEF IInv, SpendingInv
<1>10. physical = Total(charge, Running) + Total(used, Running) + Total(spent, Calls \ Running)
                    + Cardinality(checked)
  BY <1>4, <1>5, <1>6, <1>7, <1>8, <1>9, TotalIsSum
<1> QED BY <1>10 DEF CallsBilledOnce, Running

(* Every subscription call that a gate admits is on one bill.  What a call  *)
(* spent on a probe is what its run is charged, whether it built the factory *)
(* or shares one; so the bills of the runs, what builds without a run spent, *)
(* and one call for each answer checked make up all that was called          *)
(* (bootstrap.py:902, runtime.py:1106).                                      *)
THEOREM CallsAreBilledOnce == Spec => []CallsBilledOnce
BY BilledOnce, InvHolds, PTL

-----------------------------------------------------------------------------
(* The ledger.  Bytes split into pieces from their end, so what is appended  *)
(* or read in front of them changes one piece only.                          *)

Byte == {LF} \cup (Records \X (1..RecordBytes))
ByteSeqs == Seq(Byte)
PieceSeqs == Seq(ByteSeqs) \ {<<>>}

(* What a byte adds to the pieces of what follows it. *)
Ahead(byte, rest) ==
  IF byte = LF THEN << <<>> >> \o rest
  ELSE << <<byte>> \o Head(rest) >> \o Tail(rest)

LEMMA AheadPieces ==
  ASSUME NEW byte \in Byte, NEW rest \in PieceSeqs
  PROVE  Ahead(byte, rest) \in PieceSeqs
<1>. DEFINE S == ByteSeqs
<1>1. <<>> \in S /\ rest \in Seq(S) /\ rest # <<>> /\ Head(rest) \in Seq(Byte)
      /\ Tail(rest) \in Seq(S)
  BY DEF PieceSeqs, ByteSeqs
<1>2. <<byte>> \o Head(rest) \in S
  BY <1>1 DEF ByteSeqs
<1>. HIDE DEF S
<1>3. \A x \in S, s \in Seq(S) : <<x>> \o s \in Seq(S) /\ <<x>> \o s # <<>>
  OBVIOUS
<1>. QED  BY <1>1, <1>2, <1>3 DEF Ahead, PieceSeqs, S

(* The recursion of Pieces has a solution, and Pieces is its value. *)
IsSplit(g, bytes) ==
  /\ g \in [0..Len(bytes) -> PieceSeqs]
  /\ g[0] = << <<>> >>
  /\ \A k \in 1..Len(bytes) : g[k] = Ahead(bytes[Len(bytes) - k + 1], g[k - 1])

LEMMA PiecesSplit ==
  ASSUME NEW bytes \in ByteSeqs
  PROVE  \E g : IsSplit(g, bytes) /\ Pieces(bytes) = g[Len(bytes)]
<1>. DEFINE n == Len(bytes)
            Is(g) == g = [k \in 0..Len(bytes) |->
               IF k = 0 THEN << <<>> >>
               ELSE LET byte == bytes[Len(bytes) - k + 1]
                        rest == g[k - 1]
                    IN  IF byte = LF THEN << <<>> >> \o rest
                        ELSE << <<byte>> \o Head(rest) >> \o Tail(rest)]
            it == CHOOSE g : Is(g)
            step == [p \in (1..n) \X PieceSeqs |-> Ahead(bytes[n - p[1] + 1], p[2])]
            first == << <<>> >>
<1>1. n \in Nat /\ \A k \in 1..n : bytes[n - k + 1] \in Byte
  BY DEF ByteSeqs
<1>2. first \in PieceSeqs
  BY DEF PieceSeqs, ByteSeqs
<1>3. step \in [(1..n) \X PieceSeqs -> PieceSeqs]
  BY <1>1, AheadPieces
<1>4. PICK h : Solves(h, n, PieceSeqs, first, step)
  <2>. HIDE DEF step, n, first
  <2>. QED  BY <1>1, <1>2, <1>3, Recursion
<1>5. Is(h)
  <2>1. h \in [0..n -> PieceSeqs] /\ h[0] = first
    BY <1>4 DEF Solves
  <2>2. ASSUME NEW k \in 1..n PROVE h[k] = Ahead(bytes[n - k + 1], h[k - 1])
    <3>1. h[k] = step[<<k, h[k - 1]>>]
      BY <1>4 DEF Solves
    <3>2. h[k - 1] \in PieceSeqs
      BY <1>1, <2>1
    <3>. QED  BY <3>1, <3>2
  <2>3. \A k \in 0..n : k = 0 \/ k \in 1..n
    BY <1>1
  <2>. QED  BY <2>1, <2>2, <2>3 DEF Ahead
<1>6. Is(it)
  <2>. HIDE DEF Is
  <2>. QED  BY <1>5
<1>7. Pieces(bytes) = it[n]
  BY DEF Pieces
<1>. HIDE DEF it
<1>8. it[0] = first /\ \A k \in 1..n : it[k] = Ahead(bytes[n - k + 1], it[k - 1])
  <2>1. it[0] = first
    BY <1>1, <1>6
  <2>2. ASSUME NEW k \in 1..n PROVE it[k] = Ahead(bytes[n - k + 1], it[k - 1])
    <3>1. k \in 0..Len(bytes) /\ k # 0
      BY <1>1
    <3>. QED  BY <1>6, <3>1 DEF Ahead
  <2>. QED  BY <2>1, <2>2
<1>9. \A k \in 0..n : it[k] \in PieceSeqs
  <2>. DEFINE G == {k \in 0..n : it[k] \in PieceSeqs}
  <2>1. 0 \in G
    BY <1>1, <1>2, <1>8
  <2>2. \A k \in 1..n : k - 1 \in G => k \in G
    BY <1>1, <1>8, AheadPieces
  <2>3. 0..n \subseteq G
    <3>. HIDE DEF G, n
    <3>. QED  BY <1>1, <2>1, <2>2, InductionUpTo
  <2>. QED  BY <2>3
<1>10. it = [k \in 0..n |-> it[k]]
  BY <1>6
<1>11. it \in [0..n -> PieceSeqs]
  <2>. HIDE DEF n
  <2>. QED  BY <1>9, <1>10
<1>. QED  BY <1>7, <1>8, <1>11 DEF IsSplit

LEMMA PiecesType ==
  ASSUME NEW bytes \in ByteSeqs
  PROVE  Pieces(bytes) \in PieceSeqs
<1>1. PICK g : IsSplit(g, bytes) /\ Pieces(bytes) = g[Len(bytes)]
  BY PiecesSplit
<1>2. Len(bytes) \in Nat
  BY DEF ByteSeqs
<1>3. Len(bytes) \in 0..Len(bytes)
  BY <1>2
<1>. QED  BY <1>1, <1>3 DEF IsSplit

(* So the pieces are built from the end, a byte at a time. *)
LEMMA NoPieces == Pieces(<<>>) = << <<>> >>
<1>1. <<>> \in ByteSeqs /\ Len(<<>>) = 0
  BY DEF ByteSeqs
<1>2. PICK g : IsSplit(g, <<>>) /\ Pieces(<<>>) = g[0]
  BY <1>1, PiecesSplit
<1>. QED  BY <1>2 DEF IsSplit

LEMMA PiecesAhead ==
  ASSUME NEW byte \in Byte, NEW bytes \in ByteSeqs
  PROVE  Pieces(<<byte>> \o bytes) = Ahead(byte, Pieces(bytes))
<1>. DEFINE all == <<byte>> \o bytes
            n == Len(bytes)
<1>1. /\ all \in ByteSeqs /\ n \in Nat /\ Len(all) = n + 1 /\ all[1] = byte
      /\ \A i \in 1..n : all[i + 1] = bytes[i]
  BY DEF ByteSeqs
<1>2. PICK g : IsSplit(g, all) /\ Pieces(all) = g[Len(all)]
  <2>. HIDE DEF all
  <2>. QED  BY <1>1, PiecesSplit
<1>3. PICK h : IsSplit(h, bytes) /\ Pieces(bytes) = h[n]
  BY PiecesSplit
<1>. HIDE DEF all, n
<1>4. 0..n \subseteq {k \in 0..n : g[k] = h[k]}
  <2>. DEFINE G == {k \in 0..n : g[k] = h[k]}
  <2>1. 0 \in G
    BY <1>1, <1>2, <1>3 DEF IsSplit
  <2>2. ASSUME NEW k \in 1..n, k - 1 \in G PROVE k \in G
    <3>1. /\ k \in 1..Len(all) /\ Len(all) - k + 1 = (n - k + 1) + 1
          /\ n - k + 1 \in 1..n
      BY <1>1
    <3>2. g[k] = Ahead(all[(n - k + 1) + 1], g[k - 1])
      BY <1>2, <3>1 DEF IsSplit
    <3>3. h[k] = Ahead(bytes[n - k + 1], h[k - 1])
      BY <1>3 DEF IsSplit, n
    <3>4. all[(n - k + 1) + 1] = bytes[n - k + 1]
      BY <1>1, <3>1
    <3>5. g[k - 1] = h[k - 1]
      BY <2>2
    <3>6. g[k] = h[k]
      BY <3>2, <3>3, <3>4, <3>5
    <3>. QED  BY <1>1, <3>6
  <2>. HIDE DEF G
  <2>3. 0..n \subseteq G
    BY <1>1, <2>1, <2>2, InductionUpTo
  <2>. QED  BY <2>3 DEF G
<1>5. g[n] = h[n] /\ n + 1 \in 1..Len(all) /\ Len(all) - (n + 1) + 1 = 1 /\ (n + 1) - 1 = n
  BY <1>1, <1>4
<1>6. g[n + 1] = Ahead(all[1], g[n])
  BY <1>2, <1>5 DEF IsSplit
<1>7. Pieces(all) = Ahead(byte, Pieces(bytes))
  BY <1>1, <1>2, <1>3, <1>5, <1>6
<1>. QED  BY <1>7 DEF all

(* Bytes without a line feed are one piece, and every piece is such bytes.  *)
Plain(bytes) == \A i \in 1..Len(bytes) : bytes[i] # LF

LEMMA Consing ==
  ASSUME NEW S, NEW e \in S, NEW s \in Seq(S)
  PROVE  /\ <<e>> \o s \in Seq(S) /\ <<e>> \o s # <<>> /\ Len(<<e>> \o s) = Len(s) + 1
         /\ Head(<<e>> \o s) = e /\ Tail(<<e>> \o s) = s /\ (<<e>> \o s)[1] = e
         /\ \A i \in 1..Len(s) : (<<e>> \o s)[i + 1] = s[i]
OBVIOUS

LEMMA Parting ==
  ASSUME NEW S, NEW s \in Seq(S), s # <<>>
  PROVE  /\ Head(s) \in S /\ Tail(s) \in Seq(S) /\ s = <<Head(s)>> \o Tail(s)
         /\ Len(s) = Len(Tail(s)) + 1 /\ s[1] = Head(s)
         /\ \A i \in 1..Len(Tail(s)) : s[i + 1] = Tail(s)[i]
OBVIOUS

LEMMA Assoc3 ==
  ASSUME NEW S, NEW e \in S, NEW s \in Seq(S), NEW t \in Seq(S)
  PROVE  (<<e>> \o s) \o t = <<e>> \o (s \o t)
BY <<e>> \in Seq(S), ConcatAssociative

LEMMA PlainCons ==
  ASSUME NEW e \in Byte, NEW s \in ByteSeqs
  PROVE  Plain(<<e>> \o s) <=> e # LF /\ Plain(s)
<1>1. /\ Len(<<e>> \o s) = Len(s) + 1 /\ (<<e>> \o s)[1] = e /\ Len(s) \in Nat
      /\ \A i \in 1..Len(s) : (<<e>> \o s)[i + 1] = s[i]
  BY Consing DEF ByteSeqs
<1>. DEFINE t == <<e>> \o s
<1>. HIDE DEF t
<1>2. ASSUME Plain(t) PROVE e # LF /\ Plain(s)
  <2>1. 1 \in 1..Len(t) /\ \A i \in 1..Len(s) : i + 1 \in 1..Len(t)
    BY <1>1 DEF t
  <2>. QED  BY <1>1, <1>2, <2>1 DEF Plain, t
<1>3. ASSUME e # LF, Plain(s) PROVE Plain(t)
  <2>1. \A i \in 1..Len(t) : i = 1 \/ (i - 1 \in 1..Len(s) /\ (i - 1) + 1 = i)
    BY <1>1 DEF t
  <2>. QED  BY <1>1, <1>3, <2>1 DEF Plain, t
<1>. QED  BY <1>2, <1>3 DEF t

LEMMA PlainPieces ==
  /\ \A bytes \in ByteSeqs : Plain(bytes) => Pieces(bytes) = <<bytes>>
  /\ \A bytes \in ByteSeqs : \A i \in 1..Len(Pieces(bytes)) : Plain(Pieces(bytes)[i])
<1>. DEFINE G == {s \in ByteSeqs : Plain(s) => Pieces(s) = <<s>>}
            H == {s \in ByteSeqs : \A i \in 1..Len(Pieces(s)) : Plain(Pieces(s)[i])}
<1>1. <<>> \in G /\ <<>> \in H
  <2>1. <<>> \in ByteSeqs
    BY DEF ByteSeqs
  <2>2. Pieces(<<>>) = << <<>> >> /\ Plain(<<>>)
    BY NoPieces DEF Plain
  <2>3. \A i \in 1..Len(Pieces(<<>>)) : Pieces(<<>>)[i] = <<>>
    BY <2>2
  <2>. QED  BY <2>1, <2>2, <2>3
<1>2. ASSUME NEW s \in ByteSeqs, NEW e \in Byte
      PROVE  /\ s \in G => <<e>> \o s \in G
             /\ s \in H => <<e>> \o s \in H
  <2>. DEFINE t == <<e>> \o s
  <2>1. t \in ByteSeqs
    BY DEF ByteSeqs
  <2>2. Pieces(t) = Ahead(e, Pieces(s)) /\ Pieces(s) \in PieceSeqs
    BY PiecesAhead, PiecesType
  <2>3. ASSUME s \in G, Plain(t) PROVE Pieces(t) = <<t>>
    <3>1. e # LF /\ Plain(s)
      BY <2>3, PlainCons
    <3>2. Pieces(s) = <<s>>
      BY <2>3, <3>1
    <3>3. Head(<<s>>) = s /\ Tail(<<s>>) = <<>>
      OBVIOUS
    <3>4. <<t>> \o <<>> = <<t>>
      OBVIOUS
    <3>. HIDE DEF G
    <3>. QED  BY <2>2, <3>1, <3>2, <3>3, <3>4 DEF Ahead
  <2>4. ASSUME s \in H, NEW i \in 1..Len(Pieces(t)) PROVE Plain(Pieces(t)[i])
    <3>. DEFINE p == Pieces(s)
    <3>1. p \in Seq(ByteSeqs) /\ p # <<>> /\ \A j \in 1..Len(p) : Plain(p[j])
      BY <2>2, <2>4 DEF PieceSeqs
    <3>. HIDE DEF p, t
    <3>2. CASE e = LF
      <4>1. Pieces(t) = << <<>> >> \o p
        BY <2>2, <3>2 DEF Ahead, p
      <4>2. <<>> \in ByteSeqs
        BY DEF ByteSeqs
      <4>3. /\ Len(Pieces(t)) = Len(p) + 1 /\ Pieces(t)[1] = <<>>
            /\ \A j \in 1..Len(p) : Pieces(t)[j + 1] = p[j]
        BY <3>1, <4>1, <4>2, Consing
      <4>4. Len(p) \in Nat /\ (i = 1 \/ (i - 1 \in 1..Len(p) /\ (i - 1) + 1 = i))
        BY <3>1, <4>3
      <4>5. Plain(<<>>)
        BY DEF Plain
      <4>. QED  BY <3>1, <4>3, <4>4, <4>5
    <3>3. CASE e # LF
      <4>. DEFINE h == <<e>> \o Head(p)
                  r == Tail(p)
      <4>1. Pieces(t) = <<h>> \o r
        BY <2>2, <3>3 DEF Ahead, p
      <4>2. /\ Head(p) \in ByteSeqs /\ r \in Seq(ByteSeqs) /\ p[1] = Head(p)
            /\ Len(p) = Len(r) + 1 /\ \A j \in 1..Len(r) : p[j + 1] = r[j]
        BY <3>1, Parting
      <4>3. h \in ByteSeqs
        BY <4>2 DEF ByteSeqs
      <4>4. Plain(h)
        BY <3>1, <3>3, <4>2, PlainCons
      <4>. HIDE DEF h, r
      <4>5. /\ Len(Pieces(t)) = Len(r) + 1 /\ Pieces(t)[1] = h
            /\ \A j \in 1..Len(r) : Pieces(t)[j + 1] = r[j]
        BY <4>1, <4>2, <4>3, Consing
      <4>6. Len(r) \in Nat /\ (i = 1 \/ (i - 1 \in 1..Len(r) /\ (i - 1) + 1 = i))
        BY <4>2, <4>5
      <4>7. \A j \in 1..Len(r) : j + 1 \in 1..Len(p)
        BY <4>2, <4>6
      <4>. QED  BY <3>1, <4>2, <4>4, <4>5, <4>6, <4>7
    <3>. QED  BY <3>2, <3>3
  <2>. QED  BY <2>1, <2>3, <2>4
<1>3. Seq(Byte) \subseteq G /\ Seq(Byte) \subseteq H
  <2>. HIDE DEF G, H
  <2>. QED  BY <1>1, <1>2, HeadInduction DEF ByteSeqs
<1>. QED  BY <1>3 DEF ByteSeqs

(* What stands before some bytes changes the first of their pieces only.    *)
LEMMA PiecesJoin ==
  ASSUME NEW y \in ByteSeqs, NEW x \in ByteSeqs
  PROVE  Pieces(x \o y) = Pieces(x \o Head(Pieces(y))) \o Tail(Pieces(y))
<1>. DEFINE h == Head(Pieces(y))
            r == Tail(Pieces(y))
            G == {s \in ByteSeqs : Pieces(s \o y) = Pieces(s \o h) \o r}
<1>1. /\ h \in ByteSeqs /\ r \in Seq(ByteSeqs) /\ Pieces(y) = <<h>> \o r /\ Plain(h)
  <2>1. Pieces(y) \in Seq(ByteSeqs) /\ Pieces(y) # <<>>
    BY PiecesType DEF PieceSeqs
  <2>2. h \in ByteSeqs /\ r \in Seq(ByteSeqs) /\ Pieces(y) = <<h>> \o r /\ Pieces(y)[1] = h
        /\ 1 \in 1..Len(Pieces(y))
    BY <2>1
  <2>3. \A i \in 1..Len(Pieces(y)) : Plain(Pieces(y)[i])
    BY PlainPieces
  <2>. QED  BY <2>2, <2>3
<1>. HIDE DEF h, r
<1>2. <<>> \in G
  <2>1. <<>> \in ByteSeqs /\ <<>> \o y = y /\ <<>> \o h = h
    BY <1>1 DEF ByteSeqs
  <2>2. Pieces(h) = <<h>>
    BY <1>1, PlainPieces
  <2>. QED  BY <1>1, <2>1, <2>2
<1>3. ASSUME NEW s \in ByteSeqs, NEW e \in Byte, s \in G PROVE <<e>> \o s \in G
  <2>. DEFINE all == s \o y
              some == s \o h
              p == Pieces(some)
  <2>1. /\ all \in ByteSeqs /\ some \in ByteSeqs /\ <<e>> \o s \in ByteSeqs
        /\ (<<e>> \o s) \o y = <<e>> \o all /\ (<<e>> \o s) \o h = <<e>> \o some
    <3>1. s \in Seq(Byte) /\ y \in Seq(Byte) /\ h \in Seq(Byte)
      BY <1>1 DEF ByteSeqs
    <3>2. all \in ByteSeqs /\ some \in ByteSeqs /\ <<e>> \o s \in ByteSeqs
      BY <3>1 DEF ByteSeqs
    <3>3. (<<e>> \o s) \o y = <<e>> \o all /\ (<<e>> \o s) \o h = <<e>> \o some
      BY SMTT(30), <3>1, Assoc3
    <3>. QED  BY <3>2, <3>3
  <2>2. Pieces(all) = p \o r
    BY <1>3
  <2>. HIDE DEF all, some
  <2>3. p \in Seq(ByteSeqs) /\ p # <<>>
    BY <2>1, PiecesType DEF PieceSeqs
  <2>4. Pieces(<<e>> \o all) = Ahead(e, p \o r) /\ Pieces(<<e>> \o some) = Ahead(e, p)
    BY <2>1, <2>2, PiecesAhead
  <2>. HIDE DEF p
  <2>5. Ahead(e, p \o r) = Ahead(e, p) \o r
    <3>1. CASE e = LF
      <4>1. <<>> \in ByteSeqs
        BY DEF ByteSeqs
      <4>. QED  BY <1>1, <2>3, <3>1, <4>1, Assoc3 DEF Ahead
    <3>2. CASE e # LF
      <4>1. /\ Head(p \o r) = Head(p) /\ Tail(p \o r) = Tail(p) \o r
            /\ Head(p) \in ByteSeqs /\ Tail(p) \in Seq(ByteSeqs)
        BY <1>1, <2>3
      <4>2. <<e>> \o Head(p) \in ByteSeqs
        BY <4>1 DEF ByteSeqs
      <4>. QED  BY SMTT(30), <1>1, <3>2, <4>1, <4>2, Assoc3 DEF Ahead
    <3>. QED  BY <3>1, <3>2
  <2>. QED  BY <2>1, <2>4, <2>5 DEF p, all, some
<1>4. Seq(Byte) \subseteq G
  <2>. HIDE DEF G
  <2>. QED  BY <1>2, <1>3, HeadInduction DEF ByteSeqs
<1>. QED  BY <1>4 DEF ByteSeqs, h, r

(* A plain end of some bytes ends one of their pieces. *)
LEMMA PieceEnds ==
  ASSUME NEW h \in ByteSeqs, Plain(h), NEW x \in ByteSeqs
  PROVE  \E i \in 1..Len(Pieces(x \o h)), u \in ByteSeqs : Pieces(x \o h)[i] = u \o h
<1>. DEFINE Ends(p) == \E i \in 1..Len(p), u \in ByteSeqs : p[i] = u \o h
            G == {s \in ByteSeqs : Ends(Pieces(s \o h))}
<1>0. <<>> \in ByteSeqs
  BY DEF ByteSeqs
<1>1. <<>> \in G
  <2>1. <<>> \o h = h /\ Pieces(h) = <<h>>
    BY PlainPieces DEF ByteSeqs
  <2>2. <<h>>[1] = <<>> \o h /\ 1 \in 1..Len(<<h>>)
    BY <2>1
  <2>3. Ends(<<h>>)
    BY <1>0, <2>2
  <2>. HIDE DEF Ends
  <2>. QED  BY <1>0, <2>1, <2>3
<1>2. ASSUME NEW s \in ByteSeqs, NEW e \in Byte, s \in G PROVE <<e>> \o s \in G
  <2>. DEFINE all == s \o h
              p == Pieces(all)
  <2>1. all \in ByteSeqs /\ <<e>> \o s \in ByteSeqs /\ (<<e>> \o s) \o h = <<e>> \o all
    BY Assoc3 DEF ByteSeqs
  <2>2. p \in Seq(ByteSeqs) /\ p # <<>>
    <3>. HIDE DEF all
    <3>. QED  BY <2>1, PiecesType DEF PieceSeqs
  <2>3. Pieces(<<e>> \o all) = Ahead(e, p)
    <3>. HIDE DEF all
    <3>. QED  BY <2>1, PiecesAhead
  <2>4. PICK i \in 1..Len(p), u \in ByteSeqs : p[i] = u \o h
    BY <1>2
  <2>. HIDE DEF p
  <2>5. Ends(Ahead(e, p))
    <3>1. CASE e = LF
      <4>1. /\ Ahead(e, p) = << <<>> >> \o p /\ Len(Ahead(e, p)) = Len(p) + 1
            /\ Ahead(e, p)[i + 1] = p[i]
        BY <1>0, <2>2, <3>1, Consing DEF Ahead
      <4>2. Len(p) \in Nat /\ i + 1 \in 1..Len(p) + 1
        BY <2>2
      <4>. QED  BY <2>4, <4>1, <4>2
    <3>2. CASE e # LF
      <4>. DEFINE g == <<e>> \o Head(p)
                  r == Tail(p)
      <4>1. /\ Head(p) \in ByteSeqs /\ r \in Seq(ByteSeqs) /\ p[1] = Head(p)
            /\ Len(p) = Len(r) + 1 /\ \A j \in 1..Len(r) : p[j + 1] = r[j]
        BY <2>2, Parting
      <4>2. g \in ByteSeqs /\ Ahead(e, p) = <<g>> \o r
        BY <3>2, <4>1 DEF Ahead, ByteSeqs
      <4>. HIDE DEF r
      <4>3. /\ Len(Ahead(e, p)) = Len(r) + 1 /\ Ahead(e, p)[1] = g
            /\ \A j \in 1..Len(r) : Ahead(e, p)[j + 1] = r[j]
        <5>. HIDE DEF g
        <5>. QED  BY <4>1, <4>2, Consing
      <4>4. Len(r) \in Nat /\ i \in 1..Len(r) + 1 /\ 1 \in 1..Len(r) + 1
        BY <4>1
      <4>5. CASE i = 1
        <5>1. <<e>> \o u \in ByteSeqs /\ (<<e>> \o u) \o h = <<e>> \o (u \o h)
          BY Assoc3 DEF ByteSeqs
        <5>2. g = (<<e>> \o u) \o h
          BY <2>4, <4>1, <4>5, <5>1
        <5>. HIDE DEF g
        <5>. QED  BY <4>3, <4>4, <5>1, <5>2
      <4>6. CASE i # 1
        <5>1. i - 1 \in 1..Len(r) /\ (i - 1) + 1 = i
          BY <4>4, <4>6
        <5>2. Ahead(e, p)[i] = u \o h
          BY <2>4, <4>1, <4>3, <5>1
        <5>. QED  BY <4>3, <4>4, <5>2
      <4>. QED  BY <4>5, <4>6
    <3>. QED  BY <3>1, <3>2
  <2>. HIDE DEF Ends
  <2>. QED  BY <2>1, <2>3, <2>5 DEF all
<1>3. Seq(Byte) \subseteq G
  <2>. HIDE DEF G
  <2>. QED  BY <1>1, <1>2, HeadInduction DEF ByteSeqs
<1>. QED  BY <1>3 DEF ByteSeqs

(* A line feed ends a piece, whatever follows.                              *)
LEMMA LineApart ==
  ASSUME NEW y \in ByteSeqs, NEW h \in ByteSeqs, Plain(h)
  PROVE  Pieces(h \o (<<LF>> \o y)) = <<h>> \o Pieces(y)
<1>. DEFINE z == <<LF>> \o y
            p == Pieces(y)
            G == {s \in ByteSeqs : Plain(s) => Pieces(s \o z) = <<s>> \o p}
<1>0. /\ <<>> \in ByteSeqs /\ LF \in Byte /\ z \in ByteSeqs /\ p \in Seq(ByteSeqs)
      /\ Pieces(z) = << <<>> >> \o p
  <2>1. LF \in Byte /\ <<>> \in ByteSeqs
    BY DEF Byte, ByteSeqs
  <2>2. z \in ByteSeqs /\ p \in PieceSeqs
    BY <2>1, PiecesType DEF ByteSeqs
  <2>3. Pieces(z) = Ahead(LF, p)
    BY <2>1, PiecesAhead
  <2>. QED  BY <2>1, <2>2, <2>3 DEF Ahead, PieceSeqs
<1>. HIDE DEF z, p
<1>1. <<>> \in G
  <2>1. <<>> \o z = z
    BY <1>0 DEF ByteSeqs
  <2>. QED  BY <1>0, <2>1
<1>2. ASSUME NEW s \in ByteSeqs, NEW e \in Byte, s \in G PROVE <<e>> \o s \in G
  <2>1. s \o z \in ByteSeqs /\ <<e>> \o s \in ByteSeqs /\ (<<e>> \o s) \o z = <<e>> \o (s \o z)
    BY <1>0, Assoc3 DEF ByteSeqs
  <2>2. ASSUME Plain(<<e>> \o s) PROVE Pieces((<<e>> \o s) \o z) = << <<e>> \o s >> \o p
    <3>1. e # LF /\ Plain(s)
      BY <2>2, PlainCons
    <3>2. Pieces(<<e>> \o (s \o z)) = Ahead(e, <<s>> \o p)
      BY <1>2, <2>1, <3>1, PiecesAhead
    <3>3. Head(<<s>> \o p) = s /\ Tail(<<s>> \o p) = p
      BY <1>0
    <3>. QED  BY <2>1, <3>1, <3>2, <3>3 DEF Ahead
  <2>. QED  BY <2>1, <2>2
<1>3. Seq(Byte) \subseteq G
  <2>. HIDE DEF G
  <2>. QED  BY <1>1, <1>2, HeadInduction DEF ByteSeqs
<1>. QED  BY <1>3 DEF ByteSeqs, z, p

(* Bytes that stand apart from each other in the pieces do in the whole.    *)
Twice(s, b) == \E i, j \in 1..Len(s) : i < j /\ s[i] = b /\ s[j] = b
Occurs(s, b) == \E i \in 1..Len(s) : s[i] = b

LEMMA OccursCons ==
  ASSUME NEW S, NEW e \in S, NEW s \in Seq(S), NEW b
  PROVE  /\ Occurs(<<e>> \o s, b) <=> e = b \/ Occurs(s, b)
         /\ Twice(s, b) => Twice(<<e>> \o s, b)
         /\ e = b /\ Occurs(s, b) => Twice(<<e>> \o s, b)
<1>. DEFINE t == <<e>> \o s
<1>1. /\ Len(t) = Len(s) + 1 /\ t[1] = e /\ Len(s) \in Nat
      /\ \A i \in 1..Len(s) : t[i + 1] = s[i]
  BY Consing
<1>. HIDE DEF t
<1>2. /\ 1 \in 1..Len(t) /\ \A i \in 1..Len(s) : i + 1 \in 1..Len(t)
      /\ \A i \in 1..Len(t) : i = 1 \/ (i - 1 \in 1..Len(s) /\ (i - 1) + 1 = i)
      /\ \A i, j \in 1..Len(s) : i < j => i + 1 < j + 1
      /\ \A i \in 1..Len(s) : 1 < i + 1
  BY <1>1
<1>3. Occurs(t, b) <=> e = b \/ Occurs(s, b)
  <2>1. ASSUME NEW i \in 1..Len(t), t[i] = b PROVE e = b \/ Occurs(s, b)
    <3>1. i = 1 \/ (i - 1 \in 1..Len(s) /\ (i - 1) + 1 = i)
      BY <1>2
    <3>2. i # 1 => s[i - 1] = b
      BY <1>1, <2>1, <3>1
    <3>. QED  BY <1>1, <2>1, <3>1, <3>2 DEF Occurs
  <2>2. e = b => Occurs(t, b)
    BY <1>1, <1>2 DEF Occurs
  <2>3. Occurs(s, b) => Occurs(t, b)
    BY <1>1, <1>2 DEF Occurs
  <2>. QED  BY <2>1, <2>2, <2>3 DEF Occurs
<1>4. Twice(s, b) => Twice(t, b)
  BY <1>1, <1>2 DEF Twice
<1>5. e = b /\ Occurs(s, b) => Twice(t, b)
  BY <1>1, <1>2 DEF Twice, Occurs
<1>. QED  BY <1>3, <1>4, <1>5 DEF t

LEMMA PiecesApart ==
  ASSUME NEW b, b # LF, NEW bytes \in ByteSeqs
  PROVE  /\ \A i \in 1..Len(Pieces(bytes)) : Occurs(Pieces(bytes)[i], b) => Occurs(bytes, b)
         /\ \A i, j \in 1..Len(Pieces(bytes)) :
              i < j /\ Occurs(Pieces(bytes)[i], b) /\ Occurs(Pieces(bytes)[j], b)
                => Twice(bytes, b)
<1>. DEFINE One(s) == \A i \in 1..Len(Pieces(s)) : Occurs(Pieces(s)[i], b) => Occurs(s, b)
            Two(s) == \A i, j \in 1..Len(Pieces(s)) :
              i < j /\ Occurs(Pieces(s)[i], b) /\ Occurs(Pieces(s)[j], b) => Twice(s, b)
            G == {s \in ByteSeqs : One(s) /\ Two(s)}
<1>1. <<>> \in G
  <2>1. <<>> \in ByteSeqs /\ Pieces(<<>>) = << <<>> >>
    BY NoPieces DEF ByteSeqs
  <2>2. Len(Pieces(<<>>)) = 1 /\ Pieces(<<>>)[1] = <<>> /\ ~Occurs(<<>>, b)
    BY <2>1 DEF Occurs
  <2>3. One(<<>>) /\ Two(<<>>)
    BY <2>2
  <2>. HIDE DEF One, Two
  <2>. QED  BY <2>1, <2>3
<1>2. ASSUME NEW s \in ByteSeqs, NEW e \in Byte, s \in G PROVE <<e>> \o s \in G
  <2>. DEFINE p == Pieces(s)
              t == <<e>> \o s
              q == Pieces(t)
  <2>1. /\ t \in ByteSeqs /\ q = Ahead(e, p) /\ p \in Seq(ByteSeqs) /\ p # <<>>
    BY PiecesAhead, PiecesType DEF ByteSeqs, PieceSeqs
  <2>2. /\ Occurs(t, b) <=> e = b \/ Occurs(s, b)
        /\ Twice(s, b) => Twice(t, b)
        /\ e = b /\ Occurs(s, b) => Twice(t, b)
    BY OccursCons DEF ByteSeqs
  <2>3. /\ \A i \in 1..Len(p) : Occurs(p[i], b) => Occurs(s, b)
        /\ \A i, j \in 1..Len(p) : i < j /\ Occurs(p[i], b) /\ Occurs(p[j], b) => Twice(s, b)
    BY <1>2
  <2>. HIDE DEF p, t, q, G
  <2>4. /\ \A i \in 1..Len(q) : Occurs(q[i], b) => Occurs(t, b)
        /\ \A i, j \in 1..Len(q) : i < j /\ Occurs(q[i], b) /\ Occurs(q[j], b) => Twice(t, b)
    <3>1. CASE e = LF
      <4>1. <<>> \in ByteSeqs /\ ~Occurs(<<>>, b)
        BY DEF ByteSeqs, Occurs
      <4>2. /\ Len(q) = Len(p) + 1 /\ q[1] = <<>> /\ Len(p) \in Nat
            /\ \A j \in 1..Len(p) : q[j + 1] = p[j]
        BY <2>1, <3>1, <4>1, Consing DEF Ahead
      <4>3. \A i \in 1..Len(q) : i = 1 \/ (i - 1 \in 1..Len(p) /\ q[i] = p[i - 1])
        <5>1. \A i \in 1..Len(q) : i = 1 \/ (i - 1 \in 1..Len(p) /\ (i - 1) + 1 = i)
          BY <4>2
        <5>. QED  BY <4>2, <5>1
      <4>4. \A i, j \in 1..Len(q) : i < j => i - 1 < j - 1
        BY <4>2
      <4>. QED  BY <2>2, <2>3, <4>1, <4>2, <4>3, <4>4
    <3>2. CASE e # LF
      <4>. DEFINE g == <<e>> \o Head(p)
                  r == Tail(p)
      <4>1. /\ Head(p) \in ByteSeqs /\ r \in Seq(ByteSeqs) /\ p[1] = Head(p)
            /\ Len(p) = Len(r) + 1 /\ \A j \in 1..Len(r) : p[j + 1] = r[j]
        BY <2>1, Parting
      <4>2. g \in ByteSeqs /\ q = <<g>> \o r
        BY <2>1, <3>2, <4>1 DEF Ahead, ByteSeqs
      <4>3. Occurs(g, b) <=> e = b \/ Occurs(p[1], b)
        BY <4>1, OccursCons DEF ByteSeqs
      <4>. HIDE DEF r, g
      <4>4. /\ Len(q) = Len(r) + 1 /\ q[1] = g /\ Len(r) \in Nat
            /\ \A j \in 1..Len(r) : q[j + 1] = r[j]
        BY <4>1, <4>2, Consing
      <4>5. /\ 1 \in 1..Len(p)
            /\ \A i \in 1..Len(q) : i = 1 \/ (i \in 1..Len(p) /\ q[i] = p[i])
        <5>1. \A i \in 1..Len(q) : i = 1 \/ (i - 1 \in 1..Len(r) /\ (i - 1) + 1 = i)
          BY <4>4
        <5>2. 1 \in 1..Len(p) /\ \A i \in 1..Len(q) : i \in 1..Len(p)
          BY <4>1, <4>4
        <5>. QED  BY <4>1, <4>4, <5>1, <5>2
      <4>6. ASSUME NEW i \in 1..Len(q), Occurs(q[i], b)
            PROVE  Occurs(t, b)
        BY <2>2, <2>3, <4>3, <4>4, <4>5, <4>6
      <4>7. ASSUME NEW i \in 1..Len(q), NEW j \in 1..Len(q), i < j,
                   Occurs(q[i], b), Occurs(q[j], b)
            PROVE  Twice(t, b)
        <5>1. j # 1 /\ j \in 1..Len(p) /\ q[j] = p[j]
          BY <4>4, <4>5, <4>7
        <5>2. CASE i = 1
          <6>1. e = b \/ Occurs(p[1], b)
            BY <4>3, <4>4, <4>7, <5>2
          <6>. QED  BY <2>2, <2>3, <4>5, <4>7, <5>1, <5>2, <6>1
        <5>3. CASE i # 1
          BY <2>2, <2>3, <4>5, <4>7, <5>1, <5>3
        <5>. QED  BY <5>2, <5>3
      <4>. QED  BY <4>6, <4>7
    <3>. QED  BY <3>1, <3>2
  <2>. QED  BY <2>1, <2>4 DEF G, t, q
<1>3. Seq(Byte) \subseteq G
  <2>. HIDE DEF G
  <2>. QED  BY <1>1, <1>2, HeadInduction DEF ByteSeqs
<1>. QED  BY <1>3 DEF ByteSeqs

(* What read_runs keeps of lines, it keeps of each part of them.            *)
With(line, records) == IF Parses(line) THEN Append(records, RecordIn(line)) ELSE records

LEMMA KeptWith ==
  ASSUME NEW lines \in PieceSeqs \cup {<<>>}
  PROVE  \E g \in [0..Len(lines) -> Seq(Records)] :
           /\ g[0] = <<>> /\ \A k \in 1..Len(lines) : g[k] = With(lines[k], g[k - 1])
           /\ Kept(lines) = g[Len(lines)]
<1>. DEFINE n == Len(lines)
            V == Seq(Records)
            Is(g) == g = [i \in 0..Len(lines) |->
               IF i = 0 THEN <<>>
               ELSE IF Parses(lines[i]) THEN Append(g[i - 1], RecordIn(lines[i]))
               ELSE g[i - 1]]
            it == CHOOSE g : Is(g)
            step == [p \in (1..n) \X V |-> With(lines[p[1]], p[2])]
            none == <<>>
<1>1. n \in Nat
  BY DEF PieceSeqs
<1>2. ASSUME NEW line, NEW v \in V PROVE With(line, v) \in V
  <2>1. Parses(line) => RecordIn(line) \in Records
    BY DEF Parses, RecordIn
  <2>. QED  BY <2>1 DEF With
<1>3. step \in [(1..n) \X V -> V] /\ none \in V
  <2>1. none \in V
    OBVIOUS
  <2>. HIDE DEF V, n
  <2>. QED  BY <1>2, <2>1
<1>4. PICK h : Solves(h, n, V, none, step)
  <2>. HIDE DEF step, n, none, V
  <2>. QED  BY <1>1, <1>3, Recursion
<1>. HIDE DEF V
<1>5. Is(h)
  <2>1. h \in [0..n -> V] /\ h[0] = none
    BY <1>4 DEF Solves
  <2>2. ASSUME NEW k \in 1..n PROVE h[k] = With(lines[k], h[k - 1])
    <3>1. h[k] = step[<<k, h[k - 1]>>]
      BY <1>4 DEF Solves
    <3>2. h[k - 1] \in V
      BY <1>1, <2>1
    <3>. QED  BY <3>1, <3>2
  <2>3. \A k \in 0..n : k = 0 \/ k \in 1..n
    BY <1>1
  <2>. QED  BY <2>1, <2>2, <2>3 DEF With
<1>6. Is(it)
  <2>. HIDE DEF Is
  <2>. QED  BY <1>5
<1>7. Kept(lines) = it[n]
  BY DEF Kept
<1>. HIDE DEF it
<1>8. it[0] = none /\ \A k \in 1..n : it[k] = With(lines[k], it[k - 1])
  <2>1. it[0] = none
    BY <1>1, <1>6
  <2>2. ASSUME NEW k \in 1..n PROVE it[k] = With(lines[k], it[k - 1])
    <3>1. k \in 0..Len(lines) /\ k # 0
      BY <1>1
    <3>. QED  BY <1>6, <3>1 DEF With
  <2>. QED  BY <2>1, <2>2
<1>9. \A k \in 0..n : it[k] \in V
  <2>. DEFINE G == {k \in 0..n : it[k] \in V}
  <2>1. 0 \in G
    BY <1>1, <1>3, <1>8
  <2>2. \A k \in 1..n : k - 1 \in G => k \in G
    BY <1>1, <1>2, <1>8
  <2>3. 0..n \subseteq G
    <3>. HIDE DEF G, n
    <3>. QED  BY <1>1, <2>1, <2>2, InductionUpTo
  <2>. QED  BY <2>3
<1>10. it = [k \in 0..n |-> it[k]]
  BY <1>6
<1>11. it \in [0..n -> V]
  <2>. HIDE DEF n
  <2>. QED  BY <1>9, <1>10
<1>. QED  BY <1>7, <1>8, <1>11 DEF V

LEMMA KeptType ==
  ASSUME NEW lines \in Seq(ByteSeqs)
  PROVE  Kept(lines) \in Seq(Records)
<1>1. PICK g \in [0..Len(lines) -> Seq(Records)] : Kept(lines) = g[Len(lines)]
  BY KeptWith DEF PieceSeqs
<1>2. Len(lines) \in 0..Len(lines)
  OBVIOUS
<1>. QED  BY <1>1, <1>2

LEMMA KeptAppend ==
  /\ Kept(<<>>) = <<>>
  /\ \A lines \in Seq(ByteSeqs), line \in ByteSeqs :
       Kept(Append(lines, line)) = With(line, Kept(lines))
<1>1. Kept(<<>>) = <<>>
  <2>1. Len(<<>>) = 0
    OBVIOUS
  <2>. QED  BY <2>1, KeptWith
<1>2. ASSUME NEW lines \in Seq(ByteSeqs), NEW line \in ByteSeqs
      PROVE  Kept(Append(lines, line)) = With(line, Kept(lines))
  <2>. DEFINE all == Append(lines, line)
              n == Len(lines)
  <2>1. /\ n \in Nat /\ all \in Seq(ByteSeqs) /\ Len(all) = n + 1 /\ all[n + 1] = line
        /\ \A k \in 1..n : all[k] = lines[k]
    OBVIOUS
  <2>. HIDE DEF all
  <2>2. PICK g : /\ g[0] = <<>> /\ \A k \in 1..Len(all) : g[k] = With(all[k], g[k - 1])
                 /\ Kept(all) = g[Len(all)]
    BY <2>1, KeptWith DEF PieceSeqs
  <2>3. PICK h : /\ h[0] = <<>> /\ \A k \in 1..n : h[k] = With(lines[k], h[k - 1])
                 /\ Kept(lines) = h[n]
    BY KeptWith DEF PieceSeqs
  <2>. HIDE DEF n
  <2>. DEFINE G == {k \in 0..n : g[k] = h[k]}
  <2>4. 0 \in G
    BY <2>1, <2>2, <2>3
  <2>5. ASSUME NEW k \in 1..n, k - 1 \in G PROVE k \in G
    <3>1. k \in 1..Len(all) /\ k \in 0..n
      BY <2>1
    <3>. QED  BY <2>1, <2>2, <2>3, <2>5, <3>1
  <2>6. 0..n \subseteq G
    <3>. HIDE DEF G
    <3>. QED  BY <2>1, <2>4, <2>5, InductionUpTo
  <2>7. g[n] = h[n] /\ n + 1 \in 1..Len(all) /\ (n + 1) - 1 = n
    BY <2>1, <2>6
  <2>8. g[n + 1] = With(line, g[n])
    BY <2>1, <2>2, <2>7
  <2>. QED  BY <2>1, <2>2, <2>3, <2>7, <2>8 DEF all
<1>. QED  BY <1>1, <1>2

Alone(line) == IF Parses(line) THEN <<RecordIn(line)>> ELSE <<>>

LEMMA WithIsJoin ==
  ASSUME NEW line, NEW v \in Seq(Records)
  PROVE  With(line, v) = v \o Alone(line) /\ Alone(line) \in Seq(Records)
<1>1. CASE Parses(line)
  <2>1. RecordIn(line) \in Records
    BY <1>1 DEF Parses, RecordIn
  <2>2. Append(v, RecordIn(line)) = v \o <<RecordIn(line)>>
    BY <2>1, AppendIsConcat
  <2>. QED  BY <1>1, <2>1, <2>2 DEF With, Alone
<1>2. CASE ~Parses(line)
  BY <1>2 DEF With, Alone
<1>. QED  BY <1>1, <1>2

LEMMA KeptJoin ==
  ASSUME NEW s \in Seq(ByteSeqs), NEW t \in Seq(ByteSeqs)
  PROVE  Kept(s \o t) = Kept(s) \o Kept(t)
<1>. DEFINE G == {r \in Seq(ByteSeqs) : Kept(s \o r) = Kept(s) \o Kept(r)}
<1>1. <<>> \in G
  <2>1. s \o <<>> = s /\ <<>> \in Seq(ByteSeqs)
    OBVIOUS
  <2>2. Kept(s) \o Kept(<<>>) = Kept(s)
    BY KeptType, KeptAppend
  <2>. QED  BY <2>1, <2>2
<1>2. ASSUME NEW r \in Seq(ByteSeqs), NEW e \in ByteSeqs, r \in G PROVE Append(r, e) \in G
  <2>1. s \o Append(r, e) = Append(s \o r, e) /\ s \o r \in Seq(ByteSeqs) /\ Append(r, e) \in Seq(ByteSeqs)
    OBVIOUS
  <2>2. Kept(s \o Append(r, e)) = With(e, Kept(s) \o Kept(r))
    BY <1>2, <2>1, KeptAppend
  <2>3. Kept(Append(r, e)) = With(e, Kept(r))
    BY KeptAppend
  <2>4. With(e, Kept(s) \o Kept(r)) = Kept(s) \o With(e, Kept(r))
    <3>1. Kept(s) \in Seq(Records) /\ Kept(r) \in Seq(Records)
      BY KeptType
    <3>. DEFINE u == Kept(s)
                v == Kept(r)
                x == Alone(e)
    <3>2. x \in Seq(Records)
      BY <3>1, WithIsJoin
    <3>3. u \in Seq(Records) /\ v \in Seq(Records)
      BY <3>1
    <3>. HIDE DEF u, v, x
    <3>4. (u \o v) \o x = u \o (v \o x) /\ u \o v \in Seq(Records)
      BY <3>2, <3>3, ConcatAssociative
    <3>5. With(e, u \o v) = (u \o v) \o x /\ With(e, v) = v \o x
      BY <3>3, <3>4, WithIsJoin DEF x
    <3>. QED  BY <3>4, <3>5 DEF u, v
  <2>. QED  BY <2>1, <2>2, <2>3, <2>4
<1>3. Seq(ByteSeqs) \subseteq G
  <2>. HIDE DEF G
  <2>. QED  BY <1>1, <1>2, EndInduction
<1>. QED  BY <1>3

(* Cutting at the limit once, after all of it, is as good as every time.    *)
LEMMA UptoFacts ==
  ASSUME NEW S, NEW s \in Seq(S), NEW t \in Seq(S), NEW n \in Nat
  PROVE  /\ Upto(n, s) \in Seq(S) /\ Len(Upto(n, s)) <= n
         /\ Upto(n, Upto(n, s) \o t) = Upto(n, s \o t)
         /\ Len(Upto(n, s)) = n => Upto(n, s \o t) = Upto(n, s)
         /\ IsPrefix(Upto(n, s), Upto(n, s \o t))
<1>. DEFINE u == Upto(n, s)
            v == Upto(n, s \o t)
            w == Upto(n, u \o t)
            Least(a, b) == IF a > b THEN b ELSE a
<1>1. /\ Len(s) \in Nat /\ Len(t) \in Nat /\ s \o t \in Seq(S) /\ Len(s \o t) = Len(s) + Len(t)
      /\ \A i \in 1..Len(s) : (s \o t)[i] = s[i]
  OBVIOUS
<1>2. ASSUME NEW r \in Seq(S)
      PROVE  /\ Upto(n, r) \in Seq(S) /\ Len(Upto(n, r)) = Least(Len(r), n)
             /\ \A i \in 1..Least(Len(r), n) : Upto(n, r)[i] = r[i]
  BY DEF Upto
<1>3. /\ u \in Seq(S) /\ Len(u) = Least(Len(s), n) /\ \A i \in 1..Least(Len(s), n) : u[i] = s[i]
      /\ v \in Seq(S) /\ Len(v) = Least(Len(s) + Len(t), n)
      /\ \A i \in 1..Least(Len(s) + Len(t), n) : v[i] = (s \o t)[i]
  BY <1>1, <1>2
<1>4. CASE Len(s) > n
  <2>1. Len(u) = n /\ Len(v) = n /\ \A i \in 1..n : u[i] = v[i]
    <3>. HIDE DEF u, v
    <3>1. Least(Len(s), n) = n /\ Least(Len(s) + Len(t), n) = n /\ 1..n \subseteq 1..Len(s)
      BY <1>1, <1>4
    <3>. HIDE DEF Least
    <3>. QED  BY <1>1, <1>3, <3>1
  <2>2. u = v
    <3>. HIDE DEF u, v
    <3>. QED  BY <1>3, <2>1, SeqEqual
  <2>3. w = u
    <3>. HIDE DEF u
    <3>1. u \o t \in Seq(S) /\ Len(u \o t) = n + Len(t) /\ \A i \in 1..n : (u \o t)[i] = u[i]
      BY <1>3, <2>1
    <3>2. w \in Seq(S) /\ Len(w) = Least(n + Len(t), n) /\ \A i \in 1..Least(n + Len(t), n) : w[i] = (u \o t)[i]
      BY <1>2, <3>1
    <3>3. Least(n + Len(t), n) = n
      BY <1>1
    <3>. HIDE DEF w, Least
    <3>. QED  BY <1>3, <2>1, <3>1, <3>2, <3>3, SeqEqual
  <2>4. IsPrefix(u, u)
    <3>. HIDE DEF u
    <3>. QED  BY <1>3 DEF IsPrefix
  <2>. QED  BY <1>3, <2>1, <2>2, <2>3, <2>4
<1>5. CASE Len(s) <= n
  <2>1. u = s
    BY <1>1, <1>5 DEF Upto
  <2>2. w = v
    BY <2>1
  <2>3. Len(u) = n => u = v
    <3>1. ASSUME Len(u) = n PROVE /\ Len(v) = n /\ \A i \in 1..n : v[i] = u[i]
      BY <1>1, <1>3, <2>1, <3>1
    <3>. HIDE DEF u, v
    <3>. QED  BY <1>3, <3>1, SeqEqual
  <2>4. Len(s) <= Len(v) /\ \A i \in 1..Len(s) : v[i] = s[i]
    <3>1. Least(Len(s) + Len(t), n) >= Len(s) /\ Least(Len(s) + Len(t), n) \in Nat
      BY <1>1, <1>5
    <3>2. Len(s) <= Len(v)
      BY <1>3, <3>1
    <3>3. ASSUME NEW i \in 1..Len(s) PROVE v[i] = s[i]
      <4>1. i \in 1..Least(Len(s) + Len(t), n)
        BY <1>1, <3>1
      <4>2. v[i] = (s \o t)[i]
        BY <1>3, <4>1
      <4>. QED  BY <1>1, <4>2
    <3>. QED  BY <3>2, <3>3
  <2>5. IsPrefix(s, v)
    <3>. HIDE DEF v
    <3>1. SubSeq(v, 1, Len(s)) \in Seq(S) /\ Len(SubSeq(v, 1, Len(s))) = Len(s)
          /\ \A i \in 1..Len(s) : SubSeq(v, 1, Len(s))[i] = s[i]
      BY <1>3, <2>4
    <3>2. SubSeq(s, 1, Len(s)) = s
      BY SubSeqFull
    <3>3. SubSeq(v, 1, Len(s)) = s
      BY <3>1, SeqEqual
    <3>. QED  BY <2>4, <3>2, <3>3 DEF IsPrefix
  <2>6. Len(u) <= n
    BY <1>5, <2>1
  <2>. QED  BY <1>3, <2>1, <2>2, <2>3, <2>5, <2>6
<1>. QED  BY <1>1, <1>4, <1>5

LEMMA KeptNewest ==
  ASSUME NEW s \in Seq(ByteSeqs), NEW t \in Seq(ByteSeqs)
  PROVE  Kept(Reverse(s \o t)) = Kept(Reverse(t)) \o Kept(Reverse(s))
<1>1. Reverse(s \o t) = Reverse(t) \o Reverse(s)
  BY ReverseJoin
<1>2. Reverse(s) \in Seq(ByteSeqs) /\ Reverse(t) \in Seq(ByteSeqs)
  BY ReverseJoin
<1>. QED  BY <1>1, <1>2, KeptJoin

(* A block and what was carried over split as all of the file from there on *)
(* does, but for the pieces that were handed out.                           *)
LEMMA BlockSplits ==
  ASSUME NEW x \in ByteSeqs, NEW y \in ByteSeqs
  PROVE  LET block == Pieces(x \o Head(Pieces(y)))
             rest == Tail(Pieces(y))
             all == Pieces(x \o y)
         IN  /\ block \in PieceSeqs /\ rest \in Seq(ByteSeqs) /\ all = block \o rest
             /\ Head(all) = Head(block)
             /\ Kept(Reverse(Tail(all))) = Kept(Reverse(rest)) \o Kept(Reverse(Tail(block)))
             /\ Kept(Reverse(all)) = Kept(Reverse(rest)) \o Kept(Reverse(block))
<1>. DEFINE block == Pieces(x \o Head(Pieces(y)))
            rest == Tail(Pieces(y))
            all == Pieces(x \o y)
<1>1. Head(Pieces(y)) \in ByteSeqs /\ rest \in Seq(ByteSeqs)
  BY PiecesType, Parting DEF PieceSeqs
<1>2. block \in PieceSeqs
  <2>1. x \o Head(Pieces(y)) \in ByteSeqs
    BY <1>1 DEF ByteSeqs
  <2>. QED  BY <2>1, PiecesType
<1>3. all = block \o rest
  BY PiecesJoin
<1>. HIDE DEF block, rest, all
<1>4. block \in Seq(ByteSeqs) /\ block # <<>>
  BY <1>2 DEF PieceSeqs
<1>5. Head(all) = Head(block) /\ Tail(all) = Tail(block) \o rest /\ Tail(block) \in Seq(ByteSeqs)
  BY <1>1, <1>3, <1>4
<1>6. Kept(Reverse(Tail(all))) = Kept(Reverse(rest)) \o Kept(Reverse(Tail(block)))
  BY <1>1, <1>5, KeptNewest
<1>7. Kept(Reverse(all)) = Kept(Reverse(rest)) \o Kept(Reverse(block))
  BY <1>1, <1>3, <1>4, KeptNewest
<1>. QED  BY <1>1, <1>2, <1>3, <1>5, <1>6, <1>7 DEF block, rest, all

(* What was found so far is the newest of it all, and the piece carried     *)
(* over is the end of one of the lines.                                     *)
LEMMA FoundIsNewest ==
  ASSUME NEW x \in ByteSeqs, NEW z \in ByteSeqs
  PROVE  /\ \E older \in Seq(Records) :
              Kept(Lines(x \o z)) = Kept(Reverse(Tail(Pieces(z)))) \o older
         /\ \E i \in DOMAIN Lines(x \o z) : Len(Lines(x \o z)[i]) >= Len(Head(Pieces(z)))
<1>. DEFINE h == Head(Pieces(z))
            rest == Tail(Pieces(z))
            first == Pieces(x \o h)
            all == Pieces(x \o z)
<1>1. h \in ByteSeqs /\ rest \in Seq(ByteSeqs) /\ Plain(h)
  <2>1. Pieces(z) \in Seq(ByteSeqs) /\ Pieces(z) # <<>>
    BY PiecesType DEF PieceSeqs
  <2>2. h \in ByteSeqs /\ rest \in Seq(ByteSeqs) /\ h = Pieces(z)[1] /\ 1 \in 1..Len(Pieces(z))
    BY <2>1
  <2>. QED  BY <2>2, PlainPieces
<1>2. /\ first \in Seq(ByteSeqs) /\ all = first \o rest
      /\ Kept(Reverse(all)) = Kept(Reverse(rest)) \o Kept(Reverse(first))
  BY BlockSplits DEF PieceSeqs
<1>3. PICK i \in 1..Len(first), u \in ByteSeqs : first[i] = u \o h
  BY <1>1, PieceEnds
<1>. HIDE DEF h, rest, first, all
<1>4. Kept(Reverse(first)) \in Seq(Records)
  BY <1>2, ReverseJoin, KeptType
<1>5. Kept(Lines(x \o z)) = Kept(Reverse(rest)) \o Kept(Reverse(first))
  BY <1>2 DEF Lines, all
<1>6. /\ all \in Seq(ByteSeqs) /\ Len(all) = Len(first) + Len(rest) /\ all[i] = first[i]
      /\ Len(first) \in Nat /\ Len(rest) \in Nat
  BY <1>1, <1>2
<1>7. Len(all[i]) >= Len(h)
  BY <1>1, <1>3, <1>6 DEF ByteSeqs
<1>8. Len(all) - i + 1 \in DOMAIN Reverse(all) /\ Reverse(all)[Len(all) - i + 1] = all[i]
  <2>1. DOMAIN Reverse(all) = 1..Len(all)
    BY DEF Reverse
  <2>2. Len(all) - i + 1 \in 1..Len(all) /\ Len(all) - (Len(all) - i + 1) + 1 = i
    BY <1>6
  <2>3. Reverse(all)[Len(all) - i + 1] = all[Len(all) - (Len(all) - i + 1) + 1]
    BY <2>2 DEF Reverse
  <2>. QED  BY <2>1, <2>2, <2>3
<1>. QED  BY <1>4, <1>5, <1>7, <1>8 DEF Lines, all, h, rest

-----------------------------------------------------------------------------
(* The bytes from the reader's position on, and what of a walk is known.    *)
Behind == Pieces(SubSeq(reader.opened, reader.position + 1, Len(reader.opened)))

ReaderTypes ==
  /\ file \in ByteSeqs
  /\ reader \in [at : {"idle", "walking", "done", "stopped"}, position : Nat,
                 carry : ByteSeqs, out : Seq(Records), opened : ByteSeqs]

WalkInv ==
  /\ IsPrefix(reader.opened, file)
  /\ reader.at = "walking" =>
       /\ reader.position \in 1..Len(reader.opened)
       /\ reader.carry = Head(Behind)
       /\ reader.out = Upto(Limit, Kept(Reverse(Tail(Behind))))

LedgerInv == ReaderTypes /\ WalkInv /\ NewestFirst

LEMMA NothingKept == Pieces(<<>>) = << <<>> >> /\ Kept(Lines(<<>>)) = <<>> /\ Kept(Reverse(<<>>)) = <<>>
<1>1. Pieces(<<>>) = << <<>> >>
  BY NoPieces
<1>2. Reverse(<<>>) = <<>>
  BY DEF Reverse
<1>3. Reverse(<< <<>> >>) = Append(<<>>, <<>>)
  BY DEF Reverse
<1>4. ~Parses(<<>>)
  <2>. SUFFICES ASSUME NEW r \in Records, <<>> = Bytes(r) PROVE FALSE
    BY DEF Parses
  <2>1. DOMAIN Bytes(r) = 1..RecordBytes /\ DOMAIN <<>> = {} /\ 1 \in 1..RecordBytes
    BY LedgerAssumption DEF Bytes
  <2>. QED  BY <2>1
<1>5. <<>> \in ByteSeqs /\ <<>> \in Seq(ByteSeqs)
  BY DEF ByteSeqs
<1>6. Lines(<<>>) = Append(<<>>, <<>>)
  BY <1>1, <1>3 DEF Lines
<1>7. Kept(Append(<<>>, <<>>)) = With(<<>>, Kept(<<>>)) /\ Kept(<<>>) = <<>>
  BY <1>5, KeptAppend
<1>8. With(<<>>, <<>>) = <<>>
  BY <1>4 DEF With
<1>. QED  BY <1>1, <1>2, <1>6, <1>7, <1>8

LEMMA LedgerInitHolds == LedgerInit => LedgerInv
<1>. SUFFICES ASSUME LedgerInit PROVE LedgerInv
  OBVIOUS
<1>1. file = <<>> /\ reader.at = "idle" /\ reader.opened = <<>>
  BY DEF LedgerInit, NoReader
<1>2. ReaderTypes
  BY DEF LedgerInit, NoReader, ReaderTypes, ByteSeqs
<1>3. WalkInv /\ NewestFirst
  BY <1>1 DEF WalkInv, NewestFirst, IsPrefix
<1>. QED  BY <1>2, <1>3 DEF LedgerInv

(* An append leaves the reader what it opened.                              *)
LEMMA PrefixGrows ==
  ASSUME NEW S, NEW s \in Seq(S), NEW t \in Seq(S), NEW w \in Seq(S), IsPrefix(s, t)
  PROVE  IsPrefix(s, t \o w)
<1>1. /\ Len(s) <= Len(t) /\ Len(s) \in Nat /\ Len(t) \in Nat /\ Len(w) \in Nat
      /\ t \o w \in Seq(S) /\ Len(t \o w) = Len(t) + Len(w)
      /\ \A i \in 1..Len(t) : (t \o w)[i] = t[i]
  BY DEF IsPrefix
<1>2. SubSeq(t \o w, 1, Len(s)) = SubSeq(t, 1, Len(s))
  <2>1. \A i \in 1..Len(s) : i \in 1..Len(t)
    BY <1>1
  <2>. QED  BY <1>1, <2>1
<1>. QED  BY <1>1, <1>2 DEF IsPrefix

LEMMA AppendKeeps ==
  ASSUME LedgerInv, NEW w \in ByteSeqs, file' = file \o w, reader' = reader
  PROVE  LedgerInv'
<1>1. ReaderTypes'
  BY DEF LedgerInv, ReaderTypes, ByteSeqs
<1>2. IsPrefix(reader.opened, file \o w)
  BY PrefixGrows DEF LedgerInv, ReaderTypes, WalkInv, ByteSeqs
<1>. QED  BY <1>1, <1>2 DEF LedgerInv, WalkInv, Behind, NewestFirst

LEMMA LineBytes ==
  ASSUME NEW r \in Records
  PROVE  /\ Bytes(r) \in ByteSeqs /\ Len(Bytes(r)) = RecordBytes /\ Plain(Bytes(r))
         /\ \A i \in 1..RecordBytes : Bytes(r)[i] = <<r, i>>
         /\ LineOf(r) = Bytes(r) \o <<LF>> /\ LineOf(r) \in ByteSeqs
<1>1. Bytes(r) \in ByteSeqs /\ Len(Bytes(r)) = RecordBytes
  BY LedgerAssumption DEF Bytes, ByteSeqs, Byte
<1>2. \A i \in 1..RecordBytes : Bytes(r)[i] = <<r, i>> /\ <<r, i>> # LF
  BY LedgerAssumption DEF Bytes, LF
<1>3. LineOf(r) = Bytes(r) \o <<LF>> /\ LineOf(r) \in ByteSeqs
  <2>1. LF \in Byte
    BY DEF Byte
  <2>. QED  BY <1>1, <2>1, AppendIsConcat, AppendProperties DEF LineOf, ByteSeqs
<1>. QED  BY <1>1, <1>2, <1>3 DEF Plain

LEMMA WritesKeep ==
  ASSUME LedgerInv, NEW r \in Records, Writes(r) \/ WritesTorn(r), reader' = reader
  PROVE  LedgerInv'
<1>1. PICK w \in ByteSeqs : file' = file \o w
  <2>1. CASE Writes(r)
    BY <2>1, LineBytes DEF Writes
  <2>2. CASE WritesTorn(r)
    <3>1. PICK n \in 0..RecordBytes : file' = file \o SubSeq(LineOf(r), 1, n)
      BY <2>2 DEF WritesTorn
    <3>2. LineOf(r) \in Seq(Byte) /\ Len(LineOf(r)) = RecordBytes + 1
      BY LineBytes, LedgerAssumption DEF ByteSeqs, Byte
    <3>3. \A i \in 1..n : LineOf(r)[i] \in Byte
      BY <3>2, LedgerAssumption
    <3>4. SubSeq(LineOf(r), 1, n) \in Seq(Byte)
      BY <3>3, SubSeqProperties
    <3>. QED  BY <3>1, <3>4 DEF ByteSeqs
  <2>. QED  BY <2>1, <2>2
<1>. QED  BY <1>1, AppendKeeps

LEMMA OpensKeeps ==
  ASSUME LedgerInv, ReaderOpens
  PROVE  LedgerInv'
<1>1. /\ reader' = [at |-> IF file = <<>> THEN "done" ELSE "walking", position |-> Len(file),
                    carry |-> <<>>, out |-> <<>>, opened |-> file]
      /\ file' = file /\ file \in Seq(Byte) /\ Len(file) \in Nat
  BY DEF ReaderOpens, LedgerInv, ReaderTypes, ByteSeqs
<1>2. /\ reader'.at = IF file = <<>> THEN "done" ELSE "walking"
      /\ reader'.position = Len(file) /\ reader'.carry = <<>> /\ reader'.out = <<>>
      /\ reader'.opened = file
  BY <1>1
<1>3. ReaderTypes'
  BY <1>1 DEF ReaderTypes, ByteSeqs
<1>4. IsPrefix(file, file)
  BY <1>1 DEF IsPrefix
<1>5. ASSUME file = <<>> PROVE reader'.out = Newest(file)
  <2>1. Kept(Lines(file)) = <<>>
    BY <1>5, NothingKept
  <2>. QED  BY <1>2, <2>1, LedgerAssumption DEF Newest, Upto
<1>6. file # <<>> => Len(file) \in 1..Len(file)
  BY <1>1
<1>7. Behind' = << <<>> >>
  <2>1. SubSeq(file, Len(file) + 1, Len(file)) = <<>>
    BY <1>1, SubSeqEmpty
  <2>. QED  BY <1>2, <2>1, NoPieces DEF Behind
<1>8. reader'.carry = Head(Behind') /\ reader'.out = Upto(Limit, Kept(Reverse(Tail(Behind'))))
  <2>1. Head(<< <<>> >>) = <<>> /\ Tail(<< <<>> >>) = <<>>
    OBVIOUS
  <2>2. Upto(Limit, <<>>) = <<>>
    BY LedgerAssumption DEF Upto
  <2>. QED  BY <1>2, <1>7, <2>1, <2>2, NothingKept
<1>9. WalkInv'
  BY <1>1, <1>2, <1>4, <1>6, <1>8 DEF WalkInv
<1>10. NewestFirst'
  BY <1>2, <1>5 DEF NewestFirst
<1>. QED  BY <1>3, <1>9, <1>10 DEF LedgerInv

(* The block before a position of an opened file, and what it leaves.       *)
CutAt(f, o, p, q, x, y, z, w) ==
  /\ x = SubSeq(f, q + 1, p) /\ y = SubSeq(o, p + 1, Len(o))
  /\ z = SubSeq(o, q + 1, Len(o)) /\ w = SubSeq(o, 1, q)

LEMMA Cutting ==
  ASSUME NEW f \in ByteSeqs, NEW o \in ByteSeqs, IsPrefix(o, f),
         NEW p \in 1..Len(o), NEW q \in 0..p,
         NEW x, NEW y, NEW z, NEW w, CutAt(f, o, p, q, x, y, z, w)
  PROVE  /\ w \in ByteSeqs /\ x \in ByteSeqs /\ y \in ByteSeqs /\ z \in ByteSeqs
         /\ z = x \o y /\ o = w \o z
         /\ q = 0 => z = o
<1>. USE DEF CutAt
<1>. DEFINE n == Len(o)
<1>1. o \in Seq(Byte) /\ f \in Seq(Byte) /\ n \in Nat /\ Len(f) \in Nat /\ n <= Len(f)
      /\ SubSeq(o, 1, n) = SubSeq(f, 1, n)
  BY DEF IsPrefix, ByteSeqs
<1>2. \A i \in 1..n : o[i] = f[i] /\ o[i] \in Byte
  <2>. TAKE i \in 1..n
  <2>1. i \in 1..Len(f)
    BY <1>1
  <2>2. SubSeq(o, 1, n)[i] = o[i] /\ SubSeq(f, 1, n)[i] = f[i]
    BY <1>1, <2>1
  <2>. QED  BY <1>1, <2>2
<1>3. x = SubSeq(o, q + 1, p)
  <2>1. \A i \in (q + 1)..p : i \in 1..n
    BY <1>1
  <2>2. q + 1 \in Int /\ p \in Int
    OBVIOUS
  <2>3. /\ SubSeq(f, q + 1, p) \in Seq(Byte) /\ SubSeq(o, q + 1, p) \in Seq(Byte)
        /\ Len(SubSeq(f, q + 1, p)) = Len(SubSeq(o, q + 1, p))
        /\ \A i \in 1..p - (q + 1) + 1 : SubSeq(f, q + 1, p)[i] = f[(q + 1) + i - 1]
        /\ \A i \in 1..p - (q + 1) + 1 : SubSeq(o, q + 1, p)[i] = o[(q + 1) + i - 1]
    BY <1>2, <2>1, <2>2, SubSeqProperties
  <2>4. Len(SubSeq(f, q + 1, p)) = p - (q + 1) + 1
    BY <1>2, <2>1, <2>2, SubSeqProperties
  <2>5. \A i \in 1..p - (q + 1) + 1 : (q + 1) + i - 1 \in 1..n
    BY <1>1
  <2>6. \A i \in 1..Len(SubSeq(f, q + 1, p)) : SubSeq(f, q + 1, p)[i] = SubSeq(o, q + 1, p)[i]
    BY <1>2, <2>3, <2>4, <2>5
  <2>. QED  BY <2>3, <2>6, SeqEqual
<1>4. SubSeq(o, q + 1, p) \o SubSeq(o, p + 1, n) = SubSeq(o, q + 1, n)
  <2>1. q + 1 \in 1..n + 1 /\ p \in (q + 1) - 1..n /\ n \in p..n
    BY <1>1
  <2>. QED  BY <1>1, <2>1, ConcatAdjacentSubSeq
<1>5. SubSeq(o, 1, q) \o SubSeq(o, q + 1, n) = SubSeq(o, 1, n)
  <2>1. 1 \in 1..n + 1 /\ q \in 1 - 1..n /\ n \in q..n
    BY <1>1
  <2>. QED  BY <1>1, <2>1, ConcatAdjacentSubSeq
<1>6. SubSeq(o, 1, n) = o
  BY <1>1, SubSeqFull
<1>7. \A i, j \in 0..n : SubSeq(o, i + 1, j) \in Seq(Byte)
  <2>. TAKE i, j \in 0..n
  <2>1. \A k \in (i + 1)..j : o[k] \in Byte
    BY <1>1, <1>2
  <2>2. i + 1 \in Int /\ j \in Int
    BY <1>1
  <2>. QED  BY <2>1, <2>2, SubSeqProperties
<1>8. p \in 0..n /\ q \in 0..n /\ n \in 0..n /\ 0 \in 0..n /\ 0 + 1 = 1
  BY <1>1
<1>9. w \in Seq(Byte) /\ x \in Seq(Byte) /\ y \in Seq(Byte) /\ z \in Seq(Byte)
  BY <1>3, <1>7, <1>8
<1>10. q = 0 => z = o
  BY <1>6, <1>8
<1>. QED  BY <1>3, <1>4, <1>5, <1>6, <1>9, <1>10 DEF ByteSeqs

LEMMA TakesBlockKeeps ==
  ASSUME LedgerInv, ReaderTakesBlock
  PROVE  LedgerInv'
<1>. DEFINE p == reader.position
            o == reader.opened
            step == IF p < Chunk THEN p ELSE Chunk
            left == p - Chunk
            q == p - step
            x == SubSeq(file, q + 1, p)
            y == SubSeq(o, p + 1, Len(o))
            z == SubSeq(o, q + 1, Len(o))
            w == SubSeq(o, 1, q)
            rest == Tail(Pieces(y))
            block == Pieces(x \o Head(Pieces(y)))
            all == Pieces(z)
            endless == Len(Head(block)) > MaxLine
            out == Upto(Limit, reader.out \o Kept(LinesOf(block, left)))
<1>1. /\ file \in ByteSeqs /\ o \in ByteSeqs /\ IsPrefix(o, file) /\ p \in 1..Len(o) /\ p \in Nat
      /\ reader.carry = Head(Pieces(y))
      /\ reader.out = Upto(Limit, Kept(Reverse(rest))) /\ reader.out \in Seq(Records)
      /\ reader.at = "walking"
  BY DEF LedgerInv, ReaderTypes, WalkInv, Behind, ReaderTakesBlock
<1>2. /\ left \in Int /\ q \in 0..p /\ Chunk \in Nat \ {0} /\ (left <= 0 => q = 0) /\ (left > 0 => q = left /\ q \in 1..Len(o))
      /\ (IF left < 0 THEN 0 ELSE left) = q /\ q \in 0..Len(o)
  <2>1. Len(o) \in Nat
    BY <1>1 DEF ByteSeqs
  <2>. HIDE DEF o, p
  <2>. QED  BY <1>1, <2>1, LedgerAssumption
<1>3. /\ w \in ByteSeqs /\ x \in ByteSeqs /\ y \in ByteSeqs /\ z \in ByteSeqs
      /\ z = x \o y /\ o = w \o z /\ (q = 0 => z = o)
  <2>1. CutAt(file, o, p, q, x, y, z, w)
    BY DEF CutAt
  <2>. HIDE DEF o, p, q, x, y, z, w
  <2>. QED  BY <1>1, <1>2, <2>1, Cutting
<1>4. Block = x \o Head(Pieces(y))
  BY <1>1 DEF Block
<1>5. /\ reader' = [reader EXCEPT
           !.at = IF endless THEN "stopped"
                  ELSE IF left =< 0 \/ Len(out) = Limit THEN "done" ELSE @,
           !.position = q, !.carry = Head(block), !.out = IF endless THEN @ ELSE out]
      /\ file' = file
  <2>. HIDE DEF x, y, q
  <2>. QED  BY <1>2, <1>4 DEF ReaderTakesBlock
<1>6. /\ reader'.at = IF endless THEN "stopped"
                      ELSE IF left =< 0 \/ Len(out) = Limit THEN "done" ELSE "walking"
      /\ reader'.position = q /\ reader'.carry = Head(block)
      /\ reader'.out = (IF endless THEN reader.out ELSE out) /\ reader'.opened = o
  <2>. HIDE DEF endless, out, left, q, block
  <2>. QED  BY <1>1, <1>5 DEF LedgerInv, ReaderTypes
<1>7. /\ block \in Seq(ByteSeqs) /\ block # <<>> /\ rest \in Seq(ByteSeqs)
      /\ Head(all) = Head(block)
      /\ Kept(Reverse(Tail(all))) = Kept(Reverse(rest)) \o Kept(Reverse(Tail(block)))
      /\ Kept(Reverse(all)) = Kept(Reverse(rest)) \o Kept(Reverse(block))
  <2>. HIDE DEF x, y, z
  <2>1. /\ block \in PieceSeqs /\ rest \in Seq(ByteSeqs) /\ Head(all) = Head(block)
        /\ Kept(Reverse(Tail(all))) = Kept(Reverse(rest)) \o Kept(Reverse(Tail(block)))
        /\ Kept(Reverse(all)) = Kept(Reverse(rest)) \o Kept(Reverse(block))
    BY <1>3, BlockSplits
  <2>. HIDE DEF block, rest, all
  <2>. QED  BY <2>1 DEF PieceSeqs
<1>8. /\ all \in Seq(ByteSeqs) /\ all # <<>>
  <2>. HIDE DEF z
  <2>. QED  BY <1>3, PiecesType DEF PieceSeqs
<1>9. /\ Kept(Reverse(rest)) \in Seq(Records)
      /\ Kept(Reverse(Tail(all))) \in Seq(Records)
      /\ Kept(LinesOf(block, left)) \in Seq(Records)
      /\ Head(block) \in ByteSeqs
  <2>. HIDE DEF block, rest, all
  <2>1. Tail(block) \in Seq(ByteSeqs) /\ Tail(all) \in Seq(ByteSeqs) /\ Head(block) \in ByteSeqs
    BY <1>7, <1>8
  <2>2. LinesOf(block, left) \in Seq(ByteSeqs)
    BY <1>7, <2>1, ReverseJoin DEF LinesOf
  <2>. QED  BY <1>7, <2>1, <2>2, ReverseJoin, KeptType
<1>. HIDE DEF p, o, step, left, q, x, y, z, w, rest, block, all
<1>10. out = Upto(Limit, Kept(Reverse(rest)) \o Kept(LinesOf(block, left))) /\ out \in Seq(Records)
  <2>. DEFINE s == Kept(Reverse(rest))
              t == Kept(LinesOf(block, left))
  <2>1. s \in Seq(Records) /\ t \in Seq(Records) /\ reader.out = Upto(Limit, s) /\ Limit \in Nat
    BY <1>1, <1>9, LedgerAssumption
  <2>2. s \o t \in Seq(Records)
    BY <2>1
  <2>. HIDE DEF s, t
  <2>3. Upto(Limit, Upto(Limit, s) \o t) = Upto(Limit, s \o t)
    BY <2>1, UptoFacts
  <2>4. Upto(Limit, s \o t) \in Seq(Records)
    BY <2>1, <2>2, UptoFacts
  <2>. QED  BY <2>1, <2>3, <2>4 DEF s, t
<1>11. ReaderTypes'
  <2>1. reader'.at \in {"idle", "walking", "done", "stopped"} /\ reader'.position \in Nat
        /\ reader'.carry \in ByteSeqs /\ reader'.out \in Seq(Records) /\ reader'.opened \in ByteSeqs
    BY <1>1, <1>2, <1>6, <1>9, <1>10
  <2>2. reader' \in [at : {"idle", "walking", "done", "stopped"}, position : Nat,
                     carry : ByteSeqs, out : Seq(Records), opened : ByteSeqs]
    <3>1. reader' = [at |-> reader'.at, position |-> reader'.position, carry |-> reader'.carry,
                     out |-> reader'.out, opened |-> reader'.opened]
      <4>. HIDE DEF endless, out
      <4>. QED  BY <1>5 DEF LedgerInv, ReaderTypes
    <3>. QED  BY <2>1, <3>1
  <2>. QED  BY <1>1, <1>5, <2>2 DEF ReaderTypes
<1>12. Behind' = all
  BY <1>6 DEF Behind, all, z
<1>13. WalkInv'
  <2>1. IsPrefix(reader'.opened, file')
    BY <1>1, <1>5, <1>6
  <2>2. ASSUME reader'.at = "walking"
        PROVE  /\ reader'.position \in 1..Len(reader'.opened)
               /\ reader'.carry = Head(all)
               /\ reader'.out = Upto(Limit, Kept(Reverse(Tail(all))))
    <3>1. ~endless /\ left > 0
      BY <1>2, <1>6, <2>2
    <3>2. reader'.out = out /\ LinesOf(block, left) = Reverse(Tail(block))
      BY <1>6, <3>1 DEF LinesOf
    <3>. QED  BY <1>2, <1>6, <1>7, <1>10, <3>1, <3>2
  <2>. QED  BY <1>12, <2>1, <2>2 DEF WalkInv
<1>14. PICK older \in Seq(Records) : Kept(Lines(o)) = Kept(Reverse(Tail(all))) \o older
  BY <1>3, FoundIsNewest DEF all
<1>15. ASSUME reader'.at = "done" PROVE reader'.out = Newest(o)
  <2>1. reader'.out = out /\ (left <= 0 \/ (left > 0 /\ Len(out) = Limit))
    BY <1>2, <1>6, <1>15
  <2>2. CASE left <= 0
    <3>1. LinesOf(block, left) = Reverse(block) /\ all = Pieces(o)
      <4>1. ~(left > 0) /\ z = o
        BY <1>2, <1>3, <2>2
      <4>. QED  BY <4>1 DEF LinesOf, all
    <3>. QED  BY <1>7, <1>10, <2>1, <3>1 DEF Newest, Lines
  <2>3. CASE left > 0 /\ Len(out) = Limit
    <3>1. LinesOf(block, left) = Reverse(Tail(block))
      BY <2>3 DEF LinesOf
    <3>. DEFINE s == Kept(Reverse(Tail(all)))
    <3>2. out = Upto(Limit, s) /\ s \in Seq(Records)
      BY <1>7, <1>9, <1>10, <3>1
    <3>. HIDE DEF s, out
    <3>3. Upto(Limit, s \o older) = Upto(Limit, s)
      BY <2>3, <3>2, UptoFacts, LedgerAssumption
    <3>. QED  BY <1>14, <2>1, <3>2, <3>3 DEF Newest, s
  <2>. QED  BY <2>1, <2>2, <2>3
<1>16. ASSUME reader'.at = "stopped"
       PROVE  /\ IsPrefix(reader'.out, Newest(o))
              /\ \E i \in DOMAIN Lines(o) : Len(Lines(o)[i]) > MaxLine
  <2>1. endless /\ reader'.out = reader.out
    BY <1>6, <1>16
  <2>2. Kept(Reverse(Tail(all))) = Kept(Reverse(rest)) \o Kept(Reverse(Tail(block)))
    BY <1>7
  <2>. DEFINE s == Kept(Reverse(rest))
              t == Kept(Reverse(Tail(block)))
  <2>3. s \in Seq(Records) /\ t \in Seq(Records)
    <3>1. Tail(block) \in Seq(ByteSeqs)
      BY <1>7
    <3>. QED  BY <1>9, <3>1, ReverseJoin, KeptType
  <2>. HIDE DEF s, t, out
  <2>4. Kept(Lines(o)) = s \o (t \o older) /\ t \o older \in Seq(Records)
    <3>1. (s \o t) \o older = s \o (t \o older)
      BY <2>3, ConcatAssociative
    <3>2. Kept(Lines(o)) = (s \o t) \o older
      BY <1>14, <2>2 DEF s, t
    <3>3. t \o older \in Seq(Records)
      BY <2>3
    <3>. QED  BY <3>1, <3>2, <3>3
  <2>5. IsPrefix(Upto(Limit, s), Upto(Limit, s \o (t \o older)))
    BY <2>3, <2>4, UptoFacts, LedgerAssumption
  <2>6. IsPrefix(reader'.out, Newest(o))
    BY <1>1, <2>1, <2>4, <2>5 DEF Newest, s
  <2>7. PICK i \in DOMAIN Lines(o) : Len(Lines(o)[i]) >= Len(Head(all))
    BY <1>3, FoundIsNewest DEF all
  <2>8. Len(Head(all)) > MaxLine /\ Len(Head(all)) \in Nat /\ MaxLine \in Nat
    BY <1>7, <1>9, <2>1, LedgerAssumption DEF ByteSeqs
  <2>9. Len(Lines(o)[i]) \in Nat
    <3>1. Lines(o) \in Seq(ByteSeqs)
      BY <1>1, PiecesType, ReverseJoin DEF PieceSeqs, Lines
    <3>2. Lines(o)[i] \in ByteSeqs
      BY <3>1
    <3>. QED  BY <3>2 DEF ByteSeqs
  <2>10. Len(Lines(o)[i]) > MaxLine
    BY <2>7, <2>8, <2>9
  <2>. QED  BY <2>6, <2>10
<1>17. NewestFirst'
  BY <1>6, <1>15, <1>16 DEF NewestFirst
<1>. QED  BY <1>11, <1>13, <1>17 DEF LedgerInv

LEMMA LedgerStep == LedgerInv /\ [Next]_vars => LedgerInv'
<1>. SUFFICES ASSUME LedgerInv, [Next]_vars PROVE LedgerInv'
  OBVIOUS
<1>1. CASE UNCHANGED ledgerVars
  BY <1>1 DEF ledgerVars, LedgerInv, ReaderTypes, WalkInv, Behind, NewestFirst
<1>2. ASSUME NEW c \in Calls, RunEnds(c) PROVE LedgerInv'
  <2>1. c \in Records
    BY ServiceAssumption
  <2>. QED  BY <1>2, <2>1, WritesKeep DEF RunEnds
<1>3. ASSUME NEW r \in Others, OtherRunEnds(r) PROVE LedgerInv'
  <2>1. r \in Records
    BY ServiceAssumption
  <2>. QED  BY <1>3, <2>1, WritesKeep DEF OtherRunEnds
<1>4. CASE Reads
  BY <1>4, OpensKeeps, TakesBlockKeeps DEF Reads, ReaderStep
<1>5. CASE UNCHANGED vars
  BY <1>1, <1>5 DEF vars
<1>6. ASSUME NEW c \in Calls,
             \/ Refused(c) \/ FindsFactory(c) \/ Queues(c) \/ TakesLock(c) \/ IsWoken(c)
             \/ ProbeSucceeds(c) \/ ProbeCorrected(c) \/ ProbeFails(c) \/ RunCalls(c)
             \/ Verifies(c) \/ CancelCall(c)
      PROVE  UNCHANGED ledgerVars
  BY <1>6 DEF Refused, FindsFactory, Queues, TakesLock, IsWoken, ProbeSucceeds, ProbeCorrected,
              ProbeFails, RunCalls, Verifies, CancelCall
<1>7. CASE ResetFactoryCache
  BY <1>1, <1>7 DEF ResetFactoryCache
<1>. QED  BY <1>1, <1>2, <1>3, <1>4, <1>5, <1>6, <1>7 DEF Next

(* However appends, whole or torn, interleave with the walk, and wherever   *)
(* the blocks cut lines, a reader hands out the newest whole records of the *)
(* file it opened, in order; fewer only where a line that is over the limit *)
(* stops it (observability.py:189).                                         *)
THEOREM ReaderIsRight == Spec => []NewestFirst
<1>1. Init => LedgerInv
  BY LedgerInitHolds DEF Init
<1>2. LedgerInv => NewestFirst
  BY DEF LedgerInv
<1>. QED  BY <1>1, <1>2, LedgerStep, PTL DEF Spec

-----------------------------------------------------------------------------
(* What stands in the file is of runs that have ended, and of each run once; *)
(* the line of a recorded run stands whole.  A refused call has spent and    *)
(* used nothing; a recorded one had a runtime.                               *)
Books ==
  /\ others \subseteq Others /\ IsFiniteSet(others)
  /\ \A r \in Records, i \in 1..RecordBytes :
       Occurs(file, <<r, i>>) =>
         r \in others \/ (r \in Calls /\ at[r] \in {"recorded", "unrecorded"})
  /\ \A r \in Records : ~Twice(file, <<r, 1>>)
  /\ \A c \in Calls : at[c] = "recorded" =>
       \E x, y \in ByteSeqs : file = x \o (LineOf(c) \o y)
  /\ \A c \in Calls : at[c] = "refused" => spent[c] = 0 /\ used[c] = 0
  /\ \A c \in Calls : at[c] = "recorded" => runs[c] # None

LEMMA OccursJoin ==
  ASSUME NEW S, NEW s \in Seq(S), NEW t \in Seq(S), NEW b
  PROVE  /\ Occurs(s \o t, b) => Occurs(s, b) \/ Occurs(t, b)
         /\ Twice(s \o t, b) => \/ Twice(s, b) \/ Twice(t, b)
                                \/ Occurs(s, b) /\ Occurs(t, b)
<1>. DEFINE m == Len(s)
            n == Len(t)
<1>1. /\ m \in Nat /\ n \in Nat /\ Len(s \o t) = m + n
      /\ \A i \in 1..m : (s \o t)[i] = s[i]
      /\ \A i \in 1..n : (s \o t)[m + i] = t[i]
  OBVIOUS
<1>2. \A i \in 1..m + n : i \in 1..m \/ (i - m \in 1..n /\ m + (i - m) = i)
  BY <1>1
<1>3. ASSUME NEW i \in 1..m + n, (s \o t)[i] = b
      PROVE  (i \in 1..m /\ s[i] = b) \/ (i > m /\ i - m \in 1..n /\ t[i - m] = b)
  <2>1. CASE i \in 1..m
    BY <1>1, <1>3, <2>1
  <2>2. CASE i \notin 1..m
    <3>1. i - m \in 1..n /\ m + (i - m) = i /\ i > m
      BY <1>1, <1>2, <2>2
    <3>2. (s \o t)[m + (i - m)] = t[i - m]
      BY <1>1, <3>1
    <3>. QED  BY <1>3, <3>1, <3>2
  <2>. QED  BY <2>1, <2>2
<1>. HIDE DEF m, n
<1>4. Occurs(s \o t, b) => Occurs(s, b) \/ Occurs(t, b)
  BY <1>1, <1>3 DEF Occurs, m, n
<1>5. ASSUME NEW i \in 1..m + n, NEW j \in 1..m + n, i < j, (s \o t)[i] = b, (s \o t)[j] = b
      PROVE  Twice(s, b) \/ Twice(t, b) \/ (Occurs(s, b) /\ Occurs(t, b))
  <2>1. /\ (i \in 1..m /\ s[i] = b) \/ (i > m /\ i - m \in 1..n /\ t[i - m] = b)
        /\ (j \in 1..m /\ s[j] = b) \/ (j > m /\ j - m \in 1..n /\ t[j - m] = b)
    BY <1>3, <1>5
  <2>2. i - m < j - m
    BY <1>1, <1>5
  <2>3. CASE j \in 1..m /\ s[j] = b
    <3>1. i \in 1..m /\ s[i] = b
      BY <1>1, <1>5, <2>1, <2>3
    <3>. QED  BY <1>5, <2>3, <3>1 DEF Twice, m
  <2>4. CASE j > m /\ j - m \in 1..n /\ t[j - m] = b
    <3>1. CASE i \in 1..m /\ s[i] = b
      BY <2>4, <3>1 DEF Occurs, m, n
    <3>2. CASE i > m /\ i - m \in 1..n /\ t[i - m] = b
      BY <2>2, <2>4, <3>2 DEF Twice, n
    <3>. QED  BY <2>1, <3>1, <3>2
  <2>. QED  BY <2>1, <2>3, <2>4
<1>6. Twice(s \o t, b) => Twice(s, b) \/ Twice(t, b) \/ (Occurs(s, b) /\ Occurs(t, b))
  BY <1>1, <1>5 DEF Twice
<1>. QED  BY <1>4, <1>6

(* What a write adds: bytes of its record, each of them once.               *)
LEMMA Adds1 ==
  ASSUME NEW r \in Records, Writes(r) \/ WritesTorn(r)
  PROVE  \E w \in ByteSeqs :
           /\ file' = file \o w
           /\ \A s \in Records, i \in 1..RecordBytes : Occurs(w, <<s, i>>) => s = r
           /\ \A s \in Records : ~Twice(w, <<s, 1>>)
<1>1. /\ LineOf(r) \in Seq(Byte) /\ Len(LineOf(r)) = RecordBytes + 1
      /\ RecordBytes \in Nat \ {0}
      /\ \A i \in 1..RecordBytes : LineOf(r)[i] = <<r, i>>
      /\ LineOf(r)[RecordBytes + 1] = LF
  <2>1. LineOf(r) = Append(Bytes(r), LF) /\ Bytes(r) \in Seq(Byte) /\ LF \in Byte
        /\ Len(Bytes(r)) = RecordBytes /\ \A i \in 1..RecordBytes : Bytes(r)[i] = <<r, i>>
    BY LineBytes DEF LineOf, ByteSeqs, Byte
  <2>. HIDE DEF LF
  <2>. QED  BY <2>1, AppendProperties, LedgerAssumption
<1>2. PICK n \in 0..RecordBytes + 1 : file' = file \o SubSeq(LineOf(r), 1, n)
  <2>1. CASE Writes(r)
    <3>1. SubSeq(LineOf(r), 1, RecordBytes + 1) = LineOf(r)
      BY <1>1, SubSeqFull
    <3>2. RecordBytes + 1 \in 0..RecordBytes + 1
      BY <1>1
    <3>. QED  BY <2>1, <3>1, <3>2 DEF Writes
  <2>2. CASE WritesTorn(r)
    <3>1. \A n \in 0..RecordBytes : n \in 0..RecordBytes + 1
      BY <1>1
    <3>. QED  BY <2>2, <3>1 DEF WritesTorn
  <2>. QED  BY <2>1, <2>2
<1>. DEFINE w == SubSeq(LineOf(r), 1, n)
<1>3. /\ w \in Seq(Byte) /\ Len(w) = n /\ \A i \in 1..n : w[i] = LineOf(r)[i]
  <2>1. \A i \in 1..n : LineOf(r)[i] \in Byte
    BY <1>1
  <2>2. 1 \in Int /\ n \in Int /\ n - 1 + 1 = n /\ (n < 1 => n = 0) /\ \A i \in 1..n : 1 + i - 1 = i
    OBVIOUS
  <2>3. /\ w \in Seq(Byte) /\ Len(w) = IF 1 <= n THEN n - 1 + 1 ELSE 0
        /\ \A i \in 1..n - 1 + 1 : w[i] = LineOf(r)[1 + i - 1]
    BY <2>1, <2>2, SubSeqProperties
  <2>. HIDE DEF w
  <2>. QED  BY <2>2, <2>3
<1>. HIDE DEF w
<1>4. \A i \in 1..n : w[i] = <<r, i>> \/ w[i] = LF
  <2>1. \A i \in 1..n : i \in 1..RecordBytes \/ i = RecordBytes + 1
    BY <1>1
  <2>. QED  BY <1>1, <1>3, <2>1
<1>5. \A s \in Records, i \in 1..RecordBytes : <<s, i>> # LF
  BY <1>1 DEF LF
<1>6. \A s \in Records, i \in 1..RecordBytes : Occurs(w, <<s, i>>) => s = r
  <2>. SUFFICES ASSUME NEW s \in Records, NEW i \in 1..RecordBytes, NEW k \in 1..n, w[k] = <<s, i>>
                PROVE  s = r
    BY <1>3 DEF Occurs
  <2>1. w[k] = <<r, k>>
    BY <1>4, <1>5
  <2>. QED  BY <2>1
<1>7. \A s \in Records : ~Twice(w, <<s, 1>>)
  <2>1. 1 \in 1..RecordBytes
    BY <1>1
  <2>2. ASSUME NEW s \in Records, NEW i \in 1..n, w[i] = <<s, 1>> PROVE i = 1
    BY <1>4, <1>5, <2>1, <2>2
  <2>3. \A i, j \in 1..n : i < j => ~(i = 1 /\ j = 1)
    OBVIOUS
  <2>. QED  BY <1>3, <2>2, <2>3 DEF Twice
<1>. QED  BY <1>2, <1>3, <1>6, <1>7 DEF w, ByteSeqs

LEMMA BooksStart == Init => Books
<1>. SUFFICES ASSUME Init PROVE Books
  OBVIOUS
<1>1. file = <<>> /\ others = {} /\ at = [c \in Calls |-> "idle"]
  BY DEF Init, LedgerInit
<1>2. \A b : ~Occurs(<<>>, b) /\ ~Twice(<<>>, b)
  BY DEF Occurs, Twice
<1>. QED  BY <1>1, <1>2, FS_EmptySet DEF Books

(* Steps that write nothing leave those alone that have ended.              *)
Silent ==
  /\ UNCHANGED <<file, others>>
  /\ \A c \in Calls :
       /\ at[c] \in {"recorded", "unrecorded"} => at'[c] = at[c]
       /\ at'[c] = "recorded" => at[c] = "recorded" /\ runs'[c] = runs[c]
       /\ at'[c] = "refused" => \/ at[c] = "refused" /\ spent'[c] = spent[c] /\ used'[c] = used[c]
                                \/ spent'[c] = 0 /\ used'[c] = 0

LEMMA SilentKeeps ==
  ASSUME Books, Silent
  PROVE  Books'
<1>1. file' = file /\ others' = others
  BY DEF Silent
<1>2. \A c \in Calls : at'[c] = "recorded" =>
        /\ \E x, y \in ByteSeqs : file' = x \o (LineOf(c) \o y)
        /\ runs'[c] # None
  BY <1>1 DEF Books, Silent
<1>3. \A c \in Calls : at'[c] = "refused" => spent'[c] = 0 /\ used'[c] = 0
  BY DEF Books, Silent
<1>4. \A r \in Records, i \in 1..RecordBytes :
        Occurs(file', <<r, i>>) =>
          r \in others' \/ (r \in Calls /\ at'[r] \in {"recorded", "unrecorded"})
  BY <1>1 DEF Books, Silent
<1>5. \A r \in Records : ~Twice(file', <<r, 1>>)
  BY <1>1 DEF Books
<1>. QED  BY <1>1, <1>2, <1>3, <1>4, <1>5 DEF Books

LEMMA QuietIsSilent ==
  ASSUME IInv, [Next]_vars
  PROVE  \/ Silent
         \/ \E c \in Calls : RunEnds(c)
         \/ \E r \in Others : OtherRunEnds(r)
<1>. USE DEF IInv, ServiceTypes
<1>1. CASE UNCHANGED vars
  BY <1>1 DEF vars, ledgerVars, callVars, worldVars, Silent
<1>2. ASSUME NEW c \in Calls, Refused(c) PROVE Silent
  <2>1. spent[c] = 0 /\ used[c] = 0
    BY <1>2 DEF Refused, FirstRuntimeInv, SpendingInv
  <2>. QED  BY <1>2, <2>1 DEF Refused, Silent, ledgerVars, worldVars
<1>3. ASSUME NEW c \in Calls, FindsFactory(c) PROVE Silent
  BY <1>3 DEF FindsFactory, MakesRuntime, Silent, ledgerVars, worldVars
<1>4. ASSUME NEW c \in Calls, Queues(c) PROVE Silent
  BY <1>4 DEF Queues, Silent, ledgerVars, worldVars
<1>5. ASSUME NEW c \in Calls, TakesLock(c) \/ IsWoken(c) PROVE Silent
  <2>1. /\ at[c] \in {"idle", "queued"} /\ Builds(c) /\ UNCHANGED <<file, others, used>>
    BY <1>5 DEF TakesLock, IsWoken, ledgerVars
  <2>2. \E place \in {"running", "failed", "probing"} : at' = [at EXCEPT ![c] = place]
    BY <2>1 DEF Builds, MakesRuntime, Caches, BuildFails, ProbeCalls
  <2>3. \A d \in Calls \ {c} : runs'[d] = runs[d] /\ spent'[d] = spent[d]
    BY <2>1 DEF Builds, MakesRuntime, Caches, BuildFails, ProbeCalls
  <2>. QED  BY <2>1, <2>2, <2>3 DEF Silent
<1>6. ASSUME NEW c \in Calls, ProbeSucceeds(c) PROVE Silent
  BY <1>6 DEF ProbeSucceeds, Caches, MakesRuntime, Silent, ledgerVars
<1>7. ASSUME NEW c \in Calls, ProbeCorrected(c) PROVE Silent
  BY <1>7 DEF ProbeCorrected, ProbeCalls, Silent, ledgerVars
<1>8. ASSUME NEW c \in Calls, ProbeFails(c) PROVE Silent
  BY <1>8 DEF ProbeFails, BuildFails, Silent, ledgerVars, worldVars
<1>9. ASSUME NEW c \in Calls, RunCalls(c) PROVE Silent
  BY <1>9 DEF RunCalls, Silent, ledgerVars
<1>10. ASSUME NEW c \in Calls, CancelCall(c) PROVE Silent
  BY <1>10 DEF CancelCall, Silent, ledgerVars, worldVars
<1>11. CASE ResetFactoryCache
  BY <1>11 DEF ResetFactoryCache, Silent, ledgerVars, callVars
<1>12. CASE Reads
  BY <1>12 DEF Reads, ReaderStep, ReaderOpens, ReaderTakesBlock, Silent, callVars, worldVars
<1>13. ASSUME NEW c \in Calls, Verifies(c) PROVE Silent
  BY <1>13 DEF Verifies, Silent, ledgerVars
<1>. QED  BY <1>1, <1>2, <1>3, <1>4, <1>5, <1>6, <1>7, <1>8, <1>9, <1>10, <1>11, <1>12, <1>13
          DEF Next

(* A write is of a run that ends with it.                                   *)
LEMMA WriteKeepsBooks ==
  ASSUME Books, file \in ByteSeqs, NEW r \in Records, Writes(r) \/ WritesTorn(r),
         r \notin others, r \in Calls => at[r] \notin {"recorded", "unrecorded"},
         r \in others' \/ (r \in Calls /\ at'[r] \in {"recorded", "unrecorded"}),
         others \subseteq others',
         \A c \in Calls \ {r} : at'[c] = at[c]
  PROVE  /\ \A s \in Records, i \in 1..RecordBytes :
              Occurs(file', <<s, i>>) =>
                s \in others' \/ (s \in Calls /\ at'[s] \in {"recorded", "unrecorded"})
         /\ \A s \in Records : ~Twice(file', <<s, 1>>)
         /\ \A c \in Calls \ {r} : at[c] = "recorded" =>
              \E x, y \in ByteSeqs : file' = x \o (LineOf(c) \o y)
<1>1. PICK w \in ByteSeqs :
        /\ file' = file \o w
        /\ \A s \in Records, i \in 1..RecordBytes : Occurs(w, <<s, i>>) => s = r
        /\ \A s \in Records : ~Twice(w, <<s, 1>>)
  BY Adds1
<1>2. \A b : /\ Occurs(file', b) => Occurs(file, b) \/ Occurs(w, b)
             /\ Twice(file', b) => Twice(file, b) \/ Twice(w, b) \/ (Occurs(file, b) /\ Occurs(w, b))
  <2>1. file \in Seq(Byte) /\ w \in Seq(Byte)
    BY DEF ByteSeqs
  <2>. QED  BY <1>1, <2>1, OccursJoin
<1>3. ASSUME NEW s \in Records, NEW i \in 1..RecordBytes, Occurs(file', <<s, i>>)
      PROVE  s \in others' \/ (s \in Calls /\ at'[s] \in {"recorded", "unrecorded"})
  <2>1. CASE Occurs(w, <<s, i>>)
    BY <1>1, <2>1
  <2>2. CASE Occurs(file, <<s, i>>)
    <3>1. s \in others \/ (s \in Calls /\ at[s] \in {"recorded", "unrecorded"})
      BY <2>2 DEF Books
    <3>. QED  BY <3>1
  <2>. QED  BY <1>2, <1>3, <2>1, <2>2
<1>4. ASSUME NEW s \in Records PROVE ~Twice(file', <<s, 1>>)
  <2>1. 1 \in 1..RecordBytes
    BY LedgerAssumption
  <2>2. ~Twice(file, <<s, 1>>) /\ ~Twice(w, <<s, 1>>)
    BY <1>1 DEF Books
  <2>3. ~(Occurs(file, <<s, 1>>) /\ Occurs(w, <<s, 1>>))
    BY <1>1, <2>1 DEF Books
  <2>. QED  BY <1>2, <2>2, <2>3
<1>5. ASSUME NEW c \in Calls \ {r}, at[c] = "recorded"
      PROVE  \E x, y \in ByteSeqs : file' = x \o (LineOf(c) \o y)
  <2>1. PICK x \in ByteSeqs, y \in ByteSeqs : file = x \o (LineOf(c) \o y)
    BY <1>5 DEF Books
  <2>2. c \in Records
    BY ServiceAssumption
  <2>. DEFINE l == LineOf(c)
  <2>3. l \in Seq(Byte) /\ x \in Seq(Byte) /\ y \in Seq(Byte) /\ w \in Seq(Byte)
    BY <2>2, LineBytes DEF ByteSeqs
  <2>. HIDE DEF l
  <2>4. l \o y \in Seq(Byte) /\ y \o w \in Seq(Byte)
    BY <2>3
  <2>5. (x \o (l \o y)) \o w = x \o ((l \o y) \o w)
    <3>. DEFINE ly == l \o y
    <3>1. ly \in Seq(Byte)
      BY <2>4
    <3>. HIDE DEF ly
    <3>2. (x \o ly) \o w = x \o (ly \o w)
      BY SMTT(30), <2>3, <3>1, ConcatAssociative
    <3>. QED  BY <3>2 DEF ly
  <2>6. (l \o y) \o w = l \o (y \o w)
    <3>1. \A p, q, r2 \in Seq(Byte) : (p \o q) \o r2 = p \o (q \o r2)
      BY ConcatAssociative
    <3>. QED  BY <2>3, <3>1
  <2>7. file' = x \o (l \o (y \o w))
    BY <1>1, <2>1, <2>5, <2>6 DEF l
  <2>. QED  BY <2>4, <2>7 DEF l, ByteSeqs
<1>. QED  BY <1>3, <1>4, <1>5

LEMMA RunEndsKeepsBooks ==
  ASSUME IInv, LedgerInv, Books, NEW c \in Calls, RunEnds(c)
  PROVE  Books'
<1>1. /\ at[c] \in {"running", "verifying"} /\ runs[c] # None /\ c \in Records /\ c \notin others
      /\ UNCHANGED <<spent, used, runs, others>> /\ file \in ByteSeqs
      /\ at \in [Calls -> Standing]
  BY ServiceAssumption DEF RunEnds, IInv, ServiceTypes, SpendingInv, Books, LedgerInv, ReaderTypes, worldVars
<1>2. \/ Writes(c) /\ at' = [at EXCEPT ![c] = "recorded"]
      \/ WritesTorn(c) /\ at' = [at EXCEPT ![c] = "unrecorded"]
  BY DEF RunEnds
<1>3. /\ Writes(c) \/ WritesTorn(c)
      /\ at'[c] \in {"recorded", "unrecorded"} /\ \A d \in Calls \ {c} : at'[d] = at[d]
      /\ at'[c] = "recorded" => Writes(c)
  BY <1>1, <1>2
<1>4. /\ \A s \in Records, i \in 1..RecordBytes :
           Occurs(file', <<s, i>>) =>
             s \in others' \/ (s \in Calls /\ at'[s] \in {"recorded", "unrecorded"})
      /\ \A s \in Records : ~Twice(file', <<s, 1>>)
      /\ \A d \in Calls \ {c} : at[d] = "recorded" =>
           \E x, y \in ByteSeqs : file' = x \o (LineOf(d) \o y)
  BY <1>1, <1>3, WriteKeepsBooks
<1>5. ASSUME at'[c] = "recorded"
      PROVE  \E x, y \in ByteSeqs : file' = x \o (LineOf(c) \o y)
  <2>1. file' = file \o LineOf(c)
    BY <1>3, <1>5 DEF Writes
  <2>2. <<>> \in ByteSeqs /\ LineOf(c) \o <<>> = LineOf(c)
    BY <1>1, LineBytes DEF ByteSeqs
  <2>. QED  BY <1>1, <2>1, <2>2
<1>6. \A d \in Calls : at'[d] = "recorded" => \E x, y \in ByteSeqs : file' = x \o (LineOf(d) \o y)
  BY <1>3, <1>4, <1>5
<1>7. \A d \in Calls : /\ at'[d] = "refused" => spent'[d] = 0 /\ used'[d] = 0
                       /\ at'[d] = "recorded" => runs'[d] # None
  BY <1>1, <1>3 DEF Books
<1>8. others' \subseteq Others /\ IsFiniteSet(others')
  BY <1>1 DEF Books
<1>. QED  BY <1>4, <1>6, <1>7, <1>8 DEF Books

LEMMA OtherRunKeepsBooks ==
  ASSUME LedgerInv, Books, NEW r \in Others, OtherRunEnds(r)
  PROVE  Books'
<1>1. /\ r \in Records /\ r \notin Calls /\ r \notin others /\ others' = others \cup {r}
      /\ Writes(r) \/ WritesTorn(r)
      /\ UNCHANGED <<at, spent, used, runs>> /\ file \in ByteSeqs
  BY ServiceAssumption DEF OtherRunEnds, LedgerInv, ReaderTypes, callVars
<1>2. /\ \A s \in Records, i \in 1..RecordBytes :
           Occurs(file', <<s, i>>) =>
             s \in others' \/ (s \in Calls /\ at'[s] \in {"recorded", "unrecorded"})
      /\ \A s \in Records : ~Twice(file', <<s, 1>>)
      /\ \A d \in Calls \ {r} : at[d] = "recorded" =>
           \E x, y \in ByteSeqs : file' = x \o (LineOf(d) \o y)
  BY <1>1, WriteKeepsBooks
<1>3. others' \subseteq Others /\ IsFiniteSet(others')
  BY <1>1, FS_AddElement DEF Books
<1>4. \A d \in Calls : at'[d] = "recorded" => \E x, y \in ByteSeqs : file' = x \o (LineOf(d) \o y)
  BY <1>1, <1>2
<1>5. \A d \in Calls : /\ at'[d] = "refused" => spent'[d] = 0 /\ used'[d] = 0
                       /\ at'[d] = "recorded" => runs'[d] # None
  BY <1>1 DEF Books
<1>. QED  BY <1>2, <1>3, <1>4, <1>5 DEF Books

LEMMA BooksStep == IInv /\ LedgerInv /\ Books /\ [Next]_vars => Books'
BY QuietIsSilent, SilentKeeps, RunEndsKeepsBooks, OtherRunKeepsBooks

LEMMA AllHold == Spec => [](IInv /\ LedgerInv /\ Books)
<1>1. Init => IInv /\ LedgerInv /\ Books
  BY InitHolds, LedgerInitHolds, BooksStart DEF Init
<1>2. IInv /\ LedgerInv /\ Books /\ [Next]_vars => IInv' /\ LedgerInv' /\ Books'
  BY StepKeeps, LedgerStep, BooksStep
<1>. QED  BY <1>1, <1>2, PTL DEF Spec

-----------------------------------------------------------------------------
(* The records kept of a file come from pieces that are their bytes, in     *)
(* order, and every such piece is kept.                                     *)
LEMMA KeptWhence ==
  ASSUME NEW lines \in Seq(ByteSeqs)
  PROVE  /\ \A i \in 1..Len(lines) : Parses(lines[i]) =>
              \E k \in 1..Len(Kept(lines)) : Kept(lines)[k] = RecordIn(lines[i])
         /\ \E from \in [1..Len(Kept(lines)) -> 1..Len(lines)] :
              /\ \A k \in 1..Len(Kept(lines)) : lines[from[k]] = Bytes(Kept(lines)[k])
              /\ \A k, l \in 1..Len(Kept(lines)) : k < l => from[k] < from[l]
<1>. DEFINE One(s) == \A i \in 1..Len(s) : Parses(s[i]) =>
              \E k \in 1..Len(Kept(s)) : Kept(s)[k] = RecordIn(s[i])
            Two(s) == \E from \in [1..Len(Kept(s)) -> 1..Len(s)] :
              /\ \A k \in 1..Len(Kept(s)) : s[from[k]] = Bytes(Kept(s)[k])
              /\ \A k, l \in 1..Len(Kept(s)) : k < l => from[k] < from[l]
            G == {s \in Seq(ByteSeqs) : One(s) /\ Two(s)}
<1>1. <<>> \in G
  <2>1. Kept(<<>>) = <<>> /\ Len(<<>>) = 0 /\ 1..0 = {}
    BY KeptAppend
  <2>2. One(<<>>)
    BY <2>1
  <2>3. Two(<<>>)
    <3>1. [i \in {} |-> 0] \in [{} -> {}]
      OBVIOUS
    <3>. QED  BY <2>1, <3>1
  <2>. HIDE DEF One, Two
  <2>. QED  BY <2>2, <2>3
<1>2. ASSUME NEW s \in Seq(ByteSeqs), NEW e \in ByteSeqs, s \in G PROVE Append(s, e) \in G
  <2>. DEFINE t == Append(s, e)
              n == Len(s)
              K == Kept(s)
              m == Len(K)
              L == Kept(t)
  <2>1. /\ t \in Seq(ByteSeqs) /\ n \in Nat /\ Len(t) = n + 1 /\ t[n + 1] = e
        /\ \A i \in 1..n : t[i] = s[i]
    OBVIOUS
  <2>2. L = With(e, K) /\ K \in Seq(Records) /\ m \in Nat
    BY KeptAppend, KeptType
  <2>3. One(s) /\ Two(s)
    BY <1>2
  <2>4. PICK from \in [1..m -> 1..n] :
          /\ \A k \in 1..m : s[from[k]] = Bytes(K[k])
          /\ \A k, l \in 1..m : k < l => from[k] < from[l]
    BY <2>3
  <2>5. \A i \in 1..n : Parses(s[i]) => \E k \in 1..m : K[k] = RecordIn(s[i])
    BY <2>3
  <2>. HIDE DEF t, n, K, m, L, One, Two, G
  <2>6. CASE Parses(e)
    <3>1. RecordIn(e) \in Records /\ e = Bytes(RecordIn(e))
      BY <2>6 DEF Parses, RecordIn
    <3>2. /\ Len(L) = m + 1 /\ L[m + 1] = RecordIn(e) /\ \A k \in 1..m : L[k] = K[k]
      <4>1. L = Append(K, RecordIn(e))
        BY <2>2, <2>6 DEF With
      <4>. QED  BY <2>2, <3>1, <4>1, AppendProperties DEF m
    <3>. DEFINE g == [k \in 1..m + 1 |-> IF k = m + 1 THEN n + 1 ELSE from[k]]
    <3>3. \A k \in 1..m + 1 : k = m + 1 \/ k \in 1..m
      BY <2>2
    <3>4. g \in [1..m + 1 -> 1..n + 1]
      BY <2>1, <2>4, <3>3
    <3>5. \A k \in 1..m + 1 : t[g[k]] = Bytes(L[k])
      BY <2>1, <2>4, <3>1, <3>2, <3>3
    <3>6. \A k, l \in 1..m + 1 : k < l => g[k] < g[l]
      <4>. SUFFICES ASSUME NEW k \in 1..m + 1, NEW l \in 1..m + 1, k < l PROVE g[k] < g[l]
        OBVIOUS
      <4>1. k \in 1..m /\ g[k] = from[k] /\ from[k] \in 1..n
        BY <2>2, <2>4, <3>3
      <4>2. CASE l = m + 1
        BY <2>1, <4>1, <4>2
      <4>3. CASE l # m + 1
        BY <2>4, <3>3, <4>1, <4>3
      <4>. QED  BY <4>2, <4>3
    <3>. HIDE DEF g
    <3>7. Two(t)
      BY <2>1, <3>2, <3>4, <3>5, <3>6 DEF Two, L
    <3>8. One(t)
      <4>. SUFFICES ASSUME NEW i \in 1..n + 1, Parses(t[i])
                    PROVE  \E k \in 1..m + 1 : L[k] = RecordIn(t[i])
        BY <2>1, <3>2 DEF One, L
      <4>1. CASE i = n + 1
        BY <2>1, <2>2, <3>2, <4>1
      <4>2. CASE i # n + 1
        <5>1. i \in 1..n /\ t[i] = s[i]
          BY <2>1, <4>2
        <5>2. PICK k \in 1..m : K[k] = RecordIn(s[i])
          BY <2>5, <5>1
        <5>3. k \in 1..m + 1
          BY <2>2
        <5>. QED  BY <3>2, <5>1, <5>2, <5>3
      <4>. QED  BY <4>1, <4>2
    <3>. QED  BY <2>1, <3>7, <3>8 DEF G, t
  <2>7. CASE ~Parses(e)
    <3>1. L = K /\ Len(L) = m
      BY <2>2, <2>7 DEF With, m
    <3>2. from \in [1..m -> 1..n + 1]
      BY <2>1, <2>4
    <3>3. \A k \in 1..m : t[from[k]] = Bytes(L[k])
      BY <2>1, <2>4, <3>1
    <3>4. Two(t)
      BY <2>1, <2>4, <3>1, <3>2, <3>3 DEF Two, L
    <3>5. One(t)
      <4>. SUFFICES ASSUME NEW i \in 1..n + 1, Parses(t[i])
                    PROVE  \E k \in 1..m : L[k] = RecordIn(t[i])
        BY <2>1, <3>1 DEF One, L
      <4>1. i # n + 1
        BY <2>1, <2>7
      <4>2. i \in 1..n /\ t[i] = s[i]
        BY <2>1, <4>1
      <4>. QED  BY <2>5, <3>1, <4>2
    <3>. QED  BY <2>1, <3>4, <3>5 DEF G, t
  <2>. QED  BY <2>6, <2>7
<1>3. Seq(ByteSeqs) \subseteq G
  <2>. HIDE DEF G
  <2>. QED  BY <1>1, <1>2, EndInduction
<1>. QED  BY <1>3

(* A line is the bytes of one record at most, and it has bytes.             *)
LEMMA OneRecord ==
  /\ 1 \in 1..RecordBytes
  /\ \A r \in Records : Bytes(r) # <<>> /\ Occurs(Bytes(r), <<r, 1>>)
  /\ \A r, s \in Records : Bytes(r) = Bytes(s) => r = s
  /\ \A r \in Records : Parses(Bytes(r)) /\ RecordIn(Bytes(r)) = r
<1>1. 1 \in 1..RecordBytes
  BY LedgerAssumption
<1>2. \A r \in Records : Len(Bytes(r)) = RecordBytes /\ Bytes(r)[1] = <<r, 1>>
  BY <1>1, LineBytes
<1>3. \A r, s \in Records : Bytes(r) = Bytes(s) => r = s
  <2>. SUFFICES ASSUME NEW r \in Records, NEW s \in Records, Bytes(r) = Bytes(s) PROVE r = s
    OBVIOUS
  <2>1. <<r, 1>> = <<s, 1>>
    BY <1>2
  <2>. QED  BY <2>1
<1>4. \A r \in Records : Bytes(r) # <<>> /\ Occurs(Bytes(r), <<r, 1>>)
  <2>. SUFFICES ASSUME NEW r \in Records PROVE Bytes(r) # <<>> /\ Occurs(Bytes(r), <<r, 1>>)
    OBVIOUS
  <2>1. Bytes(r) # <<>>
    BY <1>1, <1>2
  <2>2. Occurs(Bytes(r), <<r, 1>>)
    BY <1>1, <1>2 DEF Occurs
  <2>. QED  BY <2>1, <2>2
<1>5. \A r \in Records : Parses(Bytes(r)) /\ RecordIn(Bytes(r)) = r
  BY <1>3 DEF Parses, RecordIn
<1>. QED  BY <1>1, <1>3, <1>4, <1>5

LEMMA LineFacts ==
  ASSUME NEW bytes \in ByteSeqs
  PROVE  /\ Lines(bytes) \in Seq(ByteSeqs) /\ DOMAIN Lines(bytes) = 1..Len(Pieces(bytes))
         /\ Len(Lines(bytes)) = Len(Pieces(bytes)) /\ Len(Pieces(bytes)) \in Nat
         /\ \A i \in 1..Len(Pieces(bytes)) :
              /\ Len(Pieces(bytes)) - i + 1 \in 1..Len(Pieces(bytes))
              /\ Lines(bytes)[i] = Pieces(bytes)[Len(Pieces(bytes)) - i + 1]
              /\ Lines(bytes)[Len(Pieces(bytes)) - i + 1] = Pieces(bytes)[i]
<1>. DEFINE P == Pieces(bytes)
            n == Len(P)
<1>1. P \in Seq(ByteSeqs) /\ n \in Nat
  BY PiecesType DEF PieceSeqs
<1>2. Lines(bytes) = [i \in 1..n |-> P[n - i + 1]]
  BY DEF Lines, Reverse
<1>. HIDE DEF P
<1>3. \A i \in 1..n : n - i + 1 \in 1..n /\ n - (n - i + 1) + 1 = i /\ P[i] \in ByteSeqs
  BY <1>1
<1>. DEFINE L == [i \in 1..n |-> P[n - i + 1]]
<1>4. L \in Seq(ByteSeqs) /\ Len(L) = n /\ DOMAIN L = 1..n
  BY <1>1, <1>3
<1>5. \A i \in 1..n : L[i] = P[n - i + 1] /\ L[n - i + 1] = P[i]
  BY <1>3
<1>. HIDE DEF L
<1>6. Lines(bytes) = L
  BY <1>2 DEF L
<1>. QED  BY <1>1, <1>3, <1>4, <1>5, <1>6 DEF P

(* Nothing is kept twice of a file that is in order, and only what the      *)
(* books say is in it.                                                      *)
LEMMA KeptOfFile ==
  ASSUME Books, file \in ByteSeqs
  PROVE  LET K == Kept(Lines(file)) IN
         /\ K \in Seq(Records)
         /\ \A k \in 1..Len(K) :
              K[k] \in others \/ (K[k] \in Calls /\ at[K[k]] \in {"recorded", "unrecorded"})
         /\ \A k, l \in 1..Len(K) : k < l => K[k] # K[l]
<1>. DEFINE P == Pieces(file)
            L == Lines(file)
            n == Len(P)
            K == Kept(L)
<1>1. /\ L \in Seq(ByteSeqs) /\ Len(L) = n /\ n \in Nat
      /\ \A i \in 1..n : n - i + 1 \in 1..n /\ L[i] = P[n - i + 1]
  BY LineFacts
<1>2. K \in Seq(Records)
  BY <1>1, KeptType
<1>3. PICK from \in [1..Len(K) -> 1..n] :
        /\ \A k \in 1..Len(K) : L[from[k]] = Bytes(K[k])
        /\ \A k, l \in 1..Len(K) : k < l => from[k] < from[l]
  <2>. HIDE DEF L, n, P
  <2>. QED  BY <1>1, KeptWhence
<1>4. \A b : b # LF =>
        /\ \A i \in 1..n : Occurs(P[i], b) => Occurs(file, b)
        /\ \A i, j \in 1..n : i < j /\ Occurs(P[i], b) /\ Occurs(P[j], b) => Twice(file, b)
  BY PiecesApart
<1>. HIDE DEF P, L, K
<1>. DEFINE back(k) == n - from[k] + 1
<1>5. ASSUME NEW k \in 1..Len(K)
      PROVE  /\ K[k] \in Records /\ <<K[k], 1>> # LF /\ back(k) \in 1..n
             /\ Occurs(P[back(k)], <<K[k], 1>>) /\ from[k] \in 1..n
  <2>1. K[k] \in Records /\ from[k] \in 1..n
    BY <1>2, <1>3
  <2>2. P[back(k)] = Bytes(K[k]) /\ back(k) \in 1..n
    BY <1>1, <1>3, <2>1
  <2>3. <<K[k], 1>> # LF
    BY DEF LF
  <2>. QED  BY <2>1, <2>2, <2>3, OneRecord
<1>6. ASSUME NEW k \in 1..Len(K)
      PROVE  K[k] \in others \/ (K[k] \in Calls /\ at[K[k]] \in {"recorded", "unrecorded"})
  <2>1. Occurs(file, <<K[k], 1>>)
    BY <1>4, <1>5
  <2>. QED  BY <1>5, <2>1, OneRecord DEF Books
<1>7. ASSUME NEW k \in 1..Len(K), NEW l \in 1..Len(K), k < l PROVE K[k] # K[l]
  <2>. SUFFICES ASSUME K[k] = K[l] PROVE FALSE
    OBVIOUS
  <2>1. back(l) < back(k)
    <3>1. from[k] < from[l] /\ from[k] \in 1..n /\ from[l] \in 1..n
      BY <1>3, <1>5, <1>7
    <3>. QED  BY <1>1, <3>1
  <2>2. Twice(file, <<K[k], 1>>)
    <3>. HIDE DEF back
    <3>1. /\ back(k) \in 1..n /\ back(l) \in 1..n /\ <<K[k], 1>> # LF
          /\ Occurs(P[back(k)], <<K[k], 1>>) /\ Occurs(P[back(l)], <<K[k], 1>>)
      BY <1>5
    <3>. QED  BY <1>4, <2>1, <3>1
  <2>. QED  BY <1>5, <2>2 DEF Books
<1>. QED  BY <1>2, <1>6, <1>7 DEF K, L

(* What is recorded is kept where no line is damaged.                       *)
LEMMA RecordedIsKept ==
  ASSUME Books, file \in ByteSeqs, NEW c \in Calls, at[c] = "recorded",
         \A i \in DOMAIN Lines(file) : Lines(file)[i] = <<>> \/ Parses(Lines(file)[i])
  PROVE  \E k \in 1..Len(Kept(Lines(file))) : Kept(Lines(file))[k] = c
<1>. DEFINE P == Pieces(file)
            L == Lines(file)
            n == Len(P)
            h == Bytes(c)
<1>1. c \in Records
  BY ServiceAssumption
<1>2. PICK x \in ByteSeqs, y \in ByteSeqs : file = x \o (LineOf(c) \o y)
  BY DEF Books
<1>3. h \in ByteSeqs /\ Plain(h) /\ LineOf(c) = h \o <<LF>> /\ Len(h) = RecordBytes
  BY <1>1, LineBytes
<1>. DEFINE z == <<LF>> \o y
            Q == Pieces(y)
<1>4. z \in ByteSeqs /\ <<LF>> \in ByteSeqs
  BY DEF ByteSeqs, Byte
<1>5. LineOf(c) \o y = h \o z
  <2>. HIDE DEF h
  <2>. DEFINE lf == <<LF>>
  <2>1. h \in Seq(Byte) /\ y \in Seq(Byte) /\ lf \in Seq(Byte)
    BY <1>3, <1>4 DEF ByteSeqs
  <2>. HIDE DEF lf
  <2>2. (h \o lf) \o y = h \o (lf \o y)
    BY <2>1, ConcatAssociative
  <2>. QED  BY <1>3, <2>2 DEF lf
<1>. DEFINE hz == h \o z
<1>6. hz \in ByteSeqs /\ Pieces(hz) = <<h>> \o Q /\ Q \in Seq(ByteSeqs)
  <2>1. hz \in ByteSeqs
    BY <1>3, <1>4 DEF ByteSeqs
  <2>2. Pieces(hz) = <<h>> \o Q
    BY <1>3, LineApart
  <2>3. Q \in Seq(ByteSeqs)
    BY PiecesType DEF PieceSeqs
  <2>. QED  BY <2>1, <2>2, <2>3
<1>. HIDE DEF hz, Q, h
<1>7. Head(Pieces(hz)) = h /\ Tail(Pieces(hz)) = Q
  BY <1>3, <1>6, Consing
<1>8. P = Pieces(x \o h) \o Q
  <2>1. Pieces(x \o hz) = Pieces(x \o Head(Pieces(hz))) \o Tail(Pieces(hz))
    BY <1>6, PiecesJoin
  <2>. QED  BY <1>2, <1>5, <1>7, <2>1 DEF hz
<1>. DEFINE R == Pieces(x \o h)
<1>9. R \in Seq(ByteSeqs)
  <2>1. x \o h \in ByteSeqs
    BY <1>3 DEF ByteSeqs
  <2>. QED  BY <2>1, PiecesType DEF PieceSeqs
<1>10. PICK j \in 1..Len(R), u \in ByteSeqs : R[j] = u \o h
  BY <1>3, PieceEnds
<1>. HIDE DEF R, P, L
<1>11. j \in 1..n /\ P[j] = u \o h
  <2>1. P = R \o Q
    BY <1>8 DEF R
  <2>. QED  BY <1>6, <1>9, <1>10, <2>1
<1>12. /\ L \in Seq(ByteSeqs) /\ Len(L) = n /\ DOMAIN L = 1..n
       /\ n - j + 1 \in 1..n /\ L[n - j + 1] = P[j]
  BY <1>11, LineFacts DEF L, P
<1>13. PICK r \in Records : u \o h = Bytes(r)
  <2>1. u \o h # <<>>
    <3>4. Len(h) \in Nat /\ Len(h) > 0
      BY <1>3, LedgerAssumption
    <3>1. Len(u \o h) = Len(u) + Len(h) /\ Len(u) \in Nat
      BY <1>3 DEF ByteSeqs
    <3>. DEFINE g == u \o h
    <3>2. Len(g) > 0
      BY <3>4, <3>1
    <3>. HIDE DEF g
    <3>3. g # <<>>
      BY <3>2
    <3>. QED  BY <3>3 DEF g
  <2>2. Parses(L[n - j + 1])
    BY <1>11, <1>12, <2>1 DEF L
  <2>. QED  BY <1>11, <1>12, <2>2 DEF Parses
<1>14. u \o h = h
  <2>1. Len(u \o h) = Len(u) + Len(h) /\ Len(u) \in Nat /\ Len(h) \in Nat
    BY <1>3 DEF ByteSeqs
  <2>2. Len(u \o h) = Len(h)
    BY <1>3, <1>13, LineBytes
  <2>3. u = <<>>
    BY <2>1, <2>2 DEF ByteSeqs
  <2>. QED  BY <1>3, <2>3 DEF ByteSeqs
<1>15. Parses(L[n - j + 1]) /\ RecordIn(L[n - j + 1]) = c
  BY <1>1, <1>11, <1>12, <1>14, OneRecord DEF h
<1>. QED  BY <1>12, <1>15, KeptWhence DEF L

(* They are no more than the limit, so a reader that ends has them all.     *)
LEMMA KeptIsShort ==
  ASSUME Books, file \in ByteSeqs,
         \A c \in Calls : at[c] \in {"recorded", "refused"},
         Cardinality({c \in Calls : at[c] = "recorded"}) + Cardinality(others) =< Limit
  PROVE  Len(Kept(Lines(file))) =< Limit
<1>. DEFINE K == Kept(Lines(file))
            Recorded == {c \in Calls : at[c] = "recorded"}
            All == Recorded \cup others
<1>1. /\ K \in Seq(Records)
      /\ \A k \in 1..Len(K) :
           K[k] \in others \/ (K[k] \in Calls /\ at[K[k]] \in {"recorded", "unrecorded"})
      /\ \A k, l \in 1..Len(K) : k < l => K[k] # K[l]
  BY KeptOfFile
<1>2. /\ IsFiniteSet(Recorded) /\ IsFiniteSet(others)
      /\ Cardinality(Recorded) \in Nat /\ Cardinality(others) \in Nat
  <2>1. IsFiniteSet(Recorded)
    BY ServiceAssumption, FS_Subset
  <2>. QED  BY <2>1, FS_CardinalityType DEF Books
<1>3. Cardinality(Recorded) + Cardinality(others) =< Limit
  OBVIOUS
<1>4. \A k \in 1..Len(K) : K[k] \in All
  BY <1>1
<1>. HIDE DEF K, Recorded
<1>5. IsFiniteSet(All) /\ Cardinality(All) \in Nat /\ Cardinality(All) =< Limit
  <2>1. /\ IsFiniteSet(All)
        /\ Cardinality(All) = Cardinality(Recorded) + Cardinality(others)
                               - Cardinality(Recorded \cap others)
    BY <1>2, FS_Union
  <2>2. IsFiniteSet(Recorded \cap others) /\ Cardinality(Recorded \cap others) \in Nat
    <3>1. IsFiniteSet(Recorded \cap others)
      BY <1>2, FS_Subset
    <3>. QED  BY <3>1, FS_CardinalityType
  <2>3. Cardinality(All) \in Nat
    BY <2>1, FS_CardinalityType
  <2>4. Limit \in Nat
    BY LedgerAssumption
  <2>. HIDE DEF All
  <2>. QED  BY <1>2, <1>3, <2>1, <2>2, <2>3, <2>4
<1>. HIDE DEF All
<1>6. Len(K) \in Nat
  BY <1>1
<1>. DEFINE g == [k \in 1..Len(K) |-> K[k]]
<1>7. g \in [1..Len(K) -> All] /\ \A k, l \in 1..Len(K) : g[k] = g[l] => k = l
  <2>1. \A k, l \in 1..Len(K) : k # l => k < l \/ l < k
    BY <1>6
  <2>2. \A k, l \in 1..Len(K) : k # l => K[k] # K[l]
    BY <1>1, <2>1
  <2>. QED  BY <1>4, <2>2
<1>8. g \in Injection(1..Len(K), All)
  BY <1>7 DEF Injection, IsInjective
<1>9. Cardinality(1..Len(K)) =< Cardinality(All)
  BY <1>5, <1>8, FS_Injection
<1>10. Cardinality(1..Len(K)) = Len(K)
  <2>1. Cardinality(1..Len(K)) = IF 1 > Len(K) THEN 0 ELSE Len(K) - 1 + 1
    BY <1>6, FS_Interval
  <2>. QED  BY <1>6, <2>1
<1>11. Limit \in Nat
  BY LedgerAssumption
<1>. QED  BY <1>5, <1>6, <1>9, <1>10, <1>11 DEF K

LEMMA UsageIsTold ==
  ASSUME IInv, LedgerInv, Books
  PROVE  UsageAddsUp
<1>. DEFINE Recorded == {c \in Calls : at[c] = "recorded"}
            Reported == ToSet(reader.out) \cap Calls
            K == Kept(Lines(file))
<1>. SUFFICES ASSUME \A c \in Calls : at[c] \in {"recorded", "refused"},
                     Cardinality(Recorded) + Cardinality(others) =< Limit,
                     \A i \in DOMAIN Lines(file) :
                       Lines(file)[i] = <<>> \/ Parses(Lines(file)[i]),
                     reader.at = "done", reader.opened = file
              PROVE  Total(charge, Reported) + Total(used, Reported) + Cardinality(checked)
                       = physical
  BY DEF UsageAddsUp
<1>1. file \in ByteSeqs
  BY DEF LedgerInv, ReaderTypes
<1>2. reader.out = K
  <2>1. reader.out = Upto(Limit, K)
    BY DEF LedgerInv, NewestFirst, Newest
  <2>2. Len(K) =< Limit
    BY <1>1, KeptIsShort
  <2>3. Limit \in Nat /\ Len(K) \in Nat
    <3>1. K \in Seq(Records)
      BY <1>1, KeptOfFile
    <3>. HIDE DEF K
    <3>. QED  BY <3>1, LedgerAssumption
  <2>. HIDE DEF K
  <2>4. ~(Len(K) > Limit)
    BY <2>2, <2>3
  <2>. QED  BY <2>1, <2>4 DEF Upto
<1>3. Reported = Recorded
  <2>1. K \in Seq(Records)
    BY <1>1, KeptOfFile
  <2>2. ToSet(reader.out) = {K[k] : k \in 1..Len(K)}
    <3>. HIDE DEF K
    <3>. QED  BY <1>2, <2>1 DEF ToSet
  <2>3. ASSUME NEW c \in Recorded PROVE c \in Reported
    <3>1. \E k \in 1..Len(K) : K[k] = c
      BY <1>1, RecordedIsKept
    <3>. QED  BY <2>2, <3>1
  <2>4. ASSUME NEW c \in Reported PROVE c \in Recorded
    <3>1. PICK k \in 1..Len(K) : c = K[k]
      BY <2>2
    <3>2. K[k] \in others \/ (K[k] \in Calls /\ at[K[k]] \in {"recorded", "unrecorded"})
      BY <1>1, KeptOfFile
    <3>3. c \notin others
      BY ServiceAssumption DEF Books
    <3>. HIDE DEF K
    <3>. QED  BY <3>1, <3>2, <3>3
  <2>. QED  BY <2>3, <2>4
<1>4. /\ IsFiniteSet(Calls) /\ Recorded \in SUBSET Calls /\ IsFiniteSet(Recorded)
      /\ \A c \in Calls : spent[c] \in Int /\ used[c] \in Int
  BY ServiceAssumption, FS_Subset DEF IInv, ServiceTypes
<1>5. \A c \in Recorded : charge[c] = spent[c]
  BY DEF Books, IInv, ServiceTypes, ChargedToBuilder, SpendingInv
<1>6. \A c \in Calls \ Recorded : spent[c] = 0 /\ used[c] = 0
  BY DEF Books
<1>7. physical = SumOver(Calls, spent) + SumOver(Calls, used) + Cardinality(checked)
  BY DEF IInv, SpendingInv
<1>. HIDE DEF Recorded, Reported
<1>8. Total(charge, Recorded) = SumOver(Recorded, spent)
  BY <1>4, <1>5, SumSame, TotalIsSum
<1>9. SumOver(Recorded, spent) = SumOver(Calls, spent)
  BY <1>4, <1>6, SumWithin
<1>10. Total(used, Recorded) = SumOver(Calls, used)
  BY <1>4, <1>6, SumWithin, TotalIsSum
<1>. QED  BY <1>3, <1>7, <1>8, <1>9, <1>10

(* Once every call is over and none of its lines torn, the usage that a     *)
(* reader of the ledger adds up is what was called but for one call per     *)
(* answer checked, whoever else wrote to the file meanwhile and however the *)
(* walk cut it into blocks; at every moment the bills name each call that a *)
(* gate admitted once (bootstrap.py:902, observability.py:164).             *)
THEOREM BillsAgree == Spec => []BillsAddUp
<1>1. IInv /\ LedgerInv /\ Books => BillsAddUp
  BY BilledOnce, UsageIsTold DEF BillsAddUp
<1>. QED  BY <1>1, AllHold, PTL
=============================================================================
