------------------------------ MODULE WebRuns ------------------------------
(***************************************************************************)
(* create_app of webui/app.py: goals are posted, wait under a one-use id,  *)
(* and run while their id's event stream is open.  Waiting and running     *)
(* goals share one limit, so a slot must come back exactly once however    *)
(* the response ends: completed, broken by an exception, or dropped by a   *)
(* client at any point.  The handlers hold state_lock over no await, so    *)
(* each is one step; Starlette drives the response, as the code expects it *)
(* to: it cancels the body when the client leaves and then runs the        *)
(* background task.  One event stream is runtime[r] with response[r], and  *)
(* keeps StreamContract, which EventStream implements.                     *)
(***************************************************************************)
EXTENDS Integers, FiniteSets

CONSTANTS
  Id,    \* what secrets.token_urlsafe may return
  Max    \* max_concurrent_runs

ASSUME MaxAssumption == Max \in Nat \ {0}

VARIABLES
  issued,      \* ids ever handed out
  pending,     \* the table of goals waiting for their stream
  stale,       \* those of pending past their expiry
  active,      \* the counter
  released,    \* streams whose released flag is up
  response,    \* the streaming response of an id, see Response
  background,  \* ids whose background task Starlette owes
  runtime,     \* the runtime of a stream: "idle", "running", "over"
  recorded     \* runs appended to the usage ledger

webVars == <<issued, pending, stale, active, released, response, background, runtime, recorded>>

Response == {
  "none",        \* no stream was opened for this id
  "claimed",     \* the response exists, its generator has not started
  "streaming",   \* the generator waits for the next event
  "sending",     \* it is suspended at a yield: Starlette sends the event
  "sendingLast", \* the same for the last event there will be
  "closing",     \* cancelled while it waited, stopping its runtime
  "abandoned",   \* the client left at a yield: no one resumes the generator
  "finalizing",  \* the interpreter closes what was abandoned
  "closed"}

WebInit ==
  /\ issued = {}
  /\ pending = {}
  /\ stale = {}
  /\ active = 0
  /\ released = {}
  /\ response = [r \in Id |-> "none"]
  /\ background = {}
  /\ runtime = [r \in Id |-> "idle"]
  /\ recorded = {}

Moves(r, from, to) ==
  /\ response[r] \in from
  /\ response' = [response EXCEPT ![r] = to]

(* release, idempotent: the generator's finally and the background task may
   both come to it. *)
Release(r) ==
  IF r \in released
    THEN UNCHANGED <<active, released>>
    ELSE active' = active - 1 /\ released' = released \cup {r}

-----------------------------------------------------------------------------
(* Time passes for a goal that waits. *)
Expire(r) ==
  /\ r \in pending \ stale
  /\ stale' = stale \cup {r}
  /\ UNCHANGED <<issued, pending, active, released, response, background, runtime, recorded>>

(* POST /runs: expired goals go first, then the limit is looked at. *)
Waiting == pending \ stale

(* Mutant: > for >=. *)
HasRoomOffByOne == active + Cardinality(Waiting) <= Max

HasRoom == active + Cardinality(Waiting) < Max
CreateRun(r) ==
  /\ r \notin issued
  /\ HasRoom
  /\ issued' = issued \cup {r}
  /\ pending' = Waiting \cup {r}
  /\ stale' = {}
  /\ UNCHANGED <<active, released, response, background, runtime, recorded>>
RefuseRun ==
  /\ ~HasRoom
  /\ pending' = Waiting
  /\ stale' = {}
  /\ UNCHANGED <<issued, active, released, response, background, runtime, recorded>>

(* GET /runs/{run_id}/events: the id is spent whether it is in time or not. *)
OpenStream(r) ==
  /\ r \in Waiting
  /\ pending' = pending \ {r}
  /\ active' = active + 1
  /\ response' = [response EXCEPT ![r] = "claimed"]
  /\ UNCHANGED <<issued, stale, released, background, runtime, recorded>>
OpenTooLate(r) ==
  /\ r \in stale
  /\ pending' = pending \ {r}
  /\ stale' = stale \ {r}
  /\ UNCHANGED <<issued, active, released, response, background, runtime, recorded>>

-----------------------------------------------------------------------------
(* The generator starts: it has a runtime, or an event that says why not. *)
Start(r) ==
  /\ Moves(r, {"claimed"}, "streaming")
  /\ runtime' = [runtime EXCEPT ![r] = "running"]
  /\ UNCHANGED <<issued, pending, stale, active, released, background, recorded>>
BuildFails(r) ==
  /\ Moves(r, {"claimed"}, "sendingLast")
  /\ recorded' = recorded \cup {r}
  /\ UNCHANGED <<issued, pending, stale, active, released, background, runtime>>

(* aexecute ends: its run is over, or its cancellation has come through. *)
EngineEnds(r) ==
  /\ runtime[r] = "running"
  /\ runtime' = [runtime EXCEPT ![r] = "over"]
  /\ UNCHANGED <<issued, pending, stale, active, released, response, background, recorded>>

Yield(r) ==
  /\ runtime[r] = "running"
  /\ Moves(r, {"streaming"}, "sending")
  /\ UNCHANGED <<issued, pending, stale, active, released, background, runtime, recorded>>

(* The terminal event: only a result goes to the ledger, an error does not. *)
YieldLast(r) ==
  /\ runtime[r] = "over"
  /\ Moves(r, {"streaming"}, "sendingLast")
  /\ recorded' \in {recorded, recorded \cup {r}}
  /\ UNCHANGED <<issued, pending, stale, active, released, background, runtime>>

(* The client takes the event; after the last one the body is complete, its
   finally clause releases, and the background task is owed. *)
Sent(r) ==
  /\ Moves(r, {"sending"}, "streaming")
  /\ UNCHANGED <<issued, pending, stale, active, released, background, runtime, recorded>>
Complete(r) ==
  /\ Moves(r, {"sendingLast"}, "closed")
  /\ Release(r)
  /\ background' = background \cup {r}
  /\ UNCHANGED <<issued, pending, stale, runtime, recorded>>

(* An exception out of the body after the event was recorded: its finally
   clause runs, the background task does not. *)
BodyRaises(r) ==
  /\ runtime[r] = "over"
  /\ Moves(r, {"streaming"}, "closed")
  /\ Release(r)
  /\ recorded' = recorded \cup {r}
  /\ UNCHANGED <<issued, pending, stale, background, runtime>>

-----------------------------------------------------------------------------
(* Mutant: the background task does not wait for the body to unwind. *)
DisconnectReleases(r) ==
  /\ Moves(r, {"streaming"}, "closing")
  /\ background' = background \cup {r}
  /\ UNCHANGED <<issued, pending, stale, active, released, runtime, recorded>>

(* Mutant: release in the generator's finally only. *)
DisconnectForgets(r) ==
  /\ \/ Moves(r, {"claimed"}, "closed")
     \/ Moves(r, {"sending", "sendingLast"}, "abandoned")
  /\ UNCHANGED <<issued, pending, stale, active, released, background, runtime, recorded>>

(* The client leaves.  A generator that waits is cancelled there; one at a
   yield, or not started, is dropped and only the background task is left. *)
DisconnectWaiting(r) ==
  /\ Moves(r, {"streaming"}, "closing")
  /\ UNCHANGED <<issued, pending, stale, active, released, background, runtime, recorded>>
DisconnectSending(r) ==
  /\ \/ Moves(r, {"claimed"}, "closed")
     \/ Moves(r, {"sending", "sendingLast"}, "abandoned")
  /\ background' = background \cup {r}
  /\ UNCHANGED <<issued, pending, stale, active, released, runtime, recorded>>

(* stream_events has gathered its task, and the cancelled body unwinds. *)
Unwound(r) ==
  /\ runtime[r] = "over"
  /\ Moves(r, {"closing"}, "closed")
  /\ Release(r)
  /\ background' = background \cup {r}
  /\ UNCHANGED <<issued, pending, stale, runtime, recorded>>

(* BackgroundTask(release). *)
Background(r) ==
  /\ r \in background
  /\ background' = background \ {r}
  /\ Release(r)
  /\ UNCHANGED <<issued, pending, stale, response, runtime, recorded>>

(* The interpreter gets round to an abandoned generator: its finally runs,
   and stream_events, if it was begun, cancels its task and waits for it. *)
Finalize(r) ==
  /\ Moves(r, {"abandoned"}, IF runtime[r] = "idle" THEN "closed" ELSE "finalizing")
  /\ Release(r)
  /\ UNCHANGED <<issued, pending, stale, background, runtime, recorded>>
Finalized(r) ==
  /\ runtime[r] = "over"
  /\ Moves(r, {"finalizing"}, "closed")
  /\ UNCHANGED <<issued, pending, stale, active, released, background, runtime, recorded>>

ServerStep(r) ==
  \/ Start(r) \/ BuildFails(r) \/ YieldLast(r) \/ BodyRaises(r)
  \/ Unwound(r) \/ Finalized(r)

WebNext ==
  \/ RefuseRun
  \/ \E r \in Id :
       \/ Expire(r) \/ CreateRun(r) \/ OpenStream(r) \/ OpenTooLate(r)
       \/ ServerStep(r) \/ EngineEnds(r) \/ Yield(r)
       \/ Sent(r) \/ Complete(r) \/ DisconnectWaiting(r) \/ DisconnectSending(r)
       \/ Background(r) \/ Finalize(r)

(* The event loop runs what is ready, and a runtime ends by its deadlines.
   Clients owe nothing, and neither does the garbage collector. *)
WebFairness ==
  \A r \in Id :
    /\ WF_webVars(ServerStep(r))
    /\ WF_webVars(EngineEnds(r))
    /\ WF_webVars(Background(r))

WebSpec == WebInit /\ [][WebNext]_webVars
WebFairSpec == WebSpec /\ WebFairness

-----------------------------------------------------------------------------
Opened == {r \in Id : response[r] # "none"}
Running == {r \in Id : runtime[r] = "running"}

WebTypeOK ==
  /\ issued \subseteq Id /\ IsFiniteSet(issued)
  /\ pending \subseteq issued
  /\ stale \subseteq pending
  /\ active \in Nat
  /\ released \subseteq Opened
  /\ response \in [Id -> Response]
  /\ Opened \subseteq issued \ pending
  /\ background \subseteq Opened
  /\ runtime \in [Id -> {"idle", "running", "over"}]
  /\ recorded \subseteq Opened

(* The counter is the number of opened streams that have not given their slot
   back, so a slot is neither lost nor returned twice on any way a response
   can end. *)
SlotsCounted == active = Cardinality(Opened \ released)

(* Waiting and open streams together stay within max_concurrent_runs. *)
LimitHolds == active + Cardinality(pending) <= Max

(* The admission control of create_run and stream, whole. *)
LimitIsExact == SlotsCounted /\ LimitHolds

(* A run whose client is still there holds its slot: release never comes
   early on the ways through completion, exception and cancellation. *)
RunHoldsSlot ==
  \A r \in Running : response[r] \notin {"abandoned", "finalizing"} => r \notin released

(* An id opens at most one stream. *)
IdsSpentOnce ==
  [][\A r \in Id : response'[r] = "claimed" => response[r] \in {"none", "claimed"}]_webVars

(* A slot comes back from every stream that is not stuck for ever on a client
   that neither reads nor leaves, finalizer or not.  The comment at
   webui/app.py:1231 tells how two page reloads once wedged the interface. *)
SlotsComeBack ==
  \A r \in Id :
    []<>(response[r] \notin {"sending", "sendingLast"}) =>
      (response[r] = "claimed" ~> r \in released)

(* The event stream of a response, as StreamContract sees it.  The tasks that
   may still work behind a stream that was left are nothing the application
   sees or waits for: they hold no slot, and nobody stands in for them here. *)
RunOf(r) ==
  IF runtime[r] = "running" /\ response[r] \in {"closing", "finalizing"}
    THEN "stopping" ELSE runtime[r]
ReaderOf(r) ==
  IF response[r] \in {"none", "claimed"} THEN "new"
  ELSE IF response[r] \in {"closing", "finalizing"} THEN "leaving"
  ELSE IF response[r] = "closed" \/ runtime[r] = "idle" THEN "gone"
  ELSE "open"
StreamOf(r) == INSTANCE StreamContract WITH
  Task <- {}, run <- RunOf(r), reader <- ReaderOf(r), working <- {}

(* What the application assumes of an event stream is what one gives. *)
StreamsKeepContract ==
  /\ \A r \in Id : StreamOf(r)!SInit
  /\ [][\A r \in Id : StreamOf(r)!SNext \/ UNCHANGED StreamOf(r)!streamVars]_webVars

=============================================================================
