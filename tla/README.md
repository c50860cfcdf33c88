# Volante, specified

Volante takes one goal, has a planner model split it into a small DAG of tasks,
runs the tasks in parallel waves over several model providers, and has a
synthesizer put the results together. This directory holds TLA+ models of that
program, the TLC runs that check them and the TLAPS proofs about them. Paths
below are relative to the repository (`src/volante/...`).

## The system

| component | state | operations | talks to |
|---|---|---|---|
| `Runtime` (`runtime.py`) | `_used`, `_sub_cap`, `_sub_calls`, `_task_errors`, `_routing_decisions`, the wave, the fan-out semaphore | `aexecute`: validate, plan, waves of `_run_task`, synthesize, verify, finalize | everything below; awaits in each |
| `Blackboard` | an append-only log of entries | `append`, `current_artifacts` | written by every task coroutine |
| `Supervisor` | used flag, limits, gate | `plan`: up to three calls, each a correction of the last; `validate_plan` | a provider, through the gate |
| `Synthesizer` / `ArtifactAssembler` | limits, gate | an answer and one repair / no call at all | a provider, through the gate |
| `Worker`, `AgenticWorker` | gate | one call / a model-tool loop with retries, a stall limit, required tools | a provider; tools |
| `Projector` | - | an artifact-bounded prompt for one model | reads the blackboard |
| `Router` | inventory, profiles, objective | `route_decision`: eligible models in order | registry |
| `direct` | the walk over the candidates, its counts | one answer without a plan | providers |
| HTTP providers | a stream and its last stop reason | `complete`, `stream`, classifying every exception | the network |
| CLI-agent providers | a child process per call | spawn, feed, read, time out, kill, reap | the operating system |
| sandboxes, tools | a child process or container per run | run, limit, terminate; fetch a URL | the operating system, the network |
| cost meter (`cost.py`) | tokens per model, and those a provider named a price for | `add`, `merge`, two ledgers, what is unpriced | filled by every provider call |
| answer verification (`verify.py`) | - | derive assertions, run the answer against them, report | a provider, a sandbox |
| registry, inventory file | models, quality profiles | load overrides and profiles, or refuse them | read by bootstrap |
| bootstrap | the environment, a preflight flag | build providers, inventory, planner; build a `Runtime` per goal | providers, the Docker daemon |
| calibration (`calibrate.py`) | - | profiles, confidences and tiers out of measured runs | writes the profiles file bootstrap reads |
| evaluation harness (`eval/`) | rounds of runs, a scorer's process group | measure models, compare three ways of answering, grade | providers, `Runtime`, calibration |
| usage ledger | a JSON-lines file | append, read the tail | the file system |
| Web UI | pending runs, active count, an event queue per run | create, stream, release | `Runtime`, browser |
| MCP server | factory cache and lock | `run_goal` | `Runtime`, ledger |
| command line | - | build, answer, verify, record, print | `direct`, ledger |

Everything runs on one asyncio event loop, so the hard behaviours are
interleavings at awaits: tasks of a wave share the subscription counter, the
semaphore, the blackboard and the audit trail; any of them may fail, retry,
move to another model or be cancelled while its siblings are at any other
place. Providers fail in several classes, and which class leads to a retry, to
another model or to a failed run is decided in nested loops at three sites. Before and after the event loop stand
programs that hand each other files and settings: a campaign measures models,
the calibrator makes profiles of that, a start reads them with whatever the
environment says. There the hard part is not interleaving but the sequence:
what one of them writes, drops or renames decides what another believes later.
The hazards, each with its line, are listed in `PROJECT.json`.

## Modules

### `Runtime.tla`: the orchestration core

Variables carry the names of the attributes they stand for (`used`, `subCap`,
`subCalls`), `phase` and `pc[t]` are the places of `aexecute` and of the
coroutine of task `t`, `log[t]` is the blackboard restricted to `t`, `trail[t]`
the `fallback_events` of its routing decision and `slots` the free permits of
the semaphore. `sent` and `ungated` are history variables: the subscription
calls made through the gate `_before_model_call` and past it.

| actions | code |
|---|---|
| `Execute`, `RejectGoal`, `AcceptGoal` | `aexecute` up to planning. Execute reads the environment; its two refusals change nothing and are its guard |
| `PhaseCall`, `PhaseRefused`, `PhaseCorrects`, `PhaseFails`, `PlanReady`, `AnswerReady` | `_plan_with_fallback`, `_synthesize_with_fallback` and the components they drive |
| `VerifyCall`, `VerifyDone` | `_verify_final` |
| `StartWave`, `EndSchedule`, `Gather` | the `while len(done) < len(plan)` loop |
| `RouteTask`, `RefuseTask`, `Acquire` | `_run_task` up to `async with sem` |
| `Dispatch`, `Refused`, `Succeed`, `AgentTurn`, `Unavailable`, `BackOff`, `Wake`, `GiveUpRetrying`, `BlankAnswer`, `SemanticFailure`, `TaskCrashes` | the candidate and retry loops of `_run_task_body` and `_run_agentic` |
| `CancelWave`, `Unwind`, `EndCancelled`, `CancelPhase` | cancellation of `aexecute` at its awaits; `gather` ends at the first child that ends cancelled |

A step is at most the code between two awaits. The check and the increment of
`_before_model_call` are one step because no await separates them. Some
synchronous stretches are cut in two, which only adds interleavings.

`gather` cancels every child and raises at the first that ends cancelled.
Children outside their slot end at once. One inside unwinds, or it loses its
cancellation (`CanLose`): `asyncio.wait_for` of Python 3.11, the oldest version
the project supports, hands on a provider call that has just completed
(`runtime.py:748`, `926`), and the clean-up of a sandboxed tool may swallow the
cancellation (`sandbox.py:188`). Such a task goes on: it writes its artifact or its
failure, backs off, moves to its next candidate and calls. If a sibling has
ended `aexecute` meanwhile, the gate is gone from the workers
(`runtime.py:1315`), so that what an agent already at work asks for then is
neither refused nor counted (`PastTheGate`, `UngatedCall`); the loops of the
runtime itself still ask it. A cancellation that planning, synthesis or the
verification loses is no step: the run goes on as if it had not come.

Abstracted: a model is an id and whether a subscription pays for it; a plan is
its dependency map; a router's answer is any ranking of `Rankings`; a provider
call ends in any of the ways its error classes allow; time is absent, so a
timeout may strike any call. The task ids a plan uses are assumed to differ
from the names the runtime gives its own phases (`__planning__`, ...).

### `RunContract.tla`: what a Runtime promises

One goal per object, an allowance fixed at the start and never exceeded, each
task delivered once and after its dependencies, success only with all of them.
A result comes when no task is at work and nothing follows it; a cancelled run
may leave tasks at work (`working`, `MayWork`), but none begins any more.
`RuntimeProps` instantiates it (`Contract`), and `KeepsContract` says that
`Runtime` implements it. What a task left behind may still write, and that it
alone does, is `QuietAfterOutcome`.

### `RuntimeProps.tla`, `MCRuntime.tla`

The properties, and the small instances TLC explores.

### `PlanGraph.tla`, `MCPlanGraph.tla`: the plan check

`validate_plan` of `supervisor.py`: the schema checks in their order
(`Refusal`), then Kahn's algorithm, one task popped a step (`Resolve`). A
dependency counts as often as it is listed, on the way in (`InitialDegree`) and
on the way out (`Lowered`). `AcceptedIsSchedulable` is the `Acyclic` that
`Runtime.tla` assumes of its plans. `validate_task`, the schema of one task, is
left out.

### `AgentContract.tla`: what a run of an agentic worker promises

A bounded number of gated calls, then one ending of a class that tells
`Runtime` whether to accept the answer, to move on or to fail the task: what
the agentic actions of `Runtime.tla` take each candidate for.

### `AgentLoop.tla`, `Projection.tla`, `MCAgentLoop.tla`: the agentic worker

| state | code |
|---|---|
| `required`, `declared` | `required_tools`, and whether the caller gave any |
| `iter`, `attempt` | the loops of `run` and of `_call_with_retry` |
| `chars`, `exchanges` | `messages`: its estimated size, and its turns of calls and results |
| `asked`, `answers` | the batch of the turn at work, `tool_uses` and `raw_results` |
| `usedTools`, `satisfied`, `stalls` | `used_tool_names`, `satisfied_tool_names`, `stalls` |
| `calls` | history: calls the gate let through |

| actions | code |
|---|---|
| `StartTurn`, `LoopStops` | the head of the loop, with its guard on the budget, and its end |
| `GateRefuses`, `Call`, `BackOff`, `Wake`, `CallFails` | `_call_with_retry` |
| `TimedOut` | the `asyncio.wait_for` of `Runtime._run_agentic` around the run |
| `Answer` | a reply without tools: complete, with its required tools, not blank |
| `AskTools`, `RefuseCall`, `RunTool`, `ToolRaises` | the batch, one call after the other |
| `CloseTurn` | results clipped and appended, the stall counted, the warning or the end |

`KeptOfAdmitted` and its like are the mutants of the runs, next to what they
change. A text is its length, a result whether it is an error and its length.
`is_tool_error` is that flag; what a sandboxed tool does is in `SandboxCall`. `Projection`
is the budget arithmetic of `projector.py`: the prompts of `MCAgentLoop` are
what it makes of short and long goals, tasks and artifacts.

### `StreamContract.tla`: what an event stream promises

`aexecute` runs at most once, for an iterator somebody began, and the iterator
is gone only when `aexecute` has ended. One read to its end leaves no task at
work; one that was left may leave tasks of the wave it cut off (`working`), and
none starts again. `EventStream` implements it, `WebRuns` relies on it for its
slots, which those tasks do not hold.

### `EventStream.tla`: the bridge of `webui/runner.py`

| state | code |
|---|---|
| `queue`, `announced` | the `asyncio.Queue` and the flags of `stage` |
| `producer`, `cancel` | where the task `_run` is, and what became of `task.cancel()` |
| `consumer`, `received` | where the generator is, and what the client was given |
| `engine`, `todo`, `alive`, `failed`, `verdict`, `made` | `Runtime.aexecute` as its callbacks see it |

`OnText` and `OnWorker` are the callbacks, which cannot wait: on a full queue
they raise, and the engine makes that the failure of the phase or of the task
(`Offer`, `Fits`). `Report` and `End` are the awaited puts of the terminal
event and of the sentinel. `Leave`, `Cancelled`, `Left` are the `finally` of
the generator. `WaveCancelled` hands the cancellation to the tasks of a wave,
`TaskCancelled` ends one that unwinds; at the first, `gather` raises and
`aexecute` ends (`Cancelled`), whoever is left. With `LosesCancel` a task may
lose its cancellation, as in `Runtime`, and go on (`TaskRuns`), its callbacks
included; `PhaseLosesCancel` is the same of a phase. The model
of the engine is coarser than `Runtime.tla` (which tasks make a wave is free,
retries are silent) and finer in one point, the deltas it streams.

### `WebRuns.tla`: the runs of `webui/app.py`

| actions | code |
|---|---|
| `Expire`, `CreateRun`, `RefuseRun` | the clock and `POST /runs` |
| `OpenStream`, `OpenTooLate` | `GET /runs/{run_id}/events` up to the response |
| `Start`, `BuildFails`, `Yield`, `YieldLast`, `Sent`, `Complete`, `BodyRaises` | `gen`, driven by Starlette |
| `DisconnectWaiting`, `Unwound` | a client that leaves while the generator waits |
| `DisconnectSending`, `Background`, `Finalize`, `Finalized` | a client that leaves at a yield or before the start: the background task, and what the interpreter does with the generator, if it ever comes to it |

`state_lock` is held over no await, so the code under it is one step. How
Starlette treats a disconnect (cancel the body, then run the background task;
no background task after an exception) and when a generator is finalized is not
code of the repository: it is modelled as the comment at
`webui/app.py:1231-1241` describes it.

### `PhaseContract.tla`, `Phases.tla`, `MCPhases.tla`: planning and synthesis

`Runtime.tla` knows of a phase only that it asks its candidates in order, each
a bounded number of times, under the subscription allowance. `PhaseContract`
is that knowledge, and `Phases` the detailed phase that implements it.

| state | code |
|---|---|
| `cand`, `began`, `limit` | the candidate loops of `_plan_with_fallback`, `_synthesize_with_fallback`, and the share of `planning_timeout` or `synthesis_timeout` given to one |
| `replies` | the corrections of `Supervisor.plan`, the answer and repair of `Synthesizer.synthesize` |
| `spent`, `trace` | `_sub_calls`, `fallback_events` |
| `now`, `late` | time in ticks, and how much of it went into cancelled calls letting go |

`Choose`, `NoTimeLeft`, `GoalTooLong` and `Assemble` are what happens before a
call, `Ask` and `GateRefuses` the gate, `Replied`, `ProviderFails` and
`TimesOut` what a call may come to, `LetsGo` and `LateTick` a call that takes
its time to be cancelled: `asyncio.wait_for` waits for it, and nothing in the
code bounds that; `Grace` does here. Providers need never answer.

A reply is whether it parses, was cut, was refused or is blank, which is what
`_phase_fallback_reason` can tell apart. Which error of several the phase
reports (`GivesUp`: the last of the plan's attempts, the first of the
synthesizer's) is kept. A complete first answer of the synthesizer is lost when
its repair fails with a provider error (`synthesizer.py:305-307`); it is so in
the model too.

### `ChildCall.tla`, `CliCall.tla`, `SandboxCall.tla`, `FetchCall.tla`, `ChildRuns.tla`: calls out

`ChildCall` holds what any such call shares: the child, its pipe and what the
operating system does with them. A child writes, exits with any status, is
killed with its group, or has a descendant that left the group and keeps the
pipe open. `CliCall` is `CliAgentProvider.complete` and `stream` over
`subprocess_cli_runner`, with the place names of its `await`s:

    running -> settling -> letting -> (reaping -> releasing) -> idle

`SandboxCall` is `Sandbox.run`, `DockerSandbox.run` and
`_collect_bounded_output`:

    running -> (killing) -> terminating -> again -> collecting -> idle

`FetchCall` is `fetch_url`, which has no child but the same deadlines, limits
and cancellations:

    resolving -> connecting -> reading -> idle

A host resolves to addresses, each of which may be private on the outside or
hide a private one inside (`Embedded`); all of them are looked at before any is
connected to, and only a refused connection leads to the next one.

`ChildRuns` puts a task with such calls beside a sibling in a wave, with
`asyncio.gather`, a cancellation of the run at any point (`CancelRun`,
`CancelCall`, `CancelCallAgain`) and the removal of the run's workspace. Two
exceptions in the properties are real: a `docker kill` that comes before the
daemon has made the container leaves the container running, and
`codex.complete` accepts an answer around a hole of lost lines
(`codex.py:191`). A cancellation that meets an overflowed or timed-out sandbox
run is swallowed by it (`SandboxAbandons`), while
`tests/tools/test_sandbox.py:63` tests the cancellation of a running one only.

### `HttpCall.tla`, `Routing.tla`, `CostMeter.tla`, `Verification.tla`, `DirectRun.tla`: the direct path

`Routing` is the router as operators over a set of model records: `Eligible`,
the score with its components and their reweighting (`Score`), the four
objectives (`Ranked`), in integer arithmetic of ten-thousandths with the code's
rounding. `Models` is what a configured model may be, `Distinct` that a registry
holds an id once, as `Registry` enforces; `ByKey` is Python's `sorted`: who has
i - 1 smaller keys stands at place i. `HttpCall` is one call of an HTTP provider, stream or not: pieces,
stop reasons, a stream that ends without one, and `Flags`, the classification
of every exception by status, wording and origin. `CostMeter` is `cost.py`: per
model the tokens of all calls and those of the calls whose provider named its
own price, so that only the rest is priced at the model's rates; the merge of
the preflight's meter into the run's; the ledger of money and the ledger of plan
credit; the mark of an estimate and the list of the unpriced. `Verification` is
`verify.py`: where a code block may close and parse, how the sandboxed program's
marker line becomes a `CheckReport`, and how a report reads. `DirectRun` is the
default path of the command line over these:

| actions | code |
|---|---|
| `ProbeCalls`, `BuildDone`, `BuildFails` | `_build` of `cli.py` with the live probe of a subscription planner |
| `Routes`, `Calls`, `HttpStep`, `CliStep` | `answer_directly` up to an answer or an exception |
| `ProviderFailed`, `Escaped`, `Incomplete`, `Blank`, `Answered`, `Exhausted` | its except clauses and its ends |
| `NotDerived`, `Derived` | `_verify_final`: the derivation fails or derives nothing, or its assertions are run against the answer |
| `Records`, `Prints`, `ReaderCloses`, `Interrupted` | `main`: ledger, output, exit status, a closed pipe, Ctrl-C at any of these |

A Ctrl-C comes while a runtime is built, during a call or the detector, or
between the result and the end of the process: `asyncio.run` may drop a result
it has, a finished run may go unrecorded, a recorded one exit with 130
(`cli.py:647` covers `record_run` and every `print`). Output that stands in the
buffer when the reader is gone makes the interpreter's last flush fail, and the
exit status 120 (`Unflushed`, `Exits`), unless standard output was pointed
elsewhere first (`HandlesBrokenPipe`).

Met while modelling and kept as they are: `IncompleteOutputError`, and the
`IndexError` of `openai_compat` on an empty list of choices, escape the walk
without a `RunResult`, a record or another candidate; `call_timeout` is not
used on this path; `subscription_calls` of its result omits the preflight; the
components' reweighting, rounded to four digits, may turn the order of two
models less than 0.01 points apart (`router.py:400-401`), which is why
`ReweightingIsFair` grants that much.

`Planner` is the model of `_planner_model_id`; what a call uses is free among a few
usages, estimated or not, priced by the provider or not (`Uses`), and `spent` is
a history of what each call should cost, beside the meter that adds it up.
`Summary` is what the last lines printed say of models and plan. A model whose
input is free and whose output is not, and which answered nothing, was used for
nothing and is not called unpriced (`_unpriced_models` asks for both rates to be
zero): `BillIsTrue` grants that.

### `Ledger.tla`, `McpService.tla`, `MCMcpService.tla`: the service and its books

`Ledger` is the file as bytes: `record_run` is one append, whole or torn by a
full disk, and `read_runs` walks it backwards a block at a time
(`ReaderTakesBlock`, with its carry), by the lines in it (`Pieces`, `Kept`). A line after a torn one is glued to it
and lost, which `NewestFirst` allows for by reading what the file says.
`McpService` is `run_goal` of `volante_mcp/server.py` over
`make_verified_runtime_factory`: the cache, the lock and its queue, the second
look under it, the live probe and whom it is charged to (`MakesRuntime`), the
run, its record, `reset_factory_cache`, and a cancellation anywhere. A reset
during a build lets the build cache what was made of the old credentials; calls
of a probe that failed or was cancelled stand on no bill. Neither does the one
by which `verify_answer` has the planner derive checks (`Verifies`; it passes no
gate, `runtime.py:1106`): `checked` remembers whose answers were checked, and
the books are stated with that difference.

### `Calibration.tla`, `Inventory.tla`, `Setup.tla`: how a start comes by its models

`Calibration` is `calibrate.py` as operators: which measurements are taken, the
score of a task type, the confidence that counts goals and not repeats, the
reliability claimed only where a run failed, and tiers that only a gap tells
apart. `Inventory` is `inventory.py` with the checks of `registry.py`: what the
strict loaders of overrides and profiles refuse, which profiles a registry
drops and when it refuses them all. `Setup` is `bootstrap.py` with what its
callers put around it; a stage is named for what is read next:

    anthropic -> compat -> moonshot -> ollama -> claude -> codex
              -> inventory -> planner -> factory -> ready

| actions | code |
|---|---|
| `FamilyReads` (`ReadsListed`, `ReadsSlots`, `ReadsPlan`) | `build_providers_from_env`, `_openai_compat_slots`, the plan-backed models |
| `InventoryReads` | the two files, overrides before profiles, and the `Registry` made of them |
| `PicksPlanner` | `--provider`, `--model`, `_planner_model_id`, the cap and the live gate |
| `MakesFactory` | `make_runtime_factory`: iterations, sandbox, tool names, phase models, notices |
| `DockerChanges`, `MakesTools` | the daemon at any time, and the tools of a run |

Any step may be a refusal (`Refuses`), which ends the start. Names and ids are
numbers: the hundreds tell the family that makes the default id, so that ids can
collide as they can in the environment. A user's own id may look like a local
model's (`ollama/...`), and the notice on prices goes by that.

### `Scorer.tla`, `Bench.tla`: the evaluation programs

`Scorer` is `_score_reference`: a runner in a process group of its own, a server
it starts for the solution, a solution that may fork, leave the group, hang or
die, and a grade that counts only with the tagged line. `Bench` has the two
programs, both of which let `Scorer` grade code:

| actions | code |
|---|---|
| `AsksModel`, `GradesProse`, `SendsToScorer`, `TakesGrade` | `calibrate_models.measure`, one run after the other |
| `WritesMeasurements`, `Calibrates` | the measurements file and `calibrate_file` |
| `ArmRuns`, `GradesArm`, `TakesArmGrade`, `EndsRound` | a round of `run_suite`: baseline, orchestration and agentic arm |
| `BaselineRaises` | a `ProviderError` of the baseline, which nobody catches |
| `Reports` | the winner of each goal, the verdict, the interval and the claim |

### `Evidence.tla`, `MCEvidence.tla`: from the runs to the registry

`Evidence` puts a campaign or a suite before a start: the start finds the profiles file
the campaign has left, with a wire that was measured in its slot, or one from
elsewhere with any environment of the table.

### Proof modules

| module | proves about |
|---|---|
| `RuntimeProofs` | `Runtime`, `RuntimeProps`, `RunContract` |
| `PlanningProofs` | `PlanGraph`, then `Phases` with the safety half of `PhaseContract` |
| `AgentProofs` | `AgentLoop` with `AgentContract`, then `ChildRuns` and the four kinds of call under it |
| `WebProofs` | `EventStream` with `StreamContract`, then `WebRuns` |
| `McpServiceProofs` | `McpService` with `Ledger` |
| `DirectRunProofs` | `DirectRun` with `CostMeter`, `HttpCall` and `Verification` |
| `EvidenceProofs` | `Evidence`: the start (`Setup`, `Inventory`), the scorer, the suites and the campaigns of `Bench`, the profiles of `Calibration` |
| `DataTheorems` | data alone, for the others: `Sums`, `Routing`, induction over a set |

Each holds its inductive invariants, their preservation and the theorems.

## Runs

| run | checks | shows |
|---|---|---|
| `runtime` | `SlotsConserved`, `DependenciesDelivered`, `AuditTrail`, `FailsOnlyWhenExhausted`, `OutcomeAccounts`, `QuietAfterOutcome`, `EveryRunEnds`, `KeepsContract` | one goal over three tasks (three DAG shapes), two permits, a subscription and a card model, one retry, allowances 1 and 3 of which the preflight took 1, cancelled at any await, with any set of the tasks that can lose a cancellation losing it |
| `runtime_blank` | `BlankAnswerReroutes`, violated | a blank agentic answer fails the run with a candidate left, which `CHANGELOG.md` says it does not |
| `plan_graph` | `VerdictIsExact` | every plan of up to three tasks over three names, with dependency lists of up to two entries, is accepted exactly when the wave loop can finish it |
| `phases` | `PhaseIsFair`, `KeepsPhaseContract` | a candidate that hangs leaves the others their share, the best answer is taken, the outcome names the right rejection, and the phase is the one `Runtime` is modelled with |
| `agent_loop` | `AnswerHasEvidence`, `NoCallUnanswered`, `StuckIsStopped`, `ToolsNeverOverflow`, `KeepsAgentContract` | an agentic task ends in bounds, with evidence for what it returns and a transcript a provider accepts |
| `children` | `NoOrphans`, `OutcomesAreTrue`, `QuietWorkspace`, `CallsEnd` | no child outlives its call, no answer, report or fetch mixes the endings of a race, no directory goes while its child lives, and nobody on the other side holds a call for ever |
| `event_stream` | `EndingIsTrue`, `BoundariesTrue`, `LeavingEnds`, `KeepsStreamContract` | what the client is given is complete and in order, and nobody waits for ever |
| `web_runs` | `LimitIsExact`, `RunHoldsSlot`, `SlotsComeBack` | the slots of the web interface are conserved however a response ends |
| `service` | `NewestFirst`, `ProbesShared`, `BillsAddUp`, `CallsEnd` | concurrent tool calls share one probe and pay for it once, the books miss one call per checked answer and no other, and a reader of the ledger finds the newest records whatever the blocks |
| `direct` | `RankingIsFair`, `WalkIsComplete`, `AnswerIsTrue` | the default path of the command line, over every inventory of up to three of seven models and every objective: the order, no candidate left untried, and an answer whose text, bill, checks, summary, record and exit status are what happened, Ctrl-C and a closed pipe included |
| `direct_pipe` | `PipeIsNoFailure`, violated | a reader that closes the pipe is taken for a provider that failed, and the process does not exit cleanly |
| `evidence` | `EveryModelServed`, `PhasesStayDeterministic`, `ToolsAreReal`, `EvidenceIsTrue`, `NoScorerSurvives`, `VerdictIsEarned` | a start serves what it was asked for or refuses, profiles say what the runs showed, tools and notices fit the machine, and a comparison claims no more than its goals show |

Bounds of the core. Three tasks give a wave wider than the fan-out (`Wide`), a join whose
parents finish in either order (`Fork`) and a chain (`Ladder`); a plan is data,
so more tasks add only more of the same interleavings. Two candidates and one
retry reach the first, the last and the only candidate, with and without a
retry left. An allowance of 1 is used up by the preflight, an allowance of 3
runs out in planning, in a wave or not at all. `MaxTurns` bounds the extra
calls of one agentic candidate, `PlanCalls` and `SynthesisCalls` those of a
phase component; `PlanCalls` is 2 instead of 3.

Bounds of the others. Three tasks with two dependencies each contain a
self-dependency, a dependency listed twice, one nobody has, cycles of two and
three, and every acyclic shape of three; `MaxTasks` of 3 is passed by a plan of
four. In a phase, six ticks over three candidates give whole shares of two, a
grace of three is longer than a share, and an allowance of three ends in the
first, the second or no candidate. Four turns let a model repeat itself
into a stop (three exchanges with `MaxNudges` 1 instead of 2), or repeat, move
on and repeat again. A batch of three meets the limit of two (32 in the code). The
24 characters of a window of 12 tokens are filled by a long goal, by a long
task, by artifacts, by a failing tool, or by none of them. A child writes up to
three lines into a pipe of one with two retained: it is blocked on the pipe,
under the limit, at it and over it; the second call finds what the first left.
A queue of two instead of 256 is full after one delta with its boundary,
so every put meets room, one place and none; five deltas (`MaxDeltas`) fill it
twice. Two tasks give a wave in which one is cancelled and one goes on. Three
ids over a limit of two let a goal wait, be refused and expire while two run.
Two tool calls, for one objective or two, meet on a cold and on a warm cache,
beside one run of another surface. Records of two bytes and a line feed, read
in blocks of three, put every boundary everywhere; a line longer than
`MaxLine` stops the walk, so a block must not exceed it (`LedgerAssumption`;
64 KiB and 1 MiB in the code). The seven models of the direct path are two
with the same merits on different bills, a cheap local one that has no room for
the long goal, one that may not write code, and two whose scores nearly tie. An
answer streams no piece or one (`MaxPieces`), so a stream breaks before it, after
it and at its end; the pipe closes before or after it. With
`--verify` an inventory has at most two of them (`MaxVerified`), and grounding
takes two assertions instead of three (`MinGroundedChecks`). A host has up to
two addresses and a page is cut at its second piece (`Limit`).

The evidence is of seven goals: two of code, so that breadth and repeats differ,
one of each other type, and two projects; two wires, scores 0 and 100, rubrics
of two checks, five runs a campaign (`MaxRuns`), which are enough for two types,
two wires, repeats and a run that came to nothing. A suite has up to two
rounds, the least that can show or fail to show a difference. The environments
are a table with each way of getting a setting wrong, combined until there are
two models (`MaxModels`), which is enough for two families to collide, for a
default and a fallback, and for a plan-backed model beside another.

Deadlock is checked in the runs of `Runtime`, `Phases` and `ChildRuns`, and not
in the others, where the program may stop: an agentic task that is over, a plan
with its verdict, a stream that has ended, a server nobody opens a goal on, a start
that is ready or refused or a process that has exited takes no more steps. What should not get stuck there
has a property (`LeavingEnds`, `SlotsComeBack`, `CallsEnd`).

Fairness. `FairSpec` of `Runtime` assumes only that the event loop makes some
step of `Progress` while one is possible, and every provider call
ends because each is under `asyncio.wait_for`. No single task is assumed to be
favoured; a goal need not come, nobody need cancel. The bounded retries,
candidates and turns are what makes runs end. `Phases` assumes the same of
`Engine`, which contains the deadline but no answer. `ChildRuns` assumes the
timers and the waits of a call (`Waits`, a fetch's deadline included) and the
ends of the tasks; children, hosts and whoever holds a pipe owe nothing, which is the point of its `CallsEnd`.
`EventStream` assumes that the
event loop runs the producer and the generator when each can go on, and so that
the engine's awaits end, which is what its deadlines are for; the client owes
neither a read nor a departure. `WebRuns` assumes the server's steps, the end of
each engine and the background task Starlette owes; no fairness is assumed of
clients or of the garbage collector, which is the point of `SlotsComeBack`.
`McpService` assumes that each call proceeds when it can (`Proceeds`): the lock
is handed over in order, and a probe and a run end by their deadlines.
`DirectRun` and `Evidence` state no fairness; their properties are safety.

## Proofs

The core first, for arbitrary finite task sets, plans, rankings, fan-outs, retry limits and
allowances, under the named assumptions of `Runtime.tla` (plans are acyclic and
closed, rankings are non-empty, task ids differ from the runtime's own names).

`IInv` strengthens the invariants with what each place knows: `PhaseInv` (what
`aexecute` knows of plan, waves and outcome), `TasksInv` (a task is ok exactly
when its artifact is on the blackboard, a gathered task is ok with its
dependencies gathered, a wave's dependencies are gathered, nobody is at work
when there is a result, nobody waits for a slot once a wave is cancelled, only a
cancelled run unwinds), `CandidatesInv` (a working task
has a candidate, one that backs off has a retry) and `CallsInv`.
`DependenciesDelivered`, for example, is not inductive alone: that a wave's
dependencies were gathered says nothing of the blackboard without the link from
`done` to `ok` to the artifact. Steps are grouped first (`StepShape`: aexecute
moves, one task moves, or the wave is cancelled) so that each part of the
invariant is proved over three kinds of move.

From it follow the invariants of the run `runtime`, two action properties
(`AllowanceFixed`, and `QuietAfterOutcome` with what a cancelled run leaves
behind), and `ContractKept`, the refinement of `RunContract`.
`NoSchedulerDeadlock`
takes the set of tasks not yet done as the
set that acyclicity needs; `OutcomeTrue` needs the least position of a finite
set, got from the well-foundedness of strict inclusion on finite sets.
`TrailIsTrue` has an invariant of its own, `AuditInv`: as long as a task walks
down its ranking its trail is the ranking up to the current candidate and its
log has one reroute for each model left behind; whatever ends the task is the
one entry after them, and the artifact names the candidate that stood there.

`PlanningProofs`, the graph, for plans of any size. A task is `Settled` when it has been
popped: its indegree is zero and it is not in `ready`; the state holds no other
trace of it. `DegreesCount` says what an indegree is, the number of listed
occurrences of tasks not settled, and `ReadyFree` that `ready` holds only tasks
without any. `PoppedFirst` says what the order of popping has shown: every set
that meets the settled tasks has a member with no dependency inside the set.
When all are settled that is acyclicity; when `ready` runs dry before, the
unsettled tasks are themselves the set that refutes it.

`PlanningProofs`, the phases, for any number of candidates, any deadline, grace
and allowance. What is inductive is not that a candidate has its share but that
the time left, with what late calls took, makes up the shares of everybody still
to come (`TimeInv`); an equal part of that is then at least an equal part of the
whole (`EqualShares`). `RepliesInv` says which replies lie behind a candidate
still being asked. `PhaseSpentFairly` follows, and `PhaseAsContract`, the safety
half of `PhaseContract`. The proof corrected the bound handed to the contract: a
synthesis candidate may be called twice even where planning allows one attempt
(`MaxAsks`).

`AgentProofs`, for any registry, any replies and results and any limits.
`CallsInv` bounds the calls by the turns and attempts so far, which is not
visible in the bound itself; `StallsInv` says that `stalls` is the length of the
run of equal exchanges at the end of the transcript; `EvidenceInv` that what is
booked as used or satisfied stands in the transcript, or in the batch not yet
closed. `AnswersHaveEvidence`, `CallsAreAnswered`, `StopsWhenStuck` and the
refinement of `AgentContract` follow. `ToolsAreClipped` adds that a turn starts
within the budget (`RoomInv`): then equal shares of what the reply left, as many
as there are calls, add up to no more than was left. That `Runtime` takes those steps for its
agentic tasks is by reading: the two modules share no run.

`WebProofs`, the stream, for any queue size, any number of tasks and deltas and
any cancellation: the queue stays in its bound, and the refinement of
`StreamContract`, which needs which places of producer, engine and consumer go
together, and that tasks at work without `aexecute` were cut off by a reader
who left. What the client is shown is argued on one sequence, `received` and
`queue` joined: taking an event leaves it alone, putting one lengthens it, so
that nothing said of it has to follow the reader. `StoryInv` says of it that the
deltas are counted and stand on their side of the stages, that the engine's
callbacks are all it has until the producer reports, and that after the one
terminal event comes nothing but the sentinel. `EndingTrue` and
`BoundariesInPlace` read it off when the queue is empty.

`WebProofs`, the slots, for any set of ids and any limit: `PlacesInv` says which places
of a response go with which engine, flag and owed background task;
the count of slots is proved with it by cases on the step (a stream opened adds
one member to a finite set, a release removes one), and the limit from the
count. `StreamsUsedByContract` maps every stream of the application to
`StreamContract` and shows each step to be a step of one of them or a stutter;
this one is proved only, and no run checks it.

`McpServiceProofs`, for any set of calls, objectives and other surfaces, any cap
and any number of resets. `LockInv` says that whoever probes has the lock, so
that nobody has cached meanwhile what it is about to; a cached factory accounts
for one probe and a reset for those of the factories it drops, from which
`ProbesShared` follows. `FirstRuntimeInv` says that what is cached has made its
builder's runtime, so that `ChargedToBuilder` holds: the preflight is on the
bill of the run whose call made it and on no other. The steps are grouped first
by what they do to the cache. `SpendingInv` is the same in numbers, that the
calls made are the sum of what every probe and every run made of them and one
for each checked answer; `CallsAreBilledOnce` is that sum over the bills.

`McpServiceProofs`, the ledger, for records and blocks of any length and a file
that may be torn anywhere. A file cut anywhere splits into the lines of both
parts, the one at the cut glued together (`PiecesJoin`), and appending leaves the
records before it alone (`KeptAppend`). The reader's walk is then one statement
(`LedgerInv`): what it has found so far with what is still ahead of it, its
carry glued on, are the newest records of the file it opened; a block taken
moves records from the one to the other. `ReaderIsRight` is that at the end of
the walk, whatever has been appended since it was opened. `Books` ties the file
to the service: each record stands in it at most once, and what counts as
recorded has its line there whole. Then the records the reader adds up are those
of the recorded calls, one each, and `BillsAgree` follows.

`AgentProofs`, for any limits, any number of calls and children that write
any number of lines. `PlaceInv` says whose place a call stands at and why it is
stopping, `LifeInv` that a child lives only while its call watches it or asks
for its end, with the container no `docker kill` reached as the exception, and
`BooksInv` that every line written is read or in the pipe until somebody stops
reading. The last makes a whole answer and a normal report true: the end of
file they waited for comes after the last line. Each environment and each kind
of call has its own lemma; `FetchInv` carries a fetch from its address to its
text, and `RunInv` the run from its calls to the end of its workspace.

The ranking, for any finite set of models, any estimate, difficulty and
objective. In `DataTheorems`, `KeysOrder`: sorting by keys that differ is a
permutation in the order of the keys, because the number of smaller keys grows
with the key and no number below the size of the set is left out. `RankedWell`
carries this through the groups of `route_ranked`. In `DirectRunProofs`, rounding
is bounded on either side (`RoundedNear`); what is left of two scores when the priors they share are
left out differs as their raw scores do, up to that rounding
(`ReweightingKeepsOrder`). That price decides nothing on quality is not a
property of one ranking but of two: place by place they have the same grade,
because as many models are graded better in the one as in the other (`Pigeons`,
`SortedSame`).

`DirectRunProofs`, the run. `ConfigInv` is the configuration, which no step
changes. `CourseInv` is the walk: what was tried and what is left make up the
ranking (`WalkInv`), where a run is with a result and without (`PlaceInv`), who
has the connection (`WireInv`), that a streamed reply is what came over it
(`ReplyInv`), and the record (`RecordInv`): exact at every place except after a
Ctrl-C, which may lose it and cannot make one up. `BillInv` is the money. A completed call is paid when
it comes back and metered a step later, so the two ledgers settle with what was
spent either now or once the pending use is added (`MoneyInv`, `Settles`), over the probe's
meter, its merge into the run's and the detector's call (`SpendSettles`,
`MergedSettles`); what is priced directly is a part of what was used, so that the
subtraction of the two books never falls below zero (`MeterOK`). `CallsInv`
counts the calls, `PlansInv` says why a subscription in the meter has one that
counts: a planner on a subscription means there are only subscriptions
(`PlannerIsOurs`). `RankingFair`, `WalkComplete` and `AnswerTrue` follow.
The assumptions are the named ones of `DirectRun`, `HttpCall` and `Verification`:
the bounds are numbers, and the table is a finite set of `Models`. Nothing is
assumed of the rates, the profiles or the number of models.

`EvidenceProofs`, the start, for any settings, overrides and profiles files.
`AskedInv`: models, providers and baseline are, place by place, what has been
asked for so far. It holds at every stage and every family keeps it, because a
family refuses an id that is taken and lists without duplicates stay so when
joined. `TakenInv` is what the registry has let through, `PlannerInv` that the
planner that was picked is one of the models and honours a temperature or has
passed the gate, `FactoryInv` what `make_runtime` has closed over. With
`PhasesStayDeterministic` itself they make up `StartInv`, which is inductive;
that phases list each stand-in once is the permutation of `RankedWell` again.
Assumed are that the settings are settings (`EvidenceAssumption`), that `Null` is no
number (`NullAssumption`) and, because the provers do not know it, that the
words the module uses are strings (`WordsAssumption`).

`EvidenceProofs`, the suites, for any number of rounds, any scores and any costs:
`VerdictInv`. The finished rounds are the first of those asked for, which is
where a goal's place is computed by division (`PlaceIn`, `PlaceOf`); what was
spent is the sum over the finished rounds and the arms of the one at work
(`MoneyInv`). The report adds up by goal what the rounds have one by one: sums
regroup by a key (`SumGroups`), so no round is lost or counted twice as long as
a goal is in a suite once (`BenchAssumption`; `tests/eval/test_tasks.py:36`). The
winner of `compare_arms` is the one arm that beats both others (`WinnerIs`), and two
gaps beyond their spread have the same sign (`SameSign`). The scorer is an
invariant by itself (`NothingOutlivesGrading`).

`EvidenceProofs`, the campaigns, for any wires, goals, outcomes and scores (of one
or two wires and one or two repeats, the orders of `CampaignOrders`):
`CampaignInv`. At every stage the runs are well formed and the file is what
they amount to (`FileInv`), because each program only passes on what the one
before it left. `WrittenIs` then says what a file holds: `build_profiles` of the
runs of the last wire under each id (`LastIs`), and `HonestIs` what such a
profile says: each mean and share is rounded from the runs it is said to be of
(`NearIs`, from `RoundedNear` of `DataTheorems`), a confidence counts goals and
not repeats, and it is a profile the loader takes (`ProfileIsValid`).
`TiersAreHonest` is about `suggest_tiers`: a lower tier means a gap somewhere
between, and along a ranking a gap between neighbours is one between the two.
`MeasuredInv` follows the start that waits for the file: its one model is filed
under the wire's id, so neither the registry nor the planner's choice nor the
factory refuses it, and its profile is the file's (`ProfilesAreEarned`).
Assumed besides are that goals are finitely many and the mark of a missing one
is none of them (`GoalsAssumption`).

`DataTheorems`. `MapThenSumSet` adds in an order of its own; the lemmas say that
it is defined on every finite set and that the order does not matter, by taking
a least set where they would fail instead of an induction; then that sums split,
add and regroup.

A few definitions are written so that they can be reasoned about: ranking and
sums without `RECURSIVE` or the sorting operators of the community modules, what
the client is given by positions instead of by filtered sequences, the lines of
the ledger by recursive functions, the sums of a suite over sets of rounds, and the
history `spent` as a record built field by field; a calibration's entries
by the numbers of their runs instead of filtered lists, and the suggested tier by
how many gaps lie above a model instead of a fold. TLC checks the same runs as
before on them. One clause of `EvidenceIsTrue` was false as first stated, and no
instance small enough for TLC shows it: a reliability below one is 9999 at
most only up to some twenty thousand runs, beyond which the four digits of
`calibrate.py:213` round one failure away. It now says that the number is the
share of usable runs, rounded.

Every safety property a passing run checks is proved. Model-checked only are
`EveryRunEnds`, `LeavingEnds`, `SlotsComeBack`, both `CallsEnd` and the liveness of
`KeepsPhaseContract` (fairness and `ENABLED` are out of the prover's reach), and the
violated properties.

## Where code and documents part

Two runs end in a violation and are described in `PROJECT.json`. Met while
modelling, and told here only:

- The verification call passes no gate and is missing from
  `subscription_calls`, and so from the ledger (`types.py:251-253` and
  README.md:824-827 speak of all calls of a run); `ungated` of `Runtime.tla` and
  `checked` of `McpService.tla` keep it apart.
- A summary printed to a pipe whose reader has gone stays in the buffer, raises
  nothing inside `main` and makes the exit status of a successful run 120 at the
  interpreter's last flush, which `cli.py:574-577` means to prevent; `Prints` of
  `DirectRun.tla`.
- `_print_interrupted` (`cli.py:590`) writes inside `except KeyboardInterrupt`,
  where `except BrokenPipeError` does not apply: Ctrl-C with the reader gone ends
  in a traceback and 120, and README.md:355 promises 130 and never a traceback;
  `Interrupted`.
- A Ctrl-C while a finished run is recorded or printed (`cli.py:639-646`) leaves
  it unrecorded, or recorded as a success that exits with 130.
- An error, and a run whose client has left, is never recorded
  (`webui/app.py:1216`; README.md:386-387 says every run is): the variable
  `recorded` of `WebRuns.tla`.
- A departed client's slot comes back before its run has ended, and tasks of the
  wave it cut off may work on longer still, so more than
  `VOLANTE_UI_MAX_CONCURRENT_RUNS` goals may be at work (README.md:380).
  `RunHoldsSlot` says what does hold.
- A cancellation that meets a call just completed may be lost in
  `asyncio.wait_for` (`CanLose`, `LosesCancel`), which
  `tests/webui/test_runner.py:44` does not reach. A task that has lost it may
  outlive the run that was cancelled, write to its blackboard and call
  providers, an agent's calls uncounted.
- The projector fills the budget of a prompt and the agentic loop adds its tool
  specs to it: an agentic task with a long goal ends over budget before its first
  call (`projector.py:115`).
- The direct path counts its subscription calls but checks no cap
  (`direct.py:106`): `VOLANTE_MAX_SUBSCRIPTION_CALLS` (README.md:825) binds only
  orchestrated runs. Its `subscription_calls` omits the preflight, while the costs
  of the same result include it.
- `calibrate_models.model_id_for` gives every wire of a campaign the one id of
  `*_NAME`, so the measurements of several wires overwrite one another
  (`LastUnder` of `Bench.tla`).
- `calibrate_file` writes the profiles file before the strict loader has read it
  back (`calibrate.py:304`): a file the loader refuses has replaced the old one.
- A task type with nothing but `null` scores rejects the whole measurements file
  (`calibrate.py:128`), though `null` is documented to count as a failed run.
- `cli.py:489-508` warns that Volante refuses to start while a profiles file
  names an unknown model; `Registry` (`registry.py:106-147`) drops such entries as
  long as any other matches (`Kept` of `Inventory.tla`).
- `_unpriced_models` of `cli.py` flags Ollama and plan-backed models, whose zero
  the notice of `bootstrap.py:841` says must not be flagged.
- An `OPENAI_COMPAT` slot without a number and without its endpoint is ignored in
  silence, while a numbered one is an error (`SlotsFit` of `Setup.tla`).
- A `ProviderError` of the baseline arm loses the rounds of the suite already
  paid for (`BaselineRaises`); and an arm whose code nobody could grade still has
  the .30 of its tests and README, with which it may beat an arm measured at 0
  (`harness.py:589`).
- `fetch_url` means to go on to the next address on `ConnectTimeout`
  (`fetch_url.py:299`), but the connection is given as long as the whole fetch:
  an address that never answers uses up the deadline.

## Not modelled

The translation of messages and tools to HTTP requests and the argument vectors
of CLI agents; prompts, wording and layout; the dataclasses of messages and their
validation; `read_file`, one guarded read that keeps no state; authorization,
the pages and the usage API of the web interface; the listings of the command
line; the compatibility of old names of variables; the wrappers that confine a
process, which are the platform's; the semaphore of one CLI provider; and the
task data of the evaluation with the text of its repository goals.
