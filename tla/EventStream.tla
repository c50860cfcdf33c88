---------------------------- MODULE EventStream ----------------------------
(***************************************************************************)
(* stream_events of webui/runner.py: a task runs the engine, whose         *)
(* synchronous callbacks put events on a bounded queue, and an asynchronous *)
(* generator takes them off for the client.  Callbacks cannot wait for     *)
(* room, so a full queue makes them raise, and the engine turns that into  *)
(* the failure of the phase or of the task it interrupts.                  *)
(*                                                                         *)
(* The engine is Runtime.aexecute seen from its callbacks: it streams      *)
(* planning, then waves of parallel tasks, then synthesis.  A delta of     *)
(* text is told apart by the phase that wrote it.                          *)
(***************************************************************************)
EXTENDS Integers, Sequences, FiniteSets

CONSTANTS
  Task,        \* the tasks of the plan
  Cap,         \* maxsize of the queue
  MaxDeltas,   \* bound: deltas the engine streams in a run
  LosesCancel  \* a cancellation can be lost: asyncio.wait_for returns a result
               \* that is ready when it arrives (Python 3.11), the clean-up of a
               \* worker's tool swallows it

ASSUME StreamAssumption == Cap \in Nat \ {0} /\ MaxDeltas \in Nat

VARIABLES
  queue,      \* events put and not taken
  announced,  \* the flags of stage
  made,       \* deltas handed to the callbacks
  engine,     \* "idle", "planning", "working", "synthesizing", "over"
  todo,       \* tasks of no wave yet
  alive,      \* tasks of the current wave at work, or cancelled and unwinding
  failed,     \* a task has failed
  verdict,    \* how aexecute ended: "none", "success", "failed", "raised"
  producer,   \* the task _run: "idle", "running", "reporting", "ending", "done"
  cancel,     \* task.cancel(): "none", "sent", "held" back by the wave, "due",
              \* "lost", "hit"
  consumer,   \* the generator: "new", "waiting", "reading", "leaving", "ended", "gone"
  received    \* events the client was given

engineVars == <<made, engine, todo, alive, failed, verdict, announced>>
vars == <<queue, engineVars, producer, cancel, consumer, received>>

Sentinel == [type |-> "end"]
Stage(s) == [type |-> "stage", stage |-> s]
Delta(phase) == [type |-> "phase", text |-> phase]
WorkerDelta(t) == [type |-> "worker", task |-> t]
Terminal(v) == IF v = "raised" THEN [type |-> "error"] ELSE [type |-> "result", status |-> v]

Init ==
  /\ queue = <<>>
  /\ announced = {}
  /\ made = 0
  /\ engine = "idle"
  /\ todo = Task
  /\ alive = {}
  /\ failed = FALSE
  /\ verdict = "none"
  /\ producer = "idle"
  /\ cancel = "none"
  /\ consumer = "new"
  /\ received = <<>>

Room == Cap - Len(queue)

(* put_nowait of one event after the other; the first without room raises. *)
Fits(events) == Len(events) <= Room
Offer(events) ==
  queue' = queue \o SubSeq(events, 1, IF Fits(events) THEN Len(events) ELSE Room)

EngineRuns == producer = "running" /\ cancel \in {"none", "lost"}

(* A task of the wave: one whose cancellation got lost goes on, whether or
   not aexecute still waits for it. *)
TaskRuns(t) ==
  /\ t \in alive
  /\ cancel \in {"none", "lost"} \/ (LosesCancel /\ cancel # "sent")

(* aexecute returns or raises, and _run turns to its terminal event. *)
Over(v) ==
  /\ engine' = "over"
  /\ verdict' = v
  /\ producer' = "reporting"

-----------------------------------------------------------------------------
(* The first anext: the producer task is created. *)
Begin ==
  /\ consumer = "new"
  /\ consumer' = "waiting"
  /\ producer' = "running"
  /\ engine' = "planning"
  /\ UNCHANGED <<queue, made, todo, alive, failed, verdict, announced, cancel, received>>

(* Mutant: the boundary does not ask whether a worker has run. *)
CrossingAtOnce == "synthesis" \notin announced

(* on_text, of planning and of synthesis: the first text after a worker's is
   preceded by the synthesis boundary, and the flag is up before its put. *)
Crossing == "workers" \in announced /\ "synthesis" \notin announced
TextEvents ==
  (IF Crossing THEN <<Stage("synthesis")>> ELSE <<>>) \o <<Delta(engine)>>
(* Mutant: on_text swallows QueueFull. *)
OnTextDrops ==
  /\ EngineRuns
  /\ engine \in {"planning", "synthesizing"}
  /\ made < MaxDeltas
  /\ made' = made + 1
  /\ announced' = IF Crossing THEN announced \cup {"synthesis"} ELSE announced
  /\ Offer(TextEvents)
  /\ UNCHANGED <<engine, verdict, producer, todo, alive, failed, cancel, consumer, received>>

OnText ==
  /\ EngineRuns
  /\ engine \in {"planning", "synthesizing"}
  /\ made < MaxDeltas
  /\ made' = made + 1
  /\ announced' = IF Crossing THEN announced \cup {"synthesis"} ELSE announced
  /\ Offer(TextEvents)
  /\ IF Fits(TextEvents) THEN UNCHANGED <<engine, verdict, producer>> ELSE Over("failed")
  /\ UNCHANGED <<todo, alive, failed, cancel, consumer, received>>

(* on_worker: what it raises fails the task, not its siblings. *)
WorkerEvents(t) ==
  (IF "workers" \notin announced THEN <<Stage("workers")>> ELSE <<>>) \o <<WorkerDelta(t)>>
OnWorker(t) ==
  /\ TaskRuns(t)
  /\ made < MaxDeltas
  /\ made' = made + 1
  /\ announced' = announced \cup {"workers"}
  /\ Offer(WorkerEvents(t))
  /\ IF Fits(WorkerEvents(t))
       THEN UNCHANGED <<alive, failed>>
       ELSE alive' = alive \ {t} /\ failed' = TRUE
  /\ UNCHANGED <<engine, todo, verdict, producer, cancel, consumer, received>>

(* A wave of tasks starts together, the first one when the plan is adopted. *)
Wave ==
  /\ engine' = "working"
  /\ \E wave \in SUBSET todo \ {{}} :
       /\ alive' = wave
       /\ todo' = todo \ wave
StartWave ==
  /\ EngineRuns
  /\ \/ engine = "planning"
     \/ engine = "working" /\ alive = {} /\ ~failed
  /\ Wave
  /\ UNCHANGED <<queue, made, failed, verdict, announced, producer, cancel, consumer, received>>

TaskEnds(t) ==
  /\ TaskRuns(t)
  /\ alive' = alive \ {t}
  /\ failed' \in {failed, TRUE}
  /\ UNCHANGED <<queue, made, engine, todo, verdict, announced, producer, cancel, consumer,
                 received>>

Synthesize ==
  /\ EngineRuns
  /\ engine = "working" /\ alive = {} /\ todo = {} /\ ~failed
  /\ engine' = "synthesizing"
  /\ UNCHANGED <<queue, made, todo, alive, failed, verdict, announced, producer, cancel,
                 consumer, received>>

(* aexecute ends: with an answer, with the failure of a phase or of a wave,
   or, before anything is streamed, with an exception of its own. *)
Ends ==
  /\ EngineRuns
  /\ \/ engine = "synthesizing" /\ Over("success")
     \/ engine \in {"planning", "synthesizing"} /\ Over("failed")
     \/ engine = "working" /\ alive = {} /\ failed /\ Over("failed")
     \/ engine = "planning" /\ made = 0 /\ Over("raised")
  /\ UNCHANGED <<queue, made, todo, alive, failed, announced, cancel, consumer, received>>

-----------------------------------------------------------------------------
(* await queue.put(...) of the terminal event. *)
Report ==
  /\ producer = "reporting"
  /\ cancel \in {"none", "lost"}
  /\ Room > 0
  /\ queue' = Append(queue, Terminal(verdict))
  /\ producer' = "ending"
  /\ UNCHANGED <<engineVars, cancel, consumer, received>>

(* The finally clause: the sentinel, unless the task was asked to cancel. *)
End ==
  /\ producer = "ending"
  /\ \/ /\ cancel = "none"
        /\ Room > 0
        /\ queue' = Append(queue, Sentinel)
     \/ /\ cancel = "lost"
        /\ UNCHANGED queue
  /\ producer' = "done"
  /\ UNCHANGED <<engineVars, cancel, consumer, received>>

(* Mutant: the sentinel is awaited on cancellation too. *)
UnwindWithSentinel ==
  /\ Room > 0
  /\ queue' = Append(queue, Sentinel)
  /\ producer' = "done"

(* CancelledError reaches the await the task is suspended on and unwinds it:
   except Exception does not catch it and no sentinel is owed. *)
Unwind ==
  /\ producer' = "done"
  /\ UNCHANGED queue
WaitsForWave == producer = "running" /\ engine = "working"
Cancelled ==
  /\ \/ cancel = "sent" /\ ~WaitsForWave
     \/ cancel = "due"
     \/ cancel = "held" /\ alive = {}
  /\ cancel' = "hit"
  /\ engine' = "over"
  /\ Unwind
  /\ UNCHANGED <<made, todo, alive, failed, verdict, announced, consumer, received>>

(* The call a phase waits for has just completed: wait_for gives its result
   and the cancellation is forgotten. *)
PhaseLosesCancel ==
  /\ LosesCancel
  /\ cancel = "sent" /\ producer = "running"
  /\ cancel' = "lost"
  /\ \/ engine = "planning" /\ Wave /\ UNCHANGED <<verdict, producer>>
     \/ engine = "synthesizing" /\ Over("success") /\ UNCHANGED <<todo, alive>>
     \/ engine \in {"planning", "synthesizing"} /\ Over("failed") /\ UNCHANGED <<todo, alive>>
  /\ UNCHANGED <<queue, made, failed, announced, consumer, received>>

(* gather passes the cancellation to every task of the wave.  Some end at
   once, and gather raises; the rest unwind, or go on. *)
WaveCancelled ==
  /\ cancel = "sent" /\ WaitsForWave
  /\ \E inside \in SUBSET alive :
       /\ alive' = inside
       /\ cancel' = IF inside = alive /\ alive # {} THEN "held" ELSE "due"
  /\ UNCHANGED <<queue, made, engine, todo, failed, verdict, announced, producer, consumer,
                 received>>

(* One of the rest ends cancelled; gather raises at the first. *)
TaskCancelled(t) ==
  /\ t \in alive
  /\ cancel \in {"held", "due", "hit"}
  /\ alive' = alive \ {t}
  /\ cancel' = IF cancel = "held" THEN "due" ELSE cancel
  /\ UNCHANGED <<queue, made, engine, todo, failed, verdict, announced, producer, consumer,
                 received>>

-----------------------------------------------------------------------------
(* await queue.get(), and what the loop does with the event. *)
Take ==
  /\ consumer = "waiting"
  /\ queue # <<>>
  /\ queue' = Tail(queue)
  /\ IF Head(queue) = Sentinel
       THEN consumer' = "ended" /\ UNCHANGED received
       ELSE consumer' = "reading" /\ received' = Append(received, Head(queue))
  /\ UNCHANGED <<engineVars, producer, cancel>>

Resume ==
  /\ consumer = "reading"
  /\ consumer' = "waiting"
  /\ UNCHANGED <<queue, engineVars, producer, cancel, received>>

(* aclose at a yield, or cancellation at queue.get(): the finally clause. *)
Leave ==
  /\ consumer \in {"waiting", "reading"}
  /\ consumer' = "leaving"
  /\ cancel' = IF producer = "done" THEN cancel ELSE "sent"
  /\ UNCHANGED <<queue, engineVars, producer, received>>

(* A generator that never started has no finally clause to run. *)
Discard ==
  /\ consumer = "new"
  /\ consumer' = "gone"
  /\ UNCHANGED <<queue, engineVars, producer, cancel, received>>

(* Mutant: the task is cancelled and not awaited. *)
LeftAtOnce ==
  /\ consumer = "leaving"
  /\ consumer' = "gone"
  /\ UNCHANGED <<queue, engineVars, producer, cancel, received>>

(* await asyncio.gather(task): over when the task is. *)
Left ==
  /\ consumer = "leaving"
  /\ producer = "done"
  /\ consumer' = "gone"
  /\ UNCHANGED <<queue, engineVars, producer, cancel, received>>

EngineStep == OnText \/ StartWave \/ Synthesize \/ Ends \/ \E t \in Task : OnWorker(t) \/ TaskEnds(t)
ProducerStep ==
  \/ EngineStep \/ Report \/ End
  \/ Cancelled \/ PhaseLosesCancel \/ WaveCancelled \/ \E t \in Task : TaskCancelled(t)
ConsumerStep == Begin \/ Take \/ Left

Next == ProducerStep \/ ConsumerStep \/ Resume \/ Leave \/ Discard

(* The event loop keeps running both sides, and the deadlines of the phases
   and calls end what the engine waits for; the client owes nothing. *)
Fairness == WF_vars(ProducerStep) /\ WF_vars(ConsumerStep)

Spec == Init /\ [][Next]_vars
FairSpec == Spec /\ Fairness

-----------------------------------------------------------------------------
Event ==
  {Stage(s) : s \in {"workers", "synthesis"}}
  \cup {Delta(p) : p \in {"planning", "synthesizing"}}
  \cup {WorkerDelta(t) : t \in Task}
  \cup {Terminal(v) : v \in {"success", "failed", "raised"}}

TypeOK ==
  /\ queue \in Seq(Event \cup {Sentinel}) /\ Len(queue) <= Cap
  /\ announced \subseteq {"workers", "synthesis"}
  /\ made \in 0..MaxDeltas
  /\ engine \in {"idle", "planning", "working", "synthesizing", "over"}
  /\ todo \subseteq Task
  /\ alive \subseteq Task \ todo
  /\ failed \in BOOLEAN
  /\ verdict \in {"none", "success", "failed", "raised"}
  /\ producer \in {"idle", "running", "reporting", "ending", "done"}
  /\ cancel \in {"none", "sent", "held", "due", "lost", "hit"}
  /\ consumer \in {"new", "waiting", "reading", "leaving", "ended", "gone"}
  /\ received \in Seq(Event)

IsTerminal(e) == e.type \in {"result", "error"}
IsDelta(e) == e.type \in {"phase", "worker"}
Deltas(events) == {i \in DOMAIN events : IsDelta(events[i])}
Before(events, i) == {events[j] : j \in 1..i - 1}
ShowsSuccess == \E i \in DOMAIN received : received[i] = Terminal("success")

(* A client that reads to the end gets exactly one terminal event, and it is
   the last one: a terminal put that jumps the queue, a second one from the
   except clause or a sentinel that overtakes it would break this. *)
LastWord ==
  /\ \A i \in 1..Len(received) : IsTerminal(received[i]) => i = Len(received)
  /\ consumer = "ended" => received # <<>> /\ IsTerminal(received[Len(received)])

(* Success is never shown over a hole: when the client reads the result of a
   successful run it has read every delta the engine ever streamed.  This is
   what makes it right for put_nowait to fail the run when there is no room. *)
NoHoleInSuccess == ShowsSuccess => Cardinality(Deltas(received)) = made

(* How a stream ends: with one word, the last, and a true one. *)
EndingIsTrue == LastWord /\ NoHoleInSuccess

(* An event among those before it: a worker's text is after the workers
   boundary and before the synthesis one, a planner's after nothing but its
   own, and a synthesizer's that follows a worker's after the boundary. *)
InPlace(e, before) ==
  /\ e.type = "worker" => Stage("workers") \in before /\ Stage("synthesis") \notin before
  /\ e = Delta("planning") => \A b \in before : b.type = "phase"
  /\ e = Delta("synthesizing") /\ Stage("workers") \in before => Stage("synthesis") \in before
InOrder(events) == \A i \in DOMAIN events : InPlace(events[i], Before(events, i))

(* The boundaries the page draws its stepper from are where the phases really
   change, in every run that succeeds. *)
BoundariesTrue == ShowsSuccess => InOrder(received)

(* A client that leaves is let go: cancelling the task ends it whatever it is
   suspended on, the put of an event on a queue nobody reads any more
   included, as long as the cancellation is not lost on its way. *)
LeavingEnds == consumer = "leaving" ~> consumer = "gone" \/ cancel = "lost"

Contract == INSTANCE StreamContract WITH
  run <- CASE producer = "idle" -> "idle"
           [] producer = "done" -> "over"
           [] OTHER -> IF consumer = "leaving" THEN "stopping" ELSE "running",
  reader <- CASE consumer = "new" -> "new"
              [] consumer \in {"waiting", "reading"} -> "open"
              [] consumer = "leaving" -> "leaving"
              [] OTHER -> "gone",
  working <- alive

(* What whoever iterates the stream may rely on: the iterator is gone only
   when aexecute has ended, one read to its end leaves nobody at work behind
   it, and one that was left leaves at most the tasks of the wave it cut. *)
KeepsStreamContract == Contract!StreamSpec

=============================================================================
