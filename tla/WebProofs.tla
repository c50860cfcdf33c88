----------------------------- MODULE WebProofs -----------------------------
(***************************************************************************)
(* The web interface.  First the event stream, for any number of tasks,    *)
(* any capacity and whether or not cancellations get lost: its queue is    *)
(* bounded, and it keeps StreamContract, on which WebRuns builds.  The     *)
(* sentinel is what ties the two sides together: no one finds it before    *)
(* the producer is done.  What the client is shown is argued on Stream,    *)
(* its events and those still on their way in one sequence, which only     *)
(* putting changes: talk, then one word, then the sentinel.                *)
(*                                                                         *)
(* Then the slots of create_app, for any number of ids and any limit: the  *)
(* counter is exactly the number of streams that hold a slot, the limit is *)
(* never passed, and a run whose client is there keeps its slot.           *)
(***************************************************************************)
EXTENDS EventStream, WebRuns, FiniteSetTheorems, SequenceTheorems, TLAPS

Busy == {"running", "reporting", "ending"}

(* Where tasks may be at work: in a wave, or behind a task that was cut. *)
AtWork == (producer = "running" /\ engine = "working") \/ cancel = "hit"

(* What each side knows of the other. *)
SidesInv ==
  /\ producer # "done" \/ cancel = "hit" => queue \in Seq(Event)
  /\ consumer = "new" => producer = "idle"
  /\ consumer \in {"waiting", "reading", "leaving"} => producer # "idle"
  /\ consumer = "ended" => producer = "done"
  /\ consumer = "gone" => producer \in {"idle", "done"}
  /\ cancel # "none" => consumer \in {"leaving", "gone"}
  /\ cancel \in {"sent", "held", "due"} => producer \in Busy
  /\ cancel = "hit" => producer = "done"
  /\ alive # {} => AtWork
  /\ producer \in {"reporting", "ending"} => verdict \in {"success", "failed", "raised"}

IInv == TypeOK /\ SidesInv

-----------------------------------------------------------------------------
LEMMA SentinelNoEvent == Sentinel \notin Event
BY DEF Sentinel, Event, Stage, Delta, WorkerDelta, Terminal

LEMMA EventsTyped ==
  /\ \A s \in {"workers", "synthesis"} : Stage(s) \in Event
  /\ \A p \in {"planning", "synthesizing"} : Delta(p) \in Event
  /\ \A t \in Task : WorkerDelta(t) \in Event
  /\ \A v \in {"success", "failed", "raised"} : Terminal(v) \in Event
BY DEF Event

(* What a callback puts is events, and never more than there is room for. *)
LEMMA OfferBounded ==
  ASSUME IInv, queue \in Seq(Event), NEW events \in Seq(Event), Offer(events)
  PROVE  queue' \in Seq(Event) /\ Len(queue') <= Cap
<1>1. queue \in Seq(Event) /\ Len(queue) \in Nat /\ Len(queue) <= Cap /\ Cap \in Nat
  BY StreamAssumption DEF IInv, TypeOK, SidesInv
<1>2. Len(events) \in Nat /\ Room \in Nat
  BY <1>1 DEF Room
<1> DEFINE n == IF Fits(events) THEN Len(events) ELSE Room
<1>3. n \in 0..Len(events) /\ n <= Room
  BY <1>2 DEF Fits
<1>4. SubSeq(events, 1, n) \in Seq(Event) /\ Len(SubSeq(events, 1, n)) = n
  BY <1>2, <1>3, SubSeqProperties
<1>5. queue' = queue \o SubSeq(events, 1, n)
  BY DEF Offer
<1>6. queue' \in Seq(Event) /\ Len(queue') = Len(queue) + n
  BY <1>1, <1>4, <1>5, ConcatProperties
<1> QED BY <1>1, <1>2, <1>3, <1>6 DEF Room

(* await queue.put: one event, when there is room. *)
LEMMA PutBounded ==
  ASSUME IInv, producer # "done", NEW e \in Event \cup {Sentinel}, Room > 0,
         queue' = Append(queue, e)
  PROVE  /\ queue' \in Seq(Event \cup {Sentinel}) /\ Len(queue') <= Cap
         /\ e \in Event => queue' \in Seq(Event)
<1>1. queue \in Seq(Event) /\ Len(queue) \in Nat /\ Cap \in Nat
  BY StreamAssumption DEF IInv, SidesInv
<1>2. Len(queue') = Len(queue) + 1
  BY <1>1, AppendProperties
<1>3. queue \in Seq(Event \cup {Sentinel})
  BY <1>1
<1> QED BY <1>1, <1>2, <1>3, AppendProperties DEF Room

-----------------------------------------------------------------------------
LEMMA InitIInv == Init => IInv
<1> SUFFICES ASSUME Init PROVE IInv
  OBVIOUS
<1>1. queue \in Seq(Event \cup {Sentinel}) /\ queue \in Seq(Event) /\ received \in Seq(Event)
  BY DEF Init
<1>2. Len(queue) <= Cap /\ made \in 0..MaxDeltas
  BY StreamAssumption DEF Init
<1> QED BY <1>1, <1>2 DEF Init, IInv, TypeOK, SidesInv

(* Nobody is at work behind the end of a stream that was not cut. *)
LEMMA AliveWhere ==
  ASSUME IInv, NEW t \in alive
  PROVE  AtWork /\ queue \in Seq(Event) /\ consumer # "ended"
BY DEF IInv, SidesInv, AtWork

(* The callbacks. *)
LEMMA TextStep == ASSUME IInv, OnText PROVE IInv'
<1>1. producer = "running" /\ queue \in Seq(Event) /\ alive = {} /\ cancel \in {"none", "lost"}
  BY DEF OnText, EngineRuns, IInv, SidesInv, AtWork
<1>2. TextEvents \in Seq(Event)
  BY EventsTyped DEF TextEvents, OnText
<1>3. queue' \in Seq(Event) /\ Len(queue') <= Cap
  BY <1>1, <1>2, OfferBounded DEF OnText
<1>4. queue' \in Seq(Event \cup {Sentinel})
  BY <1>3
<1>5. made' \in 0..MaxDeltas /\ announced' \subseteq {"workers", "synthesis"}
  BY StreamAssumption DEF OnText, IInv, TypeOK
<1>6. UNCHANGED <<todo, alive, failed, cancel, consumer, received>>
  BY DEF OnText
<1>7. \/ UNCHANGED <<engine, verdict, producer>>
      \/ engine' = "over" /\ verdict' = "failed" /\ producer' = "reporting"
  BY DEF OnText, Over
<1>8. TypeOK'
  BY <1>3, <1>4, <1>5, <1>6, <1>7 DEF IInv, TypeOK
<1>9. SidesInv'
  BY <1>1, <1>3, <1>6, <1>7 DEF IInv, SidesInv, Busy
<1> QED BY <1>8, <1>9 DEF IInv

LEMMA WorkerStep == ASSUME IInv, NEW t \in Task, OnWorker(t) PROVE IInv'
<1>1. queue \in Seq(Event) /\ AtWork
  BY AliveWhere DEF OnWorker, TaskRuns
<1>2. WorkerEvents(t) \in Seq(Event)
  BY EventsTyped DEF WorkerEvents
<1>3. queue' \in Seq(Event) /\ Len(queue') <= Cap
  BY <1>1, <1>2, OfferBounded DEF OnWorker
<1>4. queue' \in Seq(Event \cup {Sentinel})
  BY <1>3
<1>5. alive' \subseteq alive /\ failed' \in BOOLEAN
  <2>1. CASE Fits(WorkerEvents(t))
    BY <2>1 DEF OnWorker, IInv, TypeOK
  <2>2. CASE ~Fits(WorkerEvents(t))
    BY <2>2 DEF OnWorker
  <2> QED BY <2>1, <2>2
<1>6. made' \in 0..MaxDeltas /\ announced' \subseteq {"workers", "synthesis"}
  BY StreamAssumption DEF OnWorker, IInv, TypeOK
<1>7. UNCHANGED <<engine, todo, verdict, producer, cancel, consumer, received>>
  BY DEF OnWorker
<1>8. TypeOK'
  BY <1>3, <1>4, <1>5, <1>6, <1>7 DEF IInv, TypeOK
<1>9. SidesInv'
  BY <1>1, <1>3, <1>7 DEF IInv, SidesInv, AtWork
<1> QED BY <1>8, <1>9 DEF IInv

(* The engine between callbacks, and what cancellation makes of it. *)
LEMMA EngineMoves ==
  ASSUME IInv,
         \/ StartWave \/ Synthesize \/ Ends \/ \E t \in Task : TaskEnds(t) \/ TaskCancelled(t)
         \/ PhaseLosesCancel \/ WaveCancelled
  PROVE  IInv'
<1>1. CASE StartWave
  BY <1>1 DEF StartWave, Wave, EngineRuns, IInv, TypeOK, SidesInv, AtWork, Busy
<1>2. CASE Synthesize
  BY <1>2 DEF Synthesize, EngineRuns, IInv, TypeOK, SidesInv, AtWork, Busy
<1>3. CASE Ends
  BY <1>3 DEF Ends, Over, EngineRuns, IInv, TypeOK, SidesInv, AtWork, Busy
<1>4. ASSUME NEW t \in Task, TaskEnds(t) PROVE IInv'
  <2>1. /\ alive' \subseteq alive /\ failed' \in BOOLEAN /\ AtWork
        /\ UNCHANGED <<queue, made, engine, todo, verdict, announced, producer, cancel, consumer,
                       received>>
    <3>1. alive' \subseteq alive /\ AtWork
      BY <1>4, AliveWhere DEF TaskEnds, TaskRuns
    <3>2. failed' \in BOOLEAN
      BY Zenon, <1>4 DEF TaskEnds, IInv, TypeOK
    <3> QED BY <1>4, <3>1, <3>2 DEF TaskEnds
  <2>2. TypeOK'
    BY <2>1 DEF IInv, TypeOK
  <2>3. SidesInv'
    BY <2>1 DEF IInv, SidesInv, AtWork
  <2> QED BY <2>2, <2>3 DEF IInv
<1>5. CASE PhaseLosesCancel
  BY <1>5 DEF PhaseLosesCancel, Wave, Over, IInv, TypeOK, SidesInv, AtWork, Busy
<1>6. CASE WaveCancelled
  BY <1>6 DEF WaveCancelled, WaitsForWave, IInv, TypeOK, SidesInv, AtWork, Busy
<1>7. ASSUME NEW t \in Task, TaskCancelled(t) PROVE IInv'
  <2>1. /\ alive' \subseteq alive /\ AtWork
        /\ cancel' = cancel \/ (cancel = "held" /\ cancel' = "due")
        /\ UNCHANGED <<queue, made, engine, todo, failed, verdict, announced, producer, consumer,
                       received>>
    BY <1>7, AliveWhere DEF TaskCancelled
  <2>2. TypeOK'
    BY <2>1 DEF IInv, TypeOK
  <2>3. SidesInv'
    BY <2>1 DEF IInv, SidesInv, AtWork
  <2> QED BY <2>2, <2>3 DEF IInv
<1> QED BY <1>1, <1>2, <1>3, <1>4, <1>5, <1>6, <1>7

(* The end of the producer. *)
LEMMA ProducerEnds ==
  ASSUME IInv, Report \/ End \/ Cancelled
  PROVE  IInv'
<1>1. CASE Report
  <2>1. Terminal(verdict) \in Event /\ producer = "reporting"
    BY <1>1, EventsTyped DEF Report, IInv, SidesInv
  <2>2. /\ queue' \in Seq(Event \cup {Sentinel}) /\ Len(queue') <= Cap
        /\ queue' \in Seq(Event)
    BY <1>1, <2>1, PutBounded DEF Report
  <2> QED BY <1>1, <2>2 DEF Report, engineVars, IInv, TypeOK, SidesInv, AtWork, Busy
<1>2. CASE End
  <2>1. queue' \in Seq(Event \cup {Sentinel}) /\ Len(queue') <= Cap
    BY <1>2, PutBounded DEF End, IInv, TypeOK
  <2> QED BY <1>2, <2>1 DEF End, engineVars, IInv, TypeOK, SidesInv, AtWork, Busy
<1>3. CASE Cancelled
  BY <1>3 DEF Cancelled, Unwind, IInv, TypeOK, SidesInv, AtWork, Busy
<1> QED BY <1>1, <1>2, <1>3

(* The generator. *)
LEMMA ConsumerMoves ==
  ASSUME IInv, Begin \/ Take \/ Resume \/ Leave \/ Discard \/ Left
  PROVE  IInv'
<1>1. CASE Take
  <2>1. queue \in Seq(Event \cup {Sentinel}) /\ queue # <<>> /\ Len(queue) <= Cap
    BY <1>1 DEF Take, IInv, TypeOK
  <2>2. /\ Head(queue) \in Event \cup {Sentinel}
        /\ queue' \in Seq(Event \cup {Sentinel}) /\ Len(queue') <= Cap
    BY <1>1, <2>1, HeadTailProperties, StreamAssumption DEF Take
  <2>3. producer # "done" \/ cancel = "hit" => Head(queue) # Sentinel /\ queue' \in Seq(Event)
    BY <1>1, <2>1, SentinelNoEvent, HeadTailProperties DEF Take, IInv, SidesInv
  <2>4. received' \in Seq(Event)
    BY SMTT(30), <1>1, <2>2, AppendProperties DEF Take, IInv, TypeOK
  <2> QED BY <1>1, <2>2, <2>3, <2>4 DEF Take, engineVars, IInv, TypeOK, SidesInv, AtWork, Busy
<1>2. CASE Begin
  BY <1>2 DEF Begin, IInv, TypeOK, SidesInv, AtWork, Busy
<1>3. CASE Resume
  BY <1>3 DEF Resume, engineVars, IInv, TypeOK, SidesInv, AtWork, Busy
<1>4. CASE Discard
  BY <1>4 DEF Discard, engineVars, IInv, TypeOK, SidesInv, AtWork, Busy
<1>5. CASE Left
  BY <1>5 DEF Left, engineVars, IInv, TypeOK, SidesInv, AtWork, Busy
<1>6. CASE Leave
  BY <1>6 DEF Leave, engineVars, IInv, TypeOK, SidesInv, AtWork, Busy
<1> QED BY <1>1, <1>2, <1>3, <1>4, <1>5, <1>6

LEMMA StepIInv == IInv /\ [Next]_vars => IInv'
<1> SUFFICES ASSUME IInv, [Next]_vars PROVE IInv'
  OBVIOUS
<1>1. CASE UNCHANGED vars
  BY <1>1 DEF vars, engineVars, IInv, TypeOK, SidesInv, AtWork
<1> QED BY <1>1, TextStep, WorkerStep, EngineMoves, ProducerEnds, ConsumerMoves
      DEF Next, ProducerStep, EngineStep, ConsumerStep

THEOREM Inductive == Spec => []IInv
<1> QED BY InitIInv, StepIInv, PTL DEF Spec

(* The bridge between engine and client buffers at most Cap events, and every
   flag of it stays in its range. *)
THEOREM QueueBounded == Spec => []TypeOK
<1>1. IInv => TypeOK
  BY DEF IInv
<1> QED BY <1>1, Inductive, PTL

-----------------------------------------------------------------------------
(* A step of the tasks: while aexecute runs they come and go, and behind one
   that was cut they only go. *)
LEMMA WorkKeepsContract ==
  ASSUME IInv, IInv', UNCHANGED consumer,
         \/ producer \in Busy /\ producer' \in Busy
         \/ producer = "done" /\ producer' = "done" /\ alive' \subseteq alive
  PROVE  [Contract!SNext]_(Contract!streamVars)
<1>1. alive \subseteq Task /\ alive' \subseteq Task
  BY DEF IInv, TypeOK
<1>2. CASE producer \in Busy /\ producer' \in Busy
  BY <1>1, <1>2 DEF Busy, Contract!SNext, Contract!SWork
<1>3. CASE producer = "done" /\ producer' = "done" /\ alive' \subseteq alive
  BY <1>1, <1>3 DEF Contract!SNext, Contract!STrail
<1> QED BY <1>2, <1>3

LEMMA StepKeepsContract ==
  ASSUME IInv, [Next]_vars
  PROVE  [Contract!SNext]_(Contract!streamVars)
<1> USE DEF Contract!streamVars
<1>0. IInv'
  BY StepIInv
<1>1. CASE UNCHANGED vars
  BY <1>1 DEF vars, engineVars
<1>2. CASE OnText \/ StartWave \/ Synthesize \/ Ends \/ PhaseLosesCancel \/ WaveCancelled \/ Report
  <2>1. producer \in Busy /\ producer' \in Busy /\ consumer' = consumer
    BY <1>2 DEF OnText, StartWave, Synthesize, Ends, Over, EngineRuns, PhaseLosesCancel,
      WaveCancelled, WaitsForWave, Report, Busy
  <2> QED BY <1>0, <2>1, WorkKeepsContract
<1>3. ASSUME NEW t \in Task, OnWorker(t) \/ TaskEnds(t) \/ TaskCancelled(t)
      PROVE  [Contract!SNext]_(Contract!streamVars)
  <2>1. alive' \subseteq alive /\ producer' = producer /\ consumer' = consumer /\ t \in alive
    BY <1>3 DEF OnWorker, TaskEnds, TaskRuns, TaskCancelled
  <2>2. producer = "running" \/ producer = "done"
    BY <2>1, AliveWhere DEF AtWork, IInv, SidesInv
  <2> QED BY <1>0, <2>1, <2>2, WorkKeepsContract DEF Busy
<1>4. CASE End
  <2>1. /\ producer \in Busy /\ producer' = "done" /\ alive = {}
        /\ UNCHANGED <<consumer, alive>>
    BY <1>4 DEF End, engineVars, Busy, IInv, SidesInv, AtWork
  <2> QED BY <2>1 DEF Busy, Contract!SNext, Contract!SFinish
<1>5. CASE Cancelled
  <2>1. /\ producer \in Busy /\ producer' = "done" /\ consumer = "leaving"
        /\ UNCHANGED <<consumer, alive>>
    BY <1>5 DEF Cancelled, Unwind, Busy, IInv, SidesInv
  <2> QED BY <2>1 DEF Busy, Contract!SNext, Contract!SFinish
<1>6. CASE Begin
  BY <1>6 DEF Begin, IInv, SidesInv, Contract!SNext, Contract!SBegin
<1>7. CASE Take
  <2>1. producer' = producer /\ alive' = alive /\ consumer = "waiting"
        /\ consumer' \in {"reading", "ended"} /\ (consumer' = "ended" => producer = "done")
    BY <1>0, <1>7 DEF Take, engineVars, IInv, SidesInv
  <2>2. producer # "idle"
    BY <2>1 DEF IInv, SidesInv
  <2> QED BY <2>1, <2>2 DEF Contract!SNext, Contract!SDrained
<1>8. CASE Resume
  BY <1>8 DEF Resume, engineVars
<1>9. CASE Leave
  BY <1>9 DEF Leave, engineVars, IInv, TypeOK, SidesInv, Contract!SNext, Contract!SLeave
<1>10. CASE Discard
  BY <1>10 DEF Discard, engineVars, IInv, SidesInv, Contract!SNext, Contract!SDiscard
<1>11. CASE Left
  BY <1>11 DEF Left, engineVars, Contract!SNext, Contract!SLeft
<1> QED BY <1>1, <1>2, <1>3, <1>4, <1>5, <1>6, <1>7, <1>8, <1>9, <1>10, <1>11
      DEF Next, ProducerStep, EngineStep, ConsumerStep

(* Whoever iterates the stream finds it gone only when aexecute has ended; a
   stream read to its end leaves no task at work, and one that was left leaves
   at most tasks of the wave it cut, which start nothing again. *)
THEOREM StreamKept == Spec => KeepsStreamContract
<1>1. Init => Contract!SInit
  BY DEF Init, Contract!SInit
<1>2. IInv /\ [Next]_vars => [Contract!SNext]_(Contract!streamVars)
  BY StepKeepsContract
<1> QED BY <1>1, <1>2, Inductive, PTL DEF Spec, KeepsStreamContract, Contract!StreamSpec

-----------------------------------------------------------------------------
(* Everything the client was given and everything still on its way, in one *)
(* sequence: taking an event leaves it alone, putting one lengthens it.    *)
Stream == received \o queue
Item == Event \cup {Sentinel}
Talk == {Stage(s) : s \in {"workers", "synthesis"}}
          \cup {Delta(p) : p \in {"planning", "synthesizing"}}
          \cup {WorkerDelta(t) : t \in Task}
Said(events) == {events[j] : j \in DOMAIN events}

LEMMA OneMore ==
  ASSUME NEW X, NEW s \in Seq(X), NEW e \in X
  PROVE  /\ Append(s, e) \in Seq(X) /\ Len(Append(s, e)) = Len(s) + 1
         /\ DOMAIN Append(s, e) = DOMAIN s \cup {Len(s) + 1} /\ Len(s) + 1 \notin DOMAIN s
         /\ Append(s, e)[Len(s) + 1] = e
         /\ \A i \in DOMAIN s : Append(s, e)[i] = s[i] /\ Before(Append(s, e), i) = Before(s, i)
         /\ Before(Append(s, e), Len(s) + 1) = Said(s)
         /\ Said(Append(s, e)) = Said(s) \cup {e}
<1> DEFINE t == Append(s, e)
<1>1. t \in Seq(X) /\ Len(t) = Len(s) + 1 /\ Len(s) \in Nat
  BY AppendProperties
<1>2. DOMAIN s = 1..Len(s) /\ DOMAIN t = 1..(Len(s) + 1)
  BY <1>1
<1>3. (\A i \in 1..Len(s) : t[i] = s[i]) /\ t[Len(s) + 1] = e
  BY AppendProperties
<1> HIDE DEF t
<1>4. DOMAIN t = DOMAIN s \cup {Len(s) + 1} /\ Len(s) + 1 \notin DOMAIN s
  BY <1>1, <1>2
<1>5. ASSUME NEW i \in DOMAIN s PROVE t[i] = s[i] /\ Before(t, i) = Before(s, i)
  <2>1. \A j \in 1..(i - 1) : j \in 1..Len(s)
    BY <1>1, <1>2
  <2> QED BY <1>2, <1>3, <2>1 DEF Before
<1>6. Before(t, Len(s) + 1) = Said(s)
  <2>1. 1..(Len(s) + 1 - 1) = DOMAIN s
    BY <1>1, <1>2
  <2>2. Before(t, Len(s) + 1) = {t[j] : j \in DOMAIN s}
    BY <2>1 DEF Before
  <2> QED BY <2>2, <1>5 DEF Said
<1>7. Said(t) = Said(s) \cup {e}
  BY <1>3, <1>4, <1>5 DEF Said
<1> QED BY <1>1, <1>3, <1>4, <1>5, <1>6, <1>7 DEF t

LEMMA DeltasFinite ==
  ASSUME NEW X, NEW s \in Seq(X)
  PROVE  IsFiniteSet(Deltas(s)) /\ Cardinality(Deltas(s)) \in Nat
<1>1. DOMAIN s = 1..Len(s) /\ Len(s) \in Nat
  OBVIOUS
<1>2. IsFiniteSet(1..Len(s))
  BY <1>1, FS_Interval
<1>3. Deltas(s) \subseteq 1..Len(s)
  BY <1>1 DEF Deltas
<1>4. IsFiniteSet(Deltas(s))
  BY <1>2, <1>3, FS_Subset
<1> QED BY <1>4, FS_CardinalityType

(* One event more: a delta counts once, and every event before it keeps its *)
(* place.                                                                   *)
LEMMA OneMoreCounts ==
  ASSUME NEW X, NEW s \in Seq(X), NEW e \in X
  PROVE  /\ Cardinality(Deltas(Append(s, e))) =
              Cardinality(Deltas(s)) + IF IsDelta(e) THEN 1 ELSE 0
         /\ InOrder(Append(s, e)) <=> InOrder(s) /\ InPlace(e, Said(s))
<1> DEFINE t == Append(s, e)
           n == Len(s) + 1
<1>1. /\ DOMAIN t = DOMAIN s \cup {n} /\ n \notin DOMAIN s /\ t[n] = e
      /\ \A i \in DOMAIN s : t[i] = s[i] /\ Before(t, i) = Before(s, i)
      /\ Before(t, n) = Said(s)
  BY OneMore
<1> HIDE DEF t, n
<1>2. InOrder(t) <=> InOrder(s) /\ InPlace(e, Said(s))
  BY <1>1 DEF InOrder
<1>3. Cardinality(Deltas(t)) = Cardinality(Deltas(s)) + IF IsDelta(e) THEN 1 ELSE 0
  <2>1. IsFiniteSet(Deltas(s)) /\ Cardinality(Deltas(s)) \in Nat
    BY DeltasFinite
  <2>2. CASE IsDelta(e)
    <3>1. Deltas(t) = Deltas(s) \cup {n} /\ n \notin Deltas(s)
      BY <1>1, <2>2 DEF Deltas, IsDelta
    <3> QED BY <2>1, <2>2, <3>1, FS_AddElement
  <2>3. CASE ~IsDelta(e)
    <3>1. Deltas(t) = Deltas(s)
      BY <1>1, <2>3 DEF Deltas, IsDelta
    <3> QED BY <2>1, <2>3, <3>1
  <2> QED BY <2>2, <2>3
<1> QED BY <1>2, <1>3 DEF t

(* What the engine streams, place by place. *)
EngineInv ==
  /\ producer = "idle" => /\ Stream = <<>> /\ announced = {} /\ made = 0
                          /\ ~failed
  /\ engine = "planning" => /\ producer = "running" /\ announced = {}
                            /\ \A e \in Said(Stream) : e.type = "phase"
  /\ engine = "working" => "synthesis" \notin announced
  /\ alive # {} => /\ engine \in {"working", "over"} /\ "synthesis" \notin announced
                   /\ verdict = "none" /\ Stream \in Seq(Talk)
  /\ failed => engine \in {"working", "over"}
  /\ producer \in {"idle", "running"} => verdict = "none"
  /\ verdict = "success" => ~failed

(* While nothing is known to be lost, the stream is whole and in order. *)
Clean == ~failed /\ verdict \in {"none", "success"}
WholeInv ==
  Clean =>
    /\ Cardinality(Deltas(Stream)) = made
    /\ InOrder(Stream)
    /\ \A b \in {"workers", "synthesis"} : b \in announced <=> Stage(b) \in Said(Stream)

(* How far the stream has got: talk, one word, its sentinel. *)
Words == {"success", "failed", "raised"}
Told == verdict \in Words /\ \E s \in Seq(Talk) : Stream = Append(s, Terminal(verdict))
Closed ==
  verdict \in Words /\ \E s \in Seq(Talk) : Stream = Append(Append(s, Terminal(verdict)), Sentinel)
WordInv ==
  /\ producer \in {"idle", "running", "reporting"} => Stream \in Seq(Talk)
  /\ producer = "ending" => Told
  /\ producer = "done" => Stream \in Seq(Talk) \/ Told \/ Closed
  /\ consumer = "ended" => Told /\ queue = <<>>

StoryInv == EngineInv /\ WholeInv /\ WordInv

-----------------------------------------------------------------------------
LEMMA Kinds ==
  /\ \A s \in {"workers", "synthesis"} : Stage(s).type = "stage" /\ Stage(s) \in Talk
  /\ \A p \in {"planning", "synthesizing"} : Delta(p).type = "phase" /\ Delta(p) \in Talk
  /\ \A t \in Task : WorkerDelta(t).type = "worker" /\ WorkerDelta(t) \in Talk
  /\ \A v \in Words : Terminal(v).type \in {"result", "error"} /\ Terminal(v) \in Item
  /\ Sentinel.type = "end" /\ Sentinel \in Item
  /\ Talk \subseteq Event /\ Event \subseteq Item
  /\ \A e \in Talk : e.type \in {"stage", "phase", "worker"}
  /\ Stage("workers") # Stage("synthesis")
  /\ Delta("planning") # Delta("synthesizing")
  /\ \A v \in Words : Terminal(v) = Terminal("success") => v = "success"
<1>1. /\ \A s \in {"workers", "synthesis"} : Stage(s).type = "stage" /\ Stage(s) \in Talk
      /\ \A p \in {"planning", "synthesizing"} : Delta(p).type = "phase" /\ Delta(p) \in Talk
      /\ \A t \in Task : WorkerDelta(t).type = "worker" /\ WorkerDelta(t) \in Talk
  BY DEF Talk, Stage, Delta, WorkerDelta
<1>2. \A v \in Words : Terminal(v).type \in {"result", "error"} /\ Terminal(v) \in Item
  BY DEF Item, Event, Terminal, Words
<1>3. Sentinel.type = "end" /\ Sentinel \in Item /\ Talk \subseteq Event /\ Event \subseteq Item
  BY DEF Sentinel, Item, Talk, Event
<1>4. \A e \in Talk : e.type \in {"stage", "phase", "worker"}
  BY DEF Talk, Stage, Delta, WorkerDelta
<1>5. Stage("workers") # Stage("synthesis")
  <2>1. Stage("workers").stage = "workers" /\ Stage("synthesis").stage = "synthesis"
    BY DEF Stage
  <2> QED BY <2>1
<1>6. Delta("planning") # Delta("synthesizing")
  <2>1. Delta("planning").text = "planning" /\ Delta("synthesizing").text = "synthesizing"
    BY DEF Delta
  <2> QED BY <2>1
<1>7. \A v \in Words : Terminal(v) = Terminal("success") => v = "success"
  <2>1. Terminal("raised").type = "error" /\ Terminal("success").type = "result"
    BY DEF Terminal
  <2>2. Terminal("failed").status = "failed" /\ Terminal("success").status = "success"
    BY DEF Terminal
  <2> QED BY <2>1, <2>2 DEF Words
<1> QED BY <1>1, <1>2, <1>3, <1>4, <1>5, <1>6, <1>7

LEMMA StreamTyped == IInv => Stream \in Seq(Item) /\ queue \in Seq(Item) /\ received \in Seq(Item)
<1> SUFFICES ASSUME IInv PROVE Stream \in Seq(Item) /\ queue \in Seq(Item) /\ received \in Seq(Item)
  OBVIOUS
<1>1. queue \in Seq(Item) /\ received \in Seq(Item)
  BY DEF IInv, TypeOK, Item
<1> QED BY <1>1, ConcatProperties DEF Stream

(* Putting events lengthens the stream by them. *)
LEMMA PutLengthens ==
  ASSUME IInv, NEW new \in Seq(Item), queue' = queue \o new, UNCHANGED received
  PROVE  Stream' = Stream \o new
BY StreamTyped, ConcatAssociative DEF Stream

LEMMA PutOne ==
  ASSUME IInv, NEW e \in Item, queue' = Append(queue, e), UNCHANGED received
  PROVE  Stream' = Append(Stream, e)
<1>1. queue \in Seq(Item) /\ <<e>> \in Seq(Item) /\ Stream \in Seq(Item)
  BY StreamTyped
<1>2. queue' = queue \o <<e>>
  BY <1>1, AppendIsConcat
<1>3. Stream' = Stream \o <<e>>
  BY <1>1, <1>2, PutLengthens
<1> QED BY <1>1, <1>3, AppendIsConcat

(* Taking an event moves it, and the stream stays. *)
LEMMA TakeKeeps ==
  ASSUME IInv, queue # <<>>, queue' = Tail(queue), received' = Append(received, Head(queue))
  PROVE  Stream' = Stream
<1> DEFINE e == Head(queue)
           r == Tail(queue)
<1>1. queue \in Seq(Item) /\ received \in Seq(Item)
  BY StreamTyped
<1>2. e \in Item /\ r \in Seq(Item) /\ <<e>> \in Seq(Item)
  BY <1>1, HeadTailProperties
<1>3. queue = <<e>> \o r
  BY <1>1
<1> HIDE DEF e, r
<1>4. received' = received \o <<e>>
  BY <1>1, <1>2, AppendIsConcat DEF e
<1>5. (received \o <<e>>) \o r = received \o (<<e>> \o r)
  BY <1>1, <1>2, ConcatAssociative
<1> QED BY <1>3, <1>4, <1>5 DEF Stream, r

LEMMA StoryInit == Init => StoryInv
<1> SUFFICES ASSUME Init PROVE StoryInv
  OBVIOUS
<1>1. Stream = <<>>
  BY DEF Stream, Init
<1>2. <<>> \in Seq(Talk) /\ DOMAIN <<>> = {}
  BY EmptySeq
<1>3. Deltas(Stream) = {} /\ Said(Stream) = {} /\ InOrder(Stream)
  BY <1>1, <1>2 DEF Deltas, Said, InOrder
<1>4. Cardinality({}) = 0
  BY FS_EmptySet
<1>5. EngineInv
  BY <1>1, <1>3 DEF EngineInv, Init
<1>6. WholeInv
  BY <1>3, <1>4 DEF WholeInv, Init
<1>7. WordInv
  BY <1>1, <1>2 DEF WordInv, Init
<1> QED BY <1>5, <1>6, <1>7 DEF StoryInv

LEMMA SameStream ==
  ASSUME Stream' = Stream
  PROVE  /\ WholeInv /\ (Clean' => Clean) /\ UNCHANGED <<announced, made>> => WholeInv'
         /\ UNCHANGED verdict => (Told' <=> Told) /\ (Closed' <=> Closed)
<1>1. WholeInv /\ (Clean' => Clean) /\ UNCHANGED <<announced, made>> => WholeInv'
  BY DEF WholeInv
<1>2. UNCHANGED verdict => (Told' <=> Told) /\ (Closed' <=> Closed)
  BY DEF Told, Closed
<1> QED BY <1>1, <1>2

(* The engine between callbacks, and a cancellation that is lost. *)
LEMMA StoryEngine ==
  ASSUME IInv, StoryInv,
         StartWave \/ Synthesize \/ Ends \/ PhaseLosesCancel \/ WaveCancelled
  PROVE  StoryInv'
<1>0. /\ Stream' = Stream /\ UNCHANGED <<announced, made, consumer, queue>>
      /\ producer = "running" /\ producer' \in {"running", "reporting"} /\ verdict = "none"
      /\ (verdict' # "none" => producer' = "reporting")
      /\ failed \in BOOLEAN /\ failed' = failed /\ consumer # "ended"
      /\ alive' \subseteq Task /\ Stream \in Seq(Talk)
  <2>1. failed \in BOOLEAN /\ (verdict = "none" \/ producer # "running")
    BY DEF IInv, TypeOK, StoryInv, EngineInv
  <2>2. /\ UNCHANGED <<queue, received, announced, made, consumer, failed>>
        /\ producer = "running" /\ producer' \in {"running", "reporting"}
        /\ UNCHANGED verdict \/ producer' = "reporting"
    BY DEF StartWave, Wave, Synthesize, Ends, Over, PhaseLosesCancel, WaveCancelled,
           WaitsForWave, EngineRuns
  <2>3. IInv'
    BY EngineMoves
  <2> QED BY <2>1, <2>2, <2>3 DEF Stream, IInv, TypeOK, SidesInv, StoryInv, EngineInv, WordInv
<1>1. WholeInv'
  BY <1>0, SameStream DEF StoryInv, Clean
<1>2. WordInv'
  BY <1>0 DEF StoryInv, WordInv
<1>3. EngineInv'
  <2> USE <1>0 DEF StoryInv, EngineInv
  <2>1. CASE StartWave
    BY <2>1 DEF StartWave, Wave, EngineRuns
  <2>2. CASE Synthesize
    BY <2>2 DEF Synthesize, EngineRuns
  <2>3. CASE Ends
    BY <2>3 DEF Ends, Over, EngineRuns, IInv, SidesInv, AtWork
  <2>4. CASE PhaseLosesCancel
    BY <2>4 DEF PhaseLosesCancel, Wave, Over, IInv, SidesInv, AtWork
  <2>5. CASE WaveCancelled
    BY <2>5 DEF WaveCancelled, WaitsForWave
  <2> QED BY <2>1, <2>2, <2>3, <2>4, <2>5
<1> QED BY <1>1, <1>2, <1>3 DEF StoryInv

(* A task ends, in its wave or behind a producer that was cut. *)
LEMMA StoryTask ==
  ASSUME IInv, StoryInv, NEW t \in Task, TaskEnds(t) \/ TaskCancelled(t)
  PROVE  StoryInv'
<1>1. /\ t \in alive /\ alive' \subseteq alive
      /\ UNCHANGED <<queue, received, made, engine, verdict, announced, producer, consumer>>
      /\ AtWork /\ consumer # "ended"
  BY AliveWhere DEF TaskEnds, TaskRuns, TaskCancelled
<1>2. Stream' = Stream /\ Stream \in Seq(Talk) /\ verdict = "none"
  BY <1>1 DEF Stream, StoryInv, EngineInv
<1>3. failed \in BOOLEAN /\ failed' \in BOOLEAN /\ (failed => failed')
  BY Zenon DEF TaskEnds, TaskCancelled, IInv, TypeOK
<1>4. WholeInv'
  BY <1>1, <1>2, <1>3, SameStream DEF StoryInv, Clean
<1>5. WordInv'
  BY <1>1, <1>2, SameStream DEF StoryInv, WordInv
<1>6. EngineInv'
  <2>1. engine \in {"working", "over"} /\ producer # "idle"
    BY <1>1 DEF AtWork, IInv, SidesInv, StoryInv, EngineInv
  <2> QED BY <1>1, <1>2, <2>1 DEF StoryInv, EngineInv
<1> QED BY <1>4, <1>5, <1>6 DEF StoryInv

(* The generator, all but its taking a sentinel, and the cancelled task. *)
LEMMA StoryQuiet ==
  ASSUME IInv, StoryInv,
         \/ Begin \/ Resume \/ Leave \/ Discard \/ Left \/ Cancelled
         \/ Take /\ Head(queue) # Sentinel
         \/ UNCHANGED vars
  PROVE  StoryInv'
<1>1. Stream' = Stream
  <2>1. CASE Take /\ Head(queue) # Sentinel
    BY <2>1, TakeKeeps DEF Take
  <2>2. CASE \/ Begin \/ Resume \/ Leave \/ Discard \/ Left \/ Cancelled \/ UNCHANGED vars
    BY <2>2 DEF Begin, Resume, Leave, Discard, Left, Cancelled, Unwind, vars, Stream
  <2> QED BY <2>1, <2>2
<1>2. UNCHANGED <<announced, made, failed, verdict>>
  BY DEF Begin, Resume, Leave, Discard, Left, Cancelled, Take, vars, engineVars
<1>3. WholeInv'
  BY <1>1, <1>2, SameStream DEF StoryInv, Clean
<1>4. (Told' <=> Told) /\ (Closed' <=> Closed)
  BY <1>1, <1>2, SameStream
<1>5. CASE Begin
  <2>1. producer = "idle" /\ producer' = "running" /\ engine' = "planning" /\ UNCHANGED <<alive, queue>>
        /\ consumer' = "waiting" /\ alive = {}
    BY <1>5 DEF Begin, IInv, SidesInv, AtWork
  <2>2. Said(Stream) = {}
    BY <2>1 DEF StoryInv, EngineInv, Said
  <2>3. EngineInv'
    BY <1>1, <1>2, <2>1, <2>2 DEF StoryInv, EngineInv
  <2>4. WordInv'
    BY <1>1, <2>1 DEF StoryInv, WordInv
  <2> QED BY <1>3, <2>3, <2>4 DEF StoryInv
<1>6. CASE Cancelled
  <2>1. /\ producer \in Busy /\ producer' = "done" /\ engine' = "over"
        /\ UNCHANGED <<queue, consumer, alive>>
    BY <1>6 DEF Cancelled, Unwind, IInv, SidesInv
  <2>2. EngineInv'
    BY <1>1, <1>2, <2>1 DEF StoryInv, EngineInv
  <2>3. WordInv'
    BY <1>1, <1>4, <2>1 DEF StoryInv, WordInv, Busy
  <2> QED BY <1>3, <2>2, <2>3 DEF StoryInv
<1>7. CASE Resume \/ Leave \/ Discard \/ Left \/ UNCHANGED vars
  <2>1. /\ UNCHANGED <<producer, engine, alive, queue>>
        /\ consumer' = "ended" => consumer = "ended"
    BY <1>7 DEF Resume, Leave, Discard, Left, vars, engineVars
  <2>2. EngineInv'
    BY <1>1, <1>2, <2>1 DEF StoryInv, EngineInv
  <2>3. WordInv'
    BY <1>1, <1>4, <2>1 DEF StoryInv, WordInv
  <2> QED BY <1>3, <2>2, <2>3 DEF StoryInv
<1>8. CASE Take /\ Head(queue) # Sentinel
  <2>1. /\ UNCHANGED <<producer, engine, alive>>
        /\ consumer' = "reading"
    BY <1>8 DEF Take, engineVars
  <2>2. EngineInv'
    BY <1>1, <1>2, <2>1 DEF StoryInv, EngineInv
  <2>3. WordInv'
    BY <1>1, <1>4, <2>1 DEF StoryInv, WordInv
  <2> QED BY <1>3, <2>2, <2>3 DEF StoryInv
<1> QED BY <1>5, <1>6, <1>7, <1>8

(* What a callback that finds room puts, whole and in its place. *)
LEMMA PutCounts ==
  ASSUME NEW s \in Seq(Item), NEW e \in Talk
  PROVE  /\ Append(s, e) \in Seq(Item)
         /\ Cardinality(Deltas(Append(s, e))) =
              Cardinality(Deltas(s)) + IF IsDelta(e) THEN 1 ELSE 0
         /\ InOrder(s) /\ InPlace(e, Said(s)) => InOrder(Append(s, e))
         /\ Said(Append(s, e)) = Said(s) \cup {e}
         /\ s \in Seq(Talk) => Append(s, e) \in Seq(Talk)
<1>1. e \in Item
  BY Kinds
<1>2. s \in Seq(Talk) => Append(s, e) \in Seq(Talk)
  BY AppendProperties
<1> QED BY <1>1, <1>2, OneMore, OneMoreCounts

(* One or two events: a boundary, then the delta. *)
LEMMA PutBoth ==
  ASSUME IInv, NEW a \in Talk, NEW e \in Talk, NEW both \in BOOLEAN,
         queue' = queue \o ((IF both THEN <<a>> ELSE <<>>) \o <<e>>), UNCHANGED received
  PROVE  Stream' = IF both THEN Append(Append(Stream, a), e) ELSE Append(Stream, e)
<1>1. Stream \in Seq(Item) /\ a \in Item /\ e \in Item /\ <<>> \in Seq(Item)
  BY StreamTyped, Kinds, EmptySeq
<1>2. <<a>> \in Seq(Item) /\ <<e>> \in Seq(Item)
  BY <1>1
<1>3. CASE both
  <2>1. queue' = queue \o (<<a>> \o <<e>>) /\ <<a>> \o <<e>> \in Seq(Item)
    BY <1>2, <1>3, ConcatProperties
  <2>2. Stream' = Stream \o (<<a>> \o <<e>>)
    BY <2>1, PutLengthens
  <2>3. Stream' = (Stream \o <<a>>) \o <<e>>
    BY <1>1, <1>2, <2>2, ConcatAssociative
  <2>4. Stream \o <<a>> = Append(Stream, a) /\ Append(Stream, a) \in Seq(Item)
    BY <1>1, AppendIsConcat, AppendProperties
  <2>5. Append(Stream, a) \o <<e>> = Append(Append(Stream, a), e)
    BY <1>1, <2>4, AppendIsConcat
  <2> QED BY <1>3, <2>3, <2>4, <2>5
<1>4. CASE ~both
  <2>1. queue' = queue \o (<<>> \o <<e>>) /\ <<>> \o <<e>> = <<e>>
    BY <1>2, <1>4, ConcatEmptySeq
  <2>2. Stream' = Stream \o <<e>>
    BY <1>2, <2>1, PutLengthens
  <2> QED BY <1>1, <1>4, <2>2, AppendIsConcat
<1> QED BY <1>3, <1>4

(* What a full queue cuts short is talk still. *)
LEMMA PutTalk ==
  ASSUME IInv, Stream \in Seq(Talk), NEW events \in Seq(Talk), Offer(events), UNCHANGED received,
         queue \in Seq(Event)
  PROVE  Stream' \in Seq(Talk)
<1> DEFINE n == IF Fits(events) THEN Len(events) ELSE Room
           new == SubSeq(events, 1, n)
<1>1. Len(events) \in Nat /\ Room \in Int
  BY StreamAssumption DEF Room
<1>2. n \in Int /\ n <= Len(events)
  BY <1>1 DEF Fits
<1>3. \A i \in 1..n : events[i] \in Talk
  BY <1>1, <1>2
<1>4. new \in Seq(Talk)
  <2> HIDE DEF n
  <2> QED BY <1>2, <1>3, SubSeqProperties
<1>5. new \in Seq(Item)
  BY <1>4, Kinds
<1>6. queue' = queue \o new
  BY DEF Offer
<1> HIDE DEF new, n
<1>7. Stream' = Stream \o new
  BY <1>5, <1>6, PutLengthens
<1> QED BY <1>4, <1>7, ConcatProperties

(* on_worker and on_text with room: the whole of what they put. *)
LEMMA OfferAll ==
  ASSUME NEW events \in Seq(Talk), Fits(events), Offer(events)
  PROVE  queue' = queue \o events
<1>1. SubSeq(events, 1, Len(events)) = events
  <2> DEFINE t == SubSeq(events, 1, Len(events))
  <2>1. Len(events) \in Nat /\ \A i \in 1..Len(events) : events[i] \in Talk
    OBVIOUS
  <2>2. t \in Seq(Talk) /\ Len(t) = Len(events) /\ \A i \in 1..Len(events) : t[i] = events[i]
    BY <2>1
  <2> HIDE DEF t
  <2>3. t = events
    BY <2>1, <2>2, SeqEqual
  <2> QED BY <2>3 DEF t
<1> QED BY <1>1 DEF Offer

LEMMA TalkTyped ==
  /\ engine \in {"planning", "synthesizing"} => TextEvents \in Seq(Talk)
  /\ \A t \in Task : WorkerEvents(t) \in Seq(Talk)
<1>1. \A a, e \in Talk, both \in BOOLEAN : (IF both THEN <<a>> ELSE <<>>) \o <<e>> \in Seq(Talk)
  OBVIOUS
<1>2. engine \in {"planning", "synthesizing"} => TextEvents \in Seq(Talk)
  BY <1>1, Kinds DEF TextEvents, Crossing
<1>3. \A t \in Task : WorkerEvents(t) \in Seq(Talk)
  BY <1>1, Kinds DEF WorkerEvents
<1> QED BY <1>2, <1>3

(* on_text: planning talks to itself, synthesis crosses its boundary once. *)
LEMMA StoryText == ASSUME IInv, StoryInv, OnText PROVE StoryInv'
<1>1. /\ producer = "running" /\ engine \in {"planning", "synthesizing"}
      /\ made' = made + 1 /\ made \in Nat /\ alive = {} /\ ~failed /\ verdict = "none"
      /\ UNCHANGED <<alive, failed, consumer, received, todo>>
      /\ announced' = IF Crossing THEN announced \cup {"synthesis"} ELSE announced
      /\ Stream \in Seq(Talk) /\ Stream \in Seq(Item) /\ queue \in Seq(Event) /\ consumer # "ended"
      /\ Offer(TextEvents)
  BY StreamTyped, StreamAssumption DEF OnText, EngineRuns, IInv, TypeOK, SidesInv, AtWork, StoryInv, EngineInv, WordInv
<1>2. TextEvents \in Seq(Talk)
  BY <1>1, TalkTyped
<1>3. Stream' \in Seq(Talk)
  BY <1>1, <1>2, PutTalk
<1>4. CASE ~Fits(TextEvents)
  <2>1. engine' = "over" /\ verdict' = "failed" /\ producer' = "reporting"
    BY <1>4 DEF OnText, Over
  <2>2. EngineInv'
    BY <1>1, <2>1 DEF EngineInv
  <2>3. WholeInv' /\ WordInv'
    BY <1>1, <1>3, <2>1 DEF WholeInv, Clean, WordInv
  <2> QED BY <2>2, <2>3 DEF StoryInv
<1>5. CASE Fits(TextEvents)
  <2> DEFINE e == Delta(engine)
             b == Stage("synthesis")
             s == Append(Stream, b)
  <2>1. UNCHANGED <<engine, verdict, producer>>
    BY <1>5 DEF OnText
  <2>2. queue' = queue \o TextEvents
    BY <1>1, <1>2, <1>5, OfferAll
  <2>3. e \in Talk /\ b \in Talk /\ e.type = "phase" /\ b.type = "stage" /\ e # b
        /\ e # Stage("workers") /\ Stage("workers").type = "stage" /\ b # Stage("workers")
    BY <1>1, Kinds
  <2>4. Stream' = IF Crossing THEN Append(s, e) ELSE Append(Stream, e)
    BY <1>1, <2>2, <2>3, PutBoth DEF TextEvents, Crossing
  <2>5. /\ Cardinality(Deltas(Stream)) = made /\ InOrder(Stream)
        /\ \A x \in {"workers", "synthesis"} : x \in announced <=> Stage(x) \in Said(Stream)
    BY <1>1 DEF StoryInv, WholeInv, Clean
  <2>6. /\ s \in Seq(Item) /\ Said(s) = Said(Stream) \cup {b}
        /\ Cardinality(Deltas(s)) = made /\ InOrder(s)
    <3>1. InPlace(b, Said(Stream)) /\ ~IsDelta(b)
      <4>1. b # Delta("planning") /\ b # Delta("synthesizing")
        BY <2>3, Kinds
      <4> QED BY <2>3, <4>1 DEF InPlace, IsDelta
    <3>2. Cardinality(Deltas(s)) = Cardinality(Deltas(Stream)) + 0
      BY <1>1, <2>3, <3>1, PutCounts
    <3>3. Cardinality(Deltas(s)) = made
      BY <1>1, <2>5, <3>2
    <3> QED BY <1>1, <2>3, <2>5, <3>1, <3>3, PutCounts
  <2> HIDE DEF e, b, s
  <2>7. CASE Crossing
    <3>1. engine = "synthesizing" /\ e = Delta("synthesizing") /\ b = Stage("synthesis")
      BY <1>1, <2>7 DEF StoryInv, EngineInv, Crossing, e, b
    <3>2. InPlace(e, Said(s)) /\ IsDelta(e)
      <4>1. e # Delta("planning")
        BY <3>1, Kinds
      <4> QED BY <2>3, <2>6, <3>1, <4>1 DEF InPlace, IsDelta
    <3>3. /\ Cardinality(Deltas(Stream')) = made + 1 /\ InOrder(Stream')
          /\ Said(Stream') = (Said(Stream) \cup {b}) \cup {e}
      BY <2>3, <2>4, <2>6, <2>7, <3>2, PutCounts
    <3>4. \A x \in {"workers", "synthesis"} : x \in announced' <=> Stage(x) \in Said(Stream')
      BY <1>1, <2>3, <2>5, <2>7, <3>1, <3>3
    <3>5. WholeInv'
      BY <1>1, <3>3, <3>4 DEF WholeInv
    <3>6. EngineInv'
      BY <1>1, <2>1, <3>1 DEF StoryInv, EngineInv
    <3>7. WordInv'
      BY <1>1, <1>3, <2>1 DEF WordInv
    <3> QED BY <3>5, <3>6, <3>7 DEF StoryInv
  <2>8. CASE ~Crossing
    <3>1. InPlace(e, Said(Stream)) /\ IsDelta(e)
      <4>1. CASE engine = "planning"
        <5>1. e = Delta("planning") /\ e # Delta("synthesizing")
          BY <4>1, Kinds DEF e
        <5>2. \A x \in Said(Stream) : x.type = "phase"
          BY <4>1 DEF StoryInv, EngineInv
        <5> QED BY <2>3, <5>1, <5>2 DEF InPlace, IsDelta
      <4>2. CASE engine = "synthesizing"
        <5>1. e = Delta("synthesizing") /\ e # Delta("planning")
          BY <4>2, Kinds DEF e
        <5>2. Stage("workers") \in Said(Stream) => Stage("synthesis") \in Said(Stream)
          BY <2>5, <2>8 DEF Crossing
        <5> QED BY <2>3, <5>1, <5>2 DEF InPlace, IsDelta
      <4> QED BY <1>1, <4>1, <4>2
    <3>2. /\ Cardinality(Deltas(Stream')) = made + 1 /\ InOrder(Stream')
          /\ Said(Stream') = Said(Stream) \cup {e}
      BY <1>1, <2>3, <2>4, <2>5, <2>8, <3>1, PutCounts
    <3>3. \A x \in {"workers", "synthesis"} : x \in announced' <=> Stage(x) \in Said(Stream')
      BY <1>1, <2>3, <2>5, <2>8, <3>2 DEF b
    <3>4. WholeInv'
      BY <1>1, <3>2, <3>3 DEF WholeInv
    <3>5. EngineInv'
      BY <1>1, <2>1, <2>3, <2>8, <3>2 DEF StoryInv, EngineInv
    <3>6. WordInv'
      BY <1>1, <1>3, <2>1 DEF WordInv
    <3> QED BY <3>4, <3>5, <3>6 DEF StoryInv
  <2> QED BY <2>7, <2>8
<1> QED BY <1>4, <1>5

(* on_worker: behind the workers boundary, before the synthesis one. *)
LEMMA StoryWorker == ASSUME IInv, StoryInv, NEW t \in Task, OnWorker(t) PROVE StoryInv'
<1>0. t \in alive /\ AtWork /\ queue \in Seq(Event) /\ consumer # "ended"
  BY AliveWhere DEF OnWorker, TaskRuns
<1>1. /\ producer \in {"running", "done"} /\ engine \in {"working", "over"} /\ verdict = "none"
      /\ made' = made + 1 /\ made \in Nat
      /\ UNCHANGED <<engine, verdict, producer, consumer, received, todo>>
      /\ announced' = announced \cup {"workers"} /\ "synthesis" \notin announced
      /\ Stream \in Seq(Talk) /\ Stream \in Seq(Item) /\ queue \in Seq(Event) /\ consumer # "ended"
      /\ Offer(WorkerEvents(t)) /\ alive' \subseteq alive
  BY <1>0, StreamTyped, StreamAssumption
    DEF OnWorker, AtWork, IInv, TypeOK, SidesInv, StoryInv, EngineInv
<1>2. WorkerEvents(t) \in Seq(Talk)
  BY TalkTyped
<1>3. Stream' \in Seq(Talk)
  BY <1>1, <1>2, PutTalk
<1>4. EngineInv' /\ WordInv'
  BY <1>1, <1>3 DEF StoryInv, EngineInv, WordInv
<1>5. CASE ~Fits(WorkerEvents(t))
  <2>1. failed' = TRUE
    BY <1>5 DEF OnWorker
  <2> QED BY <1>4, <2>1 DEF StoryInv, WholeInv, Clean
<1>6. CASE Fits(WorkerEvents(t)) /\ ~failed
  <2> DEFINE both == "workers" \notin announced
             e == WorkerDelta(t)
             b == Stage("workers")
             s == IF both THEN Append(Stream, b) ELSE Stream
  <2>1. queue' = queue \o WorkerEvents(t)
    BY <1>1, <1>2, <1>6, OfferAll
  <2>2. e \in Talk /\ b \in Talk /\ e.type = "worker" /\ b.type = "stage" /\ e # b
        /\ e # Stage("synthesis") /\ b # Stage("synthesis") /\ ~IsDelta(b) /\ IsDelta(e)
        /\ e # Delta("planning") /\ e # Delta("synthesizing")
        /\ b # Delta("planning") /\ b # Delta("synthesizing")
    BY Kinds DEF IsDelta
  <2>3. Stream' = Append(s, e)
    BY <1>1, <2>1, <2>2, PutBoth DEF WorkerEvents
  <2>4. /\ Cardinality(Deltas(Stream)) = made /\ InOrder(Stream)
        /\ \A x \in {"workers", "synthesis"} : x \in announced <=> Stage(x) \in Said(Stream)
    BY <1>1, <1>6 DEF StoryInv, WholeInv, Clean
  <2>5. /\ s \in Seq(Item) /\ Said(s) = Said(Stream) \cup {b}
        /\ Cardinality(Deltas(s)) = made /\ InOrder(s)
    <3>1. CASE both
      <4>1. InPlace(b, Said(Stream))
        BY <2>2 DEF InPlace
      <4>2. Cardinality(Deltas(s)) = Cardinality(Deltas(Stream)) + 0
        BY <1>1, <2>2, <3>1, PutCounts
      <4>3. Cardinality(Deltas(s)) = made
        BY <1>1, <2>4, <4>2
      <4> QED BY <1>1, <2>2, <2>4, <3>1, <4>1, <4>3, PutCounts
    <3>2. CASE ~both
      BY <1>1, <2>4, <3>2
    <3> QED BY <3>1, <3>2
  <2> HIDE DEF e, b, s
  <2>6. InPlace(e, Said(s))
    BY <1>1, <2>2, <2>4, <2>5 DEF InPlace, b
  <2>7. /\ Cardinality(Deltas(Stream')) = made + 1 /\ InOrder(Stream')
        /\ Said(Stream') = (Said(Stream) \cup {b}) \cup {e}
    BY <2>2, <2>3, <2>5, <2>6, PutCounts
  <2>8. \A x \in {"workers", "synthesis"} : x \in announced' <=> Stage(x) \in Said(Stream')
    BY <1>1, <2>2, <2>4, <2>7 DEF b
  <2>9. WholeInv'
    BY <1>1, <2>7, <2>8 DEF WholeInv
  <2> QED BY <1>4, <2>9 DEF StoryInv
<1>7. CASE Fits(WorkerEvents(t)) /\ failed
  <2>1. failed' = failed
    BY <1>7 DEF OnWorker
  <2> QED BY <1>4, <1>7, <2>1 DEF StoryInv, WholeInv, Clean
<1> QED BY <1>5, <1>6, <1>7

(* The one word, and what closes the stream behind it, are no talk. *)
LEMMA LastPuts ==
  ASSUME NEW s \in Seq(Item), NEW e \in {Terminal(v) : v \in Words} \cup {Sentinel}
  PROVE  /\ Cardinality(Deltas(Append(s, e))) = Cardinality(Deltas(s))
         /\ InOrder(Append(s, e)) <=> InOrder(s)
         /\ \A b \in {"workers", "synthesis"} :
              Stage(b) \in Said(Append(s, e)) <=> Stage(b) \in Said(s)
<1>1. e \in Item /\ e.type \in {"result", "error", "end"}
  BY Kinds
<1>2. /\ ~IsDelta(e) /\ e # Stage("workers") /\ e # Stage("synthesis")
      /\ e # Delta("planning") /\ e # Delta("synthesizing") /\ e.type # "worker"
  BY <1>1, Kinds DEF IsDelta
<1>3. InPlace(e, Said(s))
  BY <1>2 DEF InPlace
<1>4. Cardinality(Deltas(Append(s, e))) = Cardinality(Deltas(s)) + 0
  BY <1>1, <1>2, OneMoreCounts
<1>5. Cardinality(Deltas(s)) \in Nat
  BY DeltasFinite
<1> QED BY <1>1, <1>2, <1>3, <1>4, <1>5, OneMore, OneMoreCounts

LEMMA StoryReport == ASSUME IInv, StoryInv, Report PROVE StoryInv'
<1>1. /\ producer = "reporting" /\ producer' = "ending" /\ verdict \in Words
      /\ UNCHANGED <<engineVars, consumer, received>> /\ queue' = Append(queue, Terminal(verdict))
      /\ Stream \in Seq(Talk) /\ Stream \in Seq(Item) /\ consumer # "ended"
  BY StreamTyped DEF Report, IInv, SidesInv, StoryInv, WordInv, Words
<1>2. Terminal(verdict) \in Item
  BY <1>1, Kinds
<1>3. Stream' = Append(Stream, Terminal(verdict))
  BY <1>1, <1>2, PutOne
<1>4. WholeInv'
  BY <1>1, <1>3, LastPuts DEF StoryInv, WholeInv, Clean, engineVars
<1>5. Told'
  BY <1>1, <1>3 DEF Told, engineVars
<1>6. EngineInv'
  <2>1. engine # "planning"
    BY <1>1 DEF StoryInv, EngineInv
  <2>2. alive = {}
    BY <1>1 DEF IInv, SidesInv, AtWork
  <2> QED BY <1>1, <2>1, <2>2 DEF StoryInv, EngineInv, engineVars
<1> QED BY <1>1, <1>4, <1>5, <1>6 DEF StoryInv, WordInv

LEMMA StoryEnd == ASSUME IInv, StoryInv, End PROVE StoryInv'
<1>1. /\ producer = "ending" /\ producer' = "done"
      /\ UNCHANGED <<engineVars, consumer, received>> /\ Told
      /\ queue' = Append(queue, Sentinel) \/ queue' = queue
      /\ Stream \in Seq(Item) /\ consumer # "ended"
  BY StreamTyped DEF End, IInv, SidesInv, StoryInv, WordInv
<1>2. EngineInv' /\ WholeInv' /\ (Told' \/ Closed')
  <2>1. CASE queue' = queue
    <3>1. Stream' = Stream
      BY <1>1, <2>1 DEF Stream
    <3>2. WholeInv' /\ Told'
      BY <1>1, <3>1, SameStream DEF StoryInv, Clean, engineVars
    <3>3. EngineInv'
      BY <1>1, <3>1 DEF StoryInv, EngineInv, engineVars
    <3> QED BY <3>2, <3>3
  <2>2. CASE queue' = Append(queue, Sentinel)
    <3>1. Stream' = Append(Stream, Sentinel)
      BY <1>1, <2>2, PutOne, Kinds
    <3>2. WholeInv'
      BY <1>1, <3>1, LastPuts DEF StoryInv, WholeInv, Clean, engineVars
    <3>3. Closed'
      BY <1>1, <3>1 DEF Told, Closed, engineVars
    <3>4. engine # "planning" /\ alive = {}
      BY <1>1 DEF StoryInv, EngineInv, IInv, SidesInv, AtWork
    <3> QED BY <1>1, <3>2, <3>3, <3>4 DEF StoryInv, EngineInv, engineVars
  <2> QED BY <1>1, <2>1, <2>2
<1> QED BY <1>1, <1>2 DEF StoryInv, WordInv

(* The sentinel is the last there is, so the client has read what precedes it. *)
LEMMA StoryClosed ==
  ASSUME IInv, StoryInv, Take, Head(queue) = Sentinel
  PROVE  StoryInv'
<1>1. /\ queue # <<>> /\ queue' = Tail(queue) /\ consumer' = "ended"
      /\ UNCHANGED <<received, engineVars, producer>>
      /\ queue \in Seq(Item) /\ received \in Seq(Item) /\ Stream \in Seq(Item)
      /\ producer = "done"
  <2>1. producer = "done"
    <3>1. producer # "done" => queue \in Seq(Event)
      BY DEF IInv, SidesInv
    <3>2. queue # <<>>
      BY DEF Take
    <3> QED BY <3>1, <3>2, SentinelNoEvent, HeadTailProperties
  <2> QED BY <2>1, StreamTyped DEF Take
<1> DEFINE m == Len(received) + 1
<1>2. /\ Len(received) \in Nat /\ Len(queue) \in Nat /\ Len(queue) >= 1
      /\ Len(Stream) = Len(received) + Len(queue)
      /\ Stream[m] = Sentinel /\ m \in 1..Len(Stream)
      /\ \A i \in 1..Len(received) : Stream[i] = received[i]
  <2>1. Len(received) \in Nat /\ Len(queue) \in Nat /\ Len(queue) >= 1 /\ queue[1] = Sentinel
    BY <1>1
  <2> QED BY <1>1, <2>1, ConcatProperties DEF Stream
<1>3. \A e \in Talk : e # Sentinel
  BY Kinds
<1>4. \A v \in Words : Terminal(v) # Sentinel /\ Terminal(v) \in Item
  BY Kinds
<1>5. Closed
  <2>1. Stream \notin Seq(Talk)
    BY <1>2, <1>3
  <2>2. ~Told
    <3> SUFFICES ASSUME Told PROVE FALSE
      OBVIOUS
    <3>1. PICK s \in Seq(Talk) : Stream = Append(s, Terminal(verdict))
      BY DEF Told
    <3>2. s \in Seq(Item) /\ Terminal(verdict) \in Item /\ Terminal(verdict) # Sentinel
      BY <1>4, Kinds DEF Told
    <3>3. /\ Len(Stream) = Len(s) + 1 /\ Stream[Len(s) + 1] = Terminal(verdict)
          /\ \A i \in 1..Len(s) : Stream[i] = s[i] /\ s[i] \in Talk
      BY <3>1, <3>2, AppendProperties
    <3>4. Len(s) \in Nat
      BY <3>1
    <3> QED BY <1>2, <1>3, <3>2, <3>3, <3>4
  <2> QED BY <1>1, <2>1, <2>2 DEF StoryInv, WordInv
<1>6. PICK s \in Seq(Talk) : Stream = Append(Append(s, Terminal(verdict)), Sentinel)
  BY <1>5 DEF Closed
<1> DEFINE t == Append(s, Terminal(verdict))
<1>7. /\ verdict \in Words /\ s \in Seq(Item) /\ Terminal(verdict) \in Item
      /\ Terminal(verdict) # Sentinel /\ Sentinel \in Item
  BY <1>4, <1>5, Kinds DEF Closed
<1>8. /\ t \in Seq(Item) /\ Len(t) = Len(s) + 1 /\ Len(s) \in Nat
      /\ \A i \in 1..Len(t) : t[i] # Sentinel
  <2>1. t \in Seq(Item) /\ Len(t) = Len(s) + 1 /\ Len(s) \in Nat
    BY <1>7, AppendProperties
  <2>2. t[Len(s) + 1] = Terminal(verdict) /\ \A i \in 1..Len(s) : t[i] = s[i] /\ s[i] \in Talk
    BY <1>7, AppendProperties
  <2> HIDE DEF t
  <2> QED BY <1>3, <1>7, <2>1, <2>2
<1>9. Stream = Append(t, Sentinel)
  BY <1>6
<1> HIDE DEF t
<1>10. Len(Stream) = Len(t) + 1 /\ \A i \in 1..Len(t) : Stream[i] = t[i]
  BY <1>7, <1>8, <1>9, AppendProperties
<1>11. m = Len(t) + 1
  BY <1>2, <1>8, <1>10
<1>12. received = t
  <2>1. Len(received) = Len(t)
    BY <1>2, <1>8, <1>11
  <2>2. \A i \in 1..Len(received) : received[i] = t[i]
    BY <1>2, <1>10, <2>1
  <2> QED BY <1>1, <1>8, <2>1, <2>2, SeqEqual
<1>13. queue' = <<>>
  <2>1. Len(queue) = 1
    <3>1. /\ Len(received) \in Nat /\ Len(queue) \in Nat
          /\ Len(Stream) = Len(received) + Len(queue)
      BY <1>2
    <3>2. Len(Stream) = Len(received) + 1
      BY <1>10, <1>12
    <3>3. \A a, b \in Nat : a + b = a + 1 => b = 1
      OBVIOUS
    <3>4. Len(received) + Len(queue) = Len(received) + 1
      BY <3>1, <3>2
    <3> QED BY <3>1, <3>3, <3>4
  <2>2. Tail(queue) \in Seq(Item) /\ Len(Tail(queue)) = 0
    BY <1>1, <2>1, HeadTailProperties
  <2>3. Tail(queue) = <<>>
    <3> DEFINE r == Tail(queue)
    <3>1. r \in Seq(Item) /\ Len(r) = 0
      BY <2>2
    <3> HIDE DEF r
    <3>2. r = <<>>
      BY <3>1
    <3> QED BY <3>2 DEF r
  <2> QED BY <1>1, <2>3
<1>14. Stream' = t
  BY <1>1, <1>12, <1>13, ConcatEmptySeq DEF Stream
<1>15. Told'
  BY <1>7, <1>1, <1>14 DEF Told, engineVars, t
<1>16. WholeInv'
  BY <1>1, <1>8, <1>9, <1>14, LastPuts DEF StoryInv, WholeInv, Clean, engineVars
<1>17. EngineInv'
  <2>1. Said(Stream') \subseteq Said(Stream)
    BY <1>7, <1>8, <1>9, <1>14, OneMore
  <2>2. queue \notin Seq(Event)
    BY <1>1, SentinelNoEvent, HeadTailProperties
  <2>3. alive = {}
    BY <1>1, <2>2 DEF IInv, SidesInv, AtWork
  <2> QED BY <1>1, <2>1, <2>3 DEF StoryInv, EngineInv, engineVars
<1> QED BY <1>1, <1>13, <1>15, <1>16, <1>17 DEF StoryInv, WordInv

LEMMA StoryStep == IInv /\ StoryInv /\ [Next]_vars => StoryInv'
BY StoryEngine, StoryTask, StoryQuiet, StoryText, StoryWorker, StoryReport, StoryEnd, StoryClosed
   DEF Next, ProducerStep, EngineStep, ConsumerStep

LEMMA StoryHolds == Spec => [](IInv /\ StoryInv)
<1> QED BY InitIInv, StoryInit, StepIInv, StoryStep, PTL DEF Spec

-----------------------------------------------------------------------------
(* The client sees the beginning of the stream; once it has seen a word, it *)
(* has seen all but the sentinel.                                           *)
LEMMA WordSeen ==
  ASSUME IInv, StoryInv, NEW i \in 1..Len(received), IsTerminal(received[i])
  PROVE  /\ i = Len(received) /\ verdict \in Words /\ received[i] = Terminal(verdict)
         /\ Stream = received \/ Stream = Append(received, Sentinel)
<1>1. /\ received \in Seq(Event) /\ received \in Seq(Item) /\ Stream \in Seq(Item)
      /\ Len(received) \in Nat /\ Len(Stream) >= Len(received) /\ Len(Stream) \in Nat
      /\ \A j \in 1..Len(received) : Stream[j] = received[j]
  <2>1. received \in Seq(Item) /\ queue \in Seq(Item) /\ Stream \in Seq(Item) /\ received \in Seq(Event)
    BY StreamTyped DEF IInv, TypeOK
  <2>2. Len(Stream) = Len(received) + Len(queue) /\ Len(received) \in Nat /\ Len(queue) \in Nat
    BY <2>1, ConcatProperties DEF Stream
  <2>3. \A j \in 1..Len(received) : Stream[j] = received[j]
    BY <2>1, <2>2, ConcatProperties DEF Stream
  <2> QED BY <2>1, <2>2, <2>3
<1>2. Stream \notin Seq(Talk)
  <2>1. \A e \in Talk : ~IsTerminal(e)
    BY Kinds DEF IsTerminal
  <2> QED BY <1>1, <2>1
<1>3. Told \/ Closed
  BY <1>2 DEF StoryInv, WordInv, IInv, TypeOK
<1>4. PICK s \in Seq(Talk) : \/ Stream = Append(s, Terminal(verdict))
                             \/ Stream = Append(Append(s, Terminal(verdict)), Sentinel)
  BY <1>3 DEF Told, Closed
<1> DEFINE t == Append(s, Terminal(verdict))
           n == Len(s) + 1
<1>5. /\ verdict \in Words /\ s \in Seq(Item) /\ Terminal(verdict) \in Item /\ Sentinel \in Item
      /\ ~IsTerminal(Sentinel) /\ \A e \in Talk : ~IsTerminal(e)
  BY <1>3, Kinds DEF Told, Closed, IsTerminal
<1>6. /\ t \in Seq(Item) /\ Len(t) = n /\ n \in Nat \ {0} /\ t[n] = Terminal(verdict)
      /\ \A j \in 1..(n - 1) : ~IsTerminal(t[j])
  <2>1. t \in Seq(Item) /\ Len(t) = n /\ n \in Nat \ {0} /\ t[n] = Terminal(verdict)
    BY <1>5, AppendProperties
  <2>2. \A j \in 1..Len(s) : t[j] = s[j] /\ s[j] \in Talk
    BY <1>5, AppendProperties
  <2>3. \A j \in 1..(n - 1) : j \in 1..Len(s)
    OBVIOUS
  <2> QED BY <1>5, <2>1, <2>2, <2>3
<1>7. Stream = t \/ Stream = Append(t, Sentinel)
  BY <1>4
<1> HIDE DEF t, n
<1>8. CASE Stream = t
  <2>1. i = n /\ Len(received) = n
    BY <1>1, <1>6, <1>8
  <2>2. received = t
    BY <1>1, <1>6, <1>8, <2>1, SeqEqual
  <2> QED BY <1>1, <1>5, <1>6, <1>8, <2>1, <2>2
<1>9. CASE Stream = Append(t, Sentinel)
  <2>1. /\ Len(Stream) = n + 1 /\ Stream[n + 1] = Sentinel
        /\ \A j \in 1..n : Stream[j] = t[j]
    BY <1>5, <1>6, <1>9, AppendProperties
  <2>2. Len(received) # n + 1
    <3> SUFFICES ASSUME Len(received) = n + 1 PROVE FALSE
      OBVIOUS
    <3>1. n + 1 \in 1..Len(received)
      BY <1>6
    <3>2. received[n + 1] = Sentinel
      BY <1>1, <2>1, <3>1
    <3> QED BY <1>1, <3>1, <3>2, SentinelNoEvent
  <2>3. Len(received) = n /\ i = n
    BY <1>1, <1>6, <2>1, <2>2
  <2>4. received = t
    BY <1>1, <1>6, <2>1, <2>3, SeqEqual
  <2> QED BY <1>5, <1>6, <1>9, <2>3, <2>4
<1> QED BY <1>7, <1>8, <1>9

(* A client that is shown a success has been shown all of it, in order.    *)
LEMMA SuccessSeen ==
  ASSUME IInv, StoryInv, ShowsSuccess
  PROVE  Cardinality(Deltas(received)) = made /\ InOrder(received)
<1>1. PICK i \in DOMAIN received : received[i] = Terminal("success")
  BY DEF ShowsSuccess
<1>2. received \in Seq(Item) /\ DOMAIN received = 1..Len(received)
  BY StreamTyped
<1>3. IsTerminal(received[i]) /\ "success" \in Words
  BY <1>1, Kinds DEF IsTerminal, Words
<1>4. /\ verdict \in Words /\ received[i] = Terminal(verdict)
      /\ Stream = received \/ Stream = Append(received, Sentinel)
  BY <1>2, <1>3, WordSeen
<1>5. verdict = "success"
  BY <1>1, <1>4, Kinds
<1>6. Cardinality(Deltas(Stream)) = made /\ InOrder(Stream)
  BY <1>5 DEF StoryInv, EngineInv, WholeInv, Clean
<1> QED BY <1>2, <1>4, <1>6, LastPuts

(* A client that reads to the end is given one word, the last, and a       *)
(* success only over a stream with no delta missing: what put_nowait on a  *)
(* full queue, cancellation and the sentinel of stream_events could break. *)
THEOREM EndingTrue == Spec => []EndingIsTrue
<1>1. IInv /\ StoryInv => LastWord
  <2> SUFFICES ASSUME IInv, StoryInv PROVE LastWord
    OBVIOUS
  <2>1. \A i \in 1..Len(received) : IsTerminal(received[i]) => i = Len(received)
    BY WordSeen
  <2>2. consumer = "ended" => received # <<>> /\ IsTerminal(received[Len(received)])
    <3> SUFFICES ASSUME consumer = "ended"
                 PROVE  received # <<>> /\ IsTerminal(received[Len(received)])
      OBVIOUS
    <3>1. Told /\ queue = <<>> /\ received \in Seq(Item)
      BY StreamTyped DEF StoryInv, WordInv
    <3>2. Stream = received
      BY <3>1, ConcatEmptySeq DEF Stream
    <3>3. PICK s \in Seq(Talk) : received = Append(s, Terminal(verdict))
      BY <3>1, <3>2 DEF Told
    <3>4. s \in Seq(Item) /\ Terminal(verdict) \in Item /\ IsTerminal(Terminal(verdict))
      BY <3>1, Kinds DEF Told, IsTerminal
    <3>5. received # <<>> /\ Len(received) = Len(s) + 1 /\ received[Len(s) + 1] = Terminal(verdict)
      BY <3>3, <3>4, AppendProperties
    <3> QED BY <3>4, <3>5
  <2> QED BY <2>1, <2>2 DEF LastWord
<1>2. IInv /\ StoryInv => NoHoleInSuccess
  BY SuccessSeen DEF NoHoleInSuccess
<1> QED BY <1>1, <1>2, StoryHolds, PTL DEF EndingIsTrue

(* The boundaries stage puts are where the phases change, whatever order   *)
(* the callbacks of parallel tasks come in.                                *)
THEOREM BoundariesInPlace == Spec => []BoundariesTrue
<1>1. IInv /\ StoryInv => BoundariesTrue
  BY SuccessSeen DEF BoundariesTrue
<1> QED BY <1>1, StoryHolds, PTL


-----------------------------------------------------------------------------
(* The slots of the application. *)

(* Where a response may be when its background task is owed, when its slot
   has been given back, and when it has no runtime at work. *)
Gone == {"abandoned", "finalizing", "closed"}
PlacesInv ==
  /\ \A r \in background \cup released : response[r] \in Gone
  /\ \A r \in Id : response[r] \in {"none", "claimed", "sendingLast", "closed"} =>
                     runtime[r] # "running"

WebInv == WebTypeOK /\ SlotsCounted /\ LimitHolds /\ PlacesInv

tableVars == <<issued, pending, stale>>

-----------------------------------------------------------------------------
LEMMA TablesFinite ==
  ASSUME WebTypeOK
  PROVE  /\ IsFiniteSet(pending) /\ IsFiniteSet(Waiting) /\ IsFiniteSet(Opened)
         /\ Cardinality(pending) \in Nat /\ Cardinality(Waiting) \in Nat
         /\ Cardinality(Waiting) <= Cardinality(pending)
<1>1. pending \in SUBSET issued /\ Opened \in SUBSET issued /\ IsFiniteSet(issued)
  BY DEF WebTypeOK
<1>2. IsFiniteSet(pending) /\ IsFiniteSet(Opened)
  BY <1>1, FS_Subset
<1>3. Waiting \in SUBSET pending
  BY DEF Waiting
<1> QED BY <1>2, <1>3, FS_Subset, FS_CardinalityType

(* A response that moves among the states of an opened stream changes
   nothing of which streams are opened. *)
LEMMA MovesOpened ==
  ASSUME WebTypeOK, NEW r \in Id, NEW from, NEW to \in Response \ {"none"},
         from \subseteq Response \ {"none"}, Moves(r, from, to)
  PROVE  /\ r \in Opened /\ response[r] \in from /\ response'[r] = to
         /\ response' \in [Id -> Response]
         /\ \A s \in Id : s # r => response'[s] = response[s]
         /\ Opened' = Opened
BY DEF Moves, WebTypeOK, Opened

(* Release gives back one slot, the first time. *)
LEMMA ReleaseCounts ==
  ASSUME WebTypeOK, SlotsCounted, NEW r \in Opened, Release(r), Opened' = Opened
  PROVE  /\ SlotsCounted' /\ active' \in Nat /\ active' <= active
         /\ released' = released \cup {r}
<1>1. IsFiniteSet(Opened \ released) /\ active \in Nat
  BY TablesFinite, FS_Difference DEF WebTypeOK
<1>2. CASE r \in released
  BY <1>1, <1>2 DEF Release, SlotsCounted
<1>3. CASE r \notin released
  <2>1. active' = active - 1 /\ released' = released \cup {r}
    BY <1>3 DEF Release
  <2>2. Opened' \ released' = (Opened \ released) \ {r} /\ r \in Opened \ released
    BY <1>3, <2>1
  <2>3. /\ Cardinality((Opened \ released) \ {r}) = Cardinality(Opened \ released) - 1
        /\ Cardinality((Opened \ released) \ {r}) \in Nat
    BY <1>1, <2>2, FS_RemoveElement, FS_CardinalityType
  <2> QED BY <1>1, <2>1, <2>2, <2>3 DEF SlotsCounted
<1> QED BY <1>2, <1>3

(* A step that leaves the counter and the slots alone, and no goal waiting
   that was not, keeps the two counts. *)
LEMMA CountsStay ==
  ASSUME WebTypeOK, SlotsCounted, LimitHolds, Opened' = Opened,
         active' = active, released' = released, pending' \in SUBSET pending
  PROVE  SlotsCounted' /\ LimitHolds'
<1>1. Cardinality(pending') <= Cardinality(pending) /\ Cardinality(pending') \in Nat
  BY TablesFinite, FS_Subset, FS_CardinalityType
<1>2. active \in Nat /\ Cardinality(pending) \in Nat /\ Max \in Nat
  BY TablesFinite, MaxAssumption DEF WebTypeOK
<1> QED BY <1>1, <1>2 DEF SlotsCounted, LimitHolds

(* So does a step that releases, with the table as it is. *)
LEMMA CountsFall ==
  ASSUME WebTypeOK, SlotsCounted, LimitHolds, NEW r \in Opened, Release(r), Opened' = Opened,
         UNCHANGED tableVars
  PROVE  /\ SlotsCounted' /\ LimitHolds' /\ active' \in Nat
         /\ released' = released \cup {r}
<1>1. /\ SlotsCounted' /\ active' \in Nat /\ active' <= active
      /\ released' = released \cup {r}
  BY ReleaseCounts
<1>2. pending' = pending /\ Cardinality(pending) \in Nat /\ active \in Nat /\ Max \in Nat
  BY TablesFinite, MaxAssumption DEF WebTypeOK, tableVars
<1> QED BY <1>1, <1>2 DEF LimitHolds

-----------------------------------------------------------------------------
(* The table of goals. *)
LEMMA TableStep ==
  ASSUME WebInv, NEW r \in Id,
         Expire(r) \/ CreateRun(r) \/ RefuseRun \/ OpenTooLate(r)
  PROVE  WebInv'
<1> USE DEF WebInv
<1>1. Opened' = Opened /\ active' = active /\ released' = released
  BY DEF Expire, CreateRun, RefuseRun, OpenTooLate, Opened
<1>2. PlacesInv'
  BY DEF Expire, CreateRun, RefuseRun, OpenTooLate, PlacesInv
<1>3. CASE Expire(r) \/ RefuseRun \/ OpenTooLate(r)
  <2>1. WebTypeOK'
    BY <1>1, <1>3 DEF WebTypeOK, Expire, RefuseRun, OpenTooLate, Waiting
  <2>2. pending' \in SUBSET pending
    BY <1>3 DEF Expire, RefuseRun, OpenTooLate, Waiting
  <2> QED BY <1>1, <1>2, <2>1, <2>2, CountsStay
<1>4. CASE CreateRun(r)
  <2>1. IsFiniteSet(issued')
    BY <1>4, FS_AddElement DEF CreateRun, WebTypeOK
  <2>2. WebTypeOK'
    BY <1>1, <1>4, <2>1 DEF WebTypeOK, CreateRun, Waiting
  <2>3. SlotsCounted'
    BY <1>1 DEF SlotsCounted
  <2>4. Cardinality(pending') <= Cardinality(Waiting) + 1 /\ Cardinality(pending') \in Nat
    <3>1. pending' = Waiting \cup {r} /\ IsFiniteSet(Waiting) /\ Cardinality(Waiting) \in Nat
      BY <1>4, TablesFinite DEF CreateRun
    <3>2. /\ IsFiniteSet(pending')
          /\ Cardinality(pending')
               = IF r \in Waiting THEN Cardinality(Waiting) ELSE Cardinality(Waiting) + 1
      BY <3>1, FS_AddElement
    <3> QED BY <3>1, <3>2
  <2>5. active + Cardinality(Waiting) < Max /\ Cardinality(Waiting) \in Nat /\ active \in Nat
    BY <1>4, TablesFinite DEF CreateRun, HasRoom, WebTypeOK
  <2>6. LimitHolds'
    BY <1>1, <2>4, <2>5, MaxAssumption DEF LimitHolds
  <2> QED BY <1>2, <2>2, <2>3, <2>6
<1> QED BY <1>3, <1>4

(* A goal becomes a stream: one waits less, one slot is taken more. *)
LEMMA OpenStep ==
  ASSUME WebInv, NEW r \in Id, OpenStream(r)
  PROVE  WebInv'
<1> USE DEF WebInv
<1>1. /\ r \in pending /\ r \notin Opened /\ r \notin released
      /\ Opened' = Opened \cup {r} /\ released' = released
  BY DEF OpenStream, Waiting, WebTypeOK, Opened, Response
<1>2. active' = active + 1 /\ active \in Nat /\ pending' = pending \ {r}
  BY DEF OpenStream, WebTypeOK
<1>3. WebTypeOK'
  BY <1>1, <1>2 DEF WebTypeOK, OpenStream, Waiting, Response
<1>4. SlotsCounted'
  <2>1. IsFiniteSet(Opened \ released)
    BY TablesFinite, FS_Difference
  <2>2. Opened' \ released' = (Opened \ released) \cup {r} /\ r \notin Opened \ released
    BY <1>1
  <2>3. Cardinality(Opened' \ released') = Cardinality(Opened \ released) + 1
    BY <2>1, <2>2, FS_AddElement
  <2> QED BY <1>2, <2>3 DEF SlotsCounted
<1>5. LimitHolds'
  <2>1. Cardinality(pending \ {r}) = Cardinality(pending) - 1 /\ Cardinality(pending) \in Nat
    BY <1>1, TablesFinite, FS_RemoveElement
  <2> QED BY <1>2, <2>1, MaxAssumption DEF LimitHolds
<1>6. PlacesInv'
  <2>1. response[r] = "none" /\ runtime[r] # "running"
    BY <1>1 DEF Opened, PlacesInv
  <2>2. /\ response'[r] = "claimed"
        /\ \A s \in Id : s # r => response'[s] = response[s]
        /\ runtime' = runtime /\ background' = background
    BY DEF OpenStream, WebTypeOK
  <2>3. r \notin background \cup released
    BY <2>1 DEF PlacesInv, Gone
  <2>4. background \cup released \subseteq Id
    BY DEF WebTypeOK, Opened
  <2> QED BY <1>1, <2>1, <2>2, <2>3, <2>4 DEF PlacesInv
<1> QED BY <1>3, <1>4, <1>5, <1>6

(* A stream goes on, and no slot moves. *)
LEMMA StreamStep ==
  ASSUME WebInv, NEW r \in Id,
         \/ Start(r) \/ BuildFails(r) \/ EngineEnds(r) \/ Yield(r) \/ YieldLast(r) \/ Sent(r)
         \/ DisconnectWaiting(r) \/ DisconnectSending(r) \/ Finalized(r)
  PROVE  WebInv'
<1> USE DEF WebInv
<1>1. UNCHANGED tableVars /\ active' = active /\ released' = released
  BY DEF Start, BuildFails, EngineEnds, Yield, YieldLast, Sent, DisconnectWaiting,
    DisconnectSending, Finalized, tableVars
<1>2. /\ Opened' = Opened /\ r \in Opened
      /\ response' \in [Id -> Response]
      /\ runtime' \in [Id -> {"idle", "running", "over"}]
      /\ background' \subseteq background \cup {r} /\ recorded' \subseteq recorded \cup {r}
  <2>1. CASE EngineEnds(r)
    BY <2>1 DEF EngineEnds, WebTypeOK, Opened, PlacesInv, Response
  <2>2. CASE ~EngineEnds(r)
    <3>1. \E from \in SUBSET (Response \ {"none"}), to \in Response \ {"none"} : Moves(r, from, to)
      BY <2>2 DEF Start, BuildFails, Yield, YieldLast, Sent, DisconnectWaiting,
        DisconnectSending, Finalized, Response
    <3>2. Opened' = Opened /\ r \in Opened /\ response' \in [Id -> Response]
      BY <3>1, MovesOpened
    <3> QED BY <2>2, <3>2 DEF Start, BuildFails, Yield, YieldLast, Sent, DisconnectWaiting,
          DisconnectSending, Finalized, WebTypeOK
  <2> QED BY <2>1, <2>2
<1>3. WebTypeOK'
  BY <1>1, <1>2 DEF WebTypeOK, tableVars
<1>4. SlotsCounted' /\ LimitHolds'
  BY <1>1, <1>2, CountsStay DEF tableVars
<1>5. PlacesInv'
  <2>1. \A s \in Id : s # r =>
          /\ response'[s] = response[s] /\ runtime'[s] = runtime[s]
          /\ s \in background' => s \in background
    BY DEF Start, BuildFails, EngineEnds, Yield, YieldLast, Sent, DisconnectWaiting,
      DisconnectSending, Finalized, Moves, WebTypeOK
  <2>2. /\ r \in background' \cup released' => response'[r] \in Gone
        /\ response'[r] \in {"none", "claimed", "sendingLast", "closed"} => runtime'[r] # "running"
    BY DEF Start, BuildFails, EngineEnds, Yield, YieldLast, Sent, DisconnectWaiting,
      DisconnectSending, Finalized, Moves, WebTypeOK, PlacesInv, Gone
  <2>3. background' \subseteq Id /\ released' \subseteq Id
    BY <1>3 DEF WebTypeOK, Opened
  <2> QED BY <1>1, <2>1, <2>2, <2>3 DEF PlacesInv
<1> QED BY <1>3, <1>4, <1>5

(* A stream ends one way or another, and releases. *)
LEMMA ReleaseStep ==
  ASSUME WebInv, NEW r \in Id,
         Complete(r) \/ BodyRaises(r) \/ Unwound(r) \/ Background(r) \/ Finalize(r)
  PROVE  WebInv'
<1> USE DEF WebInv
<1>1. UNCHANGED tableVars /\ Release(r) /\ runtime' = runtime
  BY DEF Complete, BodyRaises, Unwound, Background, Finalize, tableVars
<1>2. /\ Opened' = Opened /\ r \in Opened
      /\ response' \in [Id -> Response] /\ response'[r] \in Gone
      /\ \A s \in Id : s # r => response'[s] = response[s]
  <2>1. CASE Background(r)
    BY <2>1 DEF Background, WebTypeOK, Opened, PlacesInv
  <2>2. CASE ~Background(r)
    <3>1. \E from \in SUBSET (Response \ {"none"}), to \in Gone : Moves(r, from, to)
      BY <2>2 DEF Complete, BodyRaises, Unwound, Finalize, Gone, Response
    <3>2. Gone \subseteq Response \ {"none"}
      BY DEF Gone, Response
    <3> QED BY <3>1, <3>2, MovesOpened
  <2> QED BY <2>1, <2>2
<1>3. SlotsCounted' /\ LimitHolds' /\ active' \in Nat /\ released' = released \cup {r}
  BY <1>1, <1>2, CountsFall
<1>4. background' \subseteq background \cup {r} /\ recorded' \subseteq recorded \cup {r}
  BY DEF Complete, BodyRaises, Unwound, Background, Finalize
<1>5. WebTypeOK'
  BY <1>1, <1>2, <1>3, <1>4 DEF WebTypeOK, tableVars
<1>6. PlacesInv'
  <2>1. response'[r] \in {"none", "claimed", "sendingLast", "closed"} => runtime[r] # "running"
    BY DEF Complete, BodyRaises, Unwound, Background, Finalize, Moves, WebTypeOK, PlacesInv
  <2>2. background' \subseteq Id /\ released' \subseteq Id
    BY <1>5 DEF WebTypeOK, Opened
  <2> QED BY <1>1, <1>2, <1>3, <1>4, <2>1, <2>2 DEF PlacesInv
<1> QED BY <1>3, <1>5, <1>6

-----------------------------------------------------------------------------
LEMMA WebInitInv == WebInit => WebInv
<1> SUFFICES ASSUME WebInit PROVE WebInv
  OBVIOUS
<1>1. Opened = {} /\ Opened \ released = {}
  BY DEF WebInit, Opened
<1>2. WebTypeOK
  BY <1>1, FS_EmptySet DEF WebInit, WebTypeOK, Response
<1>3. SlotsCounted /\ LimitHolds
  BY <1>1, FS_EmptySet, MaxAssumption DEF WebInit, SlotsCounted, LimitHolds
<1>4. PlacesInv
  BY DEF WebInit, PlacesInv
<1> QED BY <1>2, <1>3, <1>4 DEF WebInv

LEMMA WebStepInv == WebInv /\ [WebNext]_webVars => WebInv'
<1> SUFFICES ASSUME WebInv, [WebNext]_webVars PROVE WebInv'
  OBVIOUS
<1>1. CASE UNCHANGED webVars
  BY <1>1 DEF webVars, WebInv, WebTypeOK, SlotsCounted, LimitHolds, PlacesInv, Opened
<1>2. CASE RefuseRun
  <2>1. CASE Id = {}
    BY <1>2, <2>1 DEF RefuseRun, WebInv, WebTypeOK, SlotsCounted, LimitHolds, PlacesInv, Opened, Waiting
  <2>2. ASSUME NEW r \in Id PROVE WebInv'
    BY <1>2, TableStep
  <2> QED BY <2>1, <2>2
<1>3. ASSUME NEW r \in Id, Expire(r) \/ CreateRun(r) \/ OpenTooLate(r) PROVE WebInv'
  BY <1>3, TableStep
<1>4. ASSUME NEW r \in Id, OpenStream(r) PROVE WebInv'
  BY <1>4, OpenStep
<1>5. ASSUME NEW r \in Id,
             \/ Start(r) \/ BuildFails(r) \/ EngineEnds(r) \/ Yield(r) \/ YieldLast(r) \/ Sent(r)
             \/ DisconnectWaiting(r) \/ DisconnectSending(r) \/ Finalized(r)
      PROVE  WebInv'
  BY <1>5, StreamStep
<1>6. ASSUME NEW r \in Id,
             Complete(r) \/ BodyRaises(r) \/ Unwound(r) \/ Background(r) \/ Finalize(r)
      PROVE  WebInv'
  BY <1>6, ReleaseStep
<1> QED BY <1>1, <1>2, <1>3, <1>4, <1>5, <1>6 DEF WebNext, ServerStep

THEOREM WebInductive == WebSpec => []WebInv
<1> QED BY WebInitInv, WebStepInv, PTL DEF WebSpec

(* Every table of create_app stays in its range, and an id is in one of them
   at a time. *)
THEOREM TablesTyped == WebSpec => []WebTypeOK
<1>1. WebInv => WebTypeOK
  BY DEF WebInv
<1> QED BY <1>1, WebInductive, PTL

(* release, reached once, twice or late, leaves the counter exact. *)
THEOREM SlotsExact == WebSpec => []SlotsCounted
<1>1. WebInv => SlotsCounted
  BY DEF WebInv
<1> QED BY <1>1, WebInductive, PTL

(* max_concurrent_runs holds for waiting and open streams together. *)
THEOREM LimitKept == WebSpec => []LimitHolds
<1>1. WebInv => LimitHolds
  BY DEF WebInv
<1> QED BY <1>1, WebInductive, PTL

(* Both: no goal is admitted over the limit by a counter gone astray. *)
THEOREM AdmissionExact == WebSpec => []LimitIsExact
BY SlotsExact, LimitKept, PTL DEF LimitIsExact

(* No way through a response gives the slot back under a running runtime whose
   client is still there. *)
THEOREM SlotOutlivesRun == WebSpec => []RunHoldsSlot
<1>1. WebInv => RunHoldsSlot
  BY DEF WebInv, WebTypeOK, PlacesInv, RunHoldsSlot, Running, Gone
<1> QED BY <1>1, WebInductive, PTL

(* An opaque run id is good for one stream. *)
THEOREM IdsUsedOnce == WebSpec => IdsSpentOnce
<1>1. WebInv /\ [WebNext]_webVars =>
        [\A r \in Id : response'[r] = "claimed" => response[r] \in {"none", "claimed"}]_webVars
  <2> SUFFICES ASSUME WebInv, WebNext, NEW r \in Id, response'[r] = "claimed"
               PROVE  response[r] \in {"none", "claimed"}
    OBVIOUS
  <2>1. CASE response' = response
    BY <2>1
  <2>2. ASSUME NEW s \in Id, OpenStream(s) PROVE response[r] \in {"none", "claimed"}
    BY <2>2 DEF OpenStream, Waiting, WebInv, WebTypeOK, Opened
  <2>3. ASSUME NEW s \in Id, NEW from, NEW to \in Response \ {"claimed"}, Moves(s, from, to)
        PROVE  response[r] \in {"none", "claimed"}
    BY <2>3 DEF Moves, WebInv, WebTypeOK
  <2>4. \/ response' = response
        \/ \E s \in Id : OpenStream(s)
        \/ \E s \in Id, to \in Response \ {"claimed"} : \E from \in SUBSET Response : Moves(s, from, to)
    BY DEF WebNext, ServerStep, RefuseRun, Expire, CreateRun, OpenTooLate, Start, BuildFails,
      EngineEnds, Yield, YieldLast, Sent, Complete, BodyRaises, DisconnectWaiting,
      DisconnectSending, Unwound, Background, Finalize, Finalized, Response
  <2> QED BY <2>1, <2>2, <2>3, <2>4
<1> QED BY <1>1, WebInductive, PTL DEF WebSpec, IdsSpentOnce

-----------------------------------------------------------------------------
(* Whether a response has begun its event stream. *)
BegunInv ==
  \A r \in Id :
    /\ response[r] \in {"none", "claimed"} => runtime[r] = "idle"
    /\ response[r] \in {"streaming", "sending", "closing", "finalizing"} => runtime[r] # "idle"

(* One step moves one stream at most. *)
StreamAct(r) ==
  \/ OpenStream(r) \/ Start(r) \/ BuildFails(r) \/ EngineEnds(r) \/ Yield(r) \/ YieldLast(r)
  \/ Sent(r) \/ Complete(r) \/ BodyRaises(r) \/ DisconnectWaiting(r) \/ DisconnectSending(r)
  \/ Unwound(r) \/ Finalize(r) \/ Finalized(r)

LEMMA OneStreamMoves ==
  ASSUME [WebNext]_webVars
  PROVE  \/ response' = response /\ runtime' = runtime
         \/ \E r \in Id : StreamAct(r)
BY DEF WebNext, ServerStep, webVars, StreamAct, RefuseRun, Expire, CreateRun, OpenTooLate, Background

LEMMA OthersStay ==
  ASSUME WebTypeOK, NEW r \in Id, StreamAct(r), NEW s \in Id, s # r
  PROVE  response'[s] = response[s] /\ runtime'[s] = runtime[s]
BY DEF StreamAct, OpenStream, Start, BuildFails, EngineEnds, Yield, YieldLast, Sent, Complete,
  BodyRaises, DisconnectWaiting, DisconnectSending, Unwound, Finalize, Finalized, Moves, WebTypeOK

(* What a step does to the stream it moves, by the places it goes between. *)
LEMMA StreamMoves ==
  ASSUME WebInv, BegunInv, NEW r \in Id, StreamAct(r)
  PROVE  LET p == response[r]  q == response'[r]  e == runtime[r]  f == runtime'[r]
         IN  \/ p = "none" /\ q = "claimed" /\ e = "idle" /\ f = e
             \/ p = "claimed" /\ q = "streaming" /\ e = "idle" /\ f = "running"
             \/ p = "claimed" /\ q \in {"sendingLast", "closed"} /\ e = "idle" /\ f = e
             \/ q = p /\ p \notin {"none", "claimed", "sendingLast", "closed"}
                  /\ e = "running" /\ f = "over"
             \/ p = "streaming" /\ q = "sending" /\ e # "idle" /\ f = e
             \/ p = "sending" /\ q = "streaming" /\ e # "idle" /\ f = e
             \/ p = "streaming" /\ q \in {"sendingLast", "closed"} /\ e = "over" /\ f = e
             \/ p = "sendingLast" /\ q \in {"closed", "abandoned"} /\ e # "running" /\ f = e
             \/ p = "streaming" /\ q = "closing" /\ e # "idle" /\ f = e
             \/ p = "sending" /\ q = "abandoned" /\ e # "idle" /\ f = e
             \/ p \in {"closing", "finalizing"} /\ q = "closed" /\ e = "over" /\ f = e
             \/ p = "abandoned" /\ q = "finalizing" /\ e # "idle" /\ f = e
             \/ p = "abandoned" /\ q = "closed" /\ e = "idle" /\ f = e
<1> USE DEF WebInv, WebTypeOK, BegunInv, PlacesInv, Moves
<1>1. CASE OpenStream(r)
  <2>1. response[r] = "none"
    BY <1>1 DEF OpenStream, Waiting, Opened
  <2> QED BY <1>1, <2>1 DEF OpenStream
<1>2. CASE Start(r) \/ BuildFails(r) \/ EngineEnds(r)
  BY <1>2 DEF Start, BuildFails, EngineEnds
<1>3. CASE Yield(r) \/ YieldLast(r) \/ Sent(r)
  BY <1>3 DEF Yield, YieldLast, Sent
<1>4. CASE Complete(r) \/ BodyRaises(r) \/ Unwound(r) \/ Finalized(r)
  BY <1>4 DEF Complete, BodyRaises, Unwound, Finalized
<1>5. CASE DisconnectWaiting(r) \/ DisconnectSending(r)
  BY <1>5 DEF DisconnectWaiting, DisconnectSending
<1>6. CASE Finalize(r)
  BY <1>6 DEF Finalize
<1> QED BY <1>1, <1>2, <1>3, <1>4, <1>5, <1>6 DEF StreamAct

LEMMA BegunStep ==
  ASSUME WebInv, BegunInv, [WebNext]_webVars
  PROVE  BegunInv'
<1>1. CASE response' = response /\ runtime' = runtime
  BY <1>1 DEF BegunInv
<1>2. ASSUME NEW r \in Id, StreamAct(r) PROVE BegunInv'
  <2>1. WebTypeOK
    BY DEF WebInv
  <2> SUFFICES ASSUME NEW s \in Id
               PROVE  /\ response'[s] \in {"none", "claimed"} => runtime'[s] = "idle"
                      /\ response'[s] \in {"streaming", "sending", "closing", "finalizing"} =>
                           runtime'[s] # "idle"
    BY DEF BegunInv
  <2>2. CASE s # r
    BY <1>2, <2>1, <2>2, OthersStay DEF BegunInv
  <2>3. CASE s = r
    BY <1>2, <2>3, StreamMoves
  <2> QED BY <2>2, <2>3
<1> QED BY <1>1, <1>2, OneStreamMoves

(* How a place and a state of the runtime look to StreamContract. *)
LEMMA Looks ==
  ASSUME NEW r \in Id
  PROVE  /\ response[r] \in {"none", "claimed"} => ReaderOf(r) = "new"
         /\ response[r] \in {"closing", "finalizing"} => ReaderOf(r) = "leaving"
         /\ response[r] = "closed" => ReaderOf(r) = "gone"
         /\ response[r] \in {"sendingLast", "abandoned"} /\ runtime[r] = "idle" => ReaderOf(r) = "gone"
         /\ response[r] \in {"streaming", "sending", "sendingLast", "abandoned"} /\ runtime[r] # "idle" =>
              ReaderOf(r) = "open"
         /\ response[r] \in {"closing", "finalizing"} /\ runtime[r] = "running" => RunOf(r) = "stopping"
         /\ response[r] \notin {"closing", "finalizing"} \/ runtime[r] # "running" => RunOf(r) = runtime[r]
BY DEF ReaderOf, RunOf

LEMMA LooksNext ==
  ASSUME NEW r \in Id
  PROVE  /\ response'[r] \in {"none", "claimed"} => ReaderOf(r)' = "new"
         /\ response'[r] \in {"closing", "finalizing"} => ReaderOf(r)' = "leaving"
         /\ response'[r] = "closed" => ReaderOf(r)' = "gone"
         /\ response'[r] \in {"sendingLast", "abandoned"} /\ runtime'[r] = "idle" => ReaderOf(r)' = "gone"
         /\ response'[r] \in {"streaming", "sending", "sendingLast", "abandoned"} /\ runtime'[r] # "idle" =>
              ReaderOf(r)' = "open"
         /\ response'[r] \in {"closing", "finalizing"} /\ runtime'[r] = "running" => RunOf(r)' = "stopping"
         /\ response'[r] \notin {"closing", "finalizing"} \/ runtime'[r] # "running" => RunOf(r)' = runtime'[r]
BY DEF ReaderOf, RunOf

LEMMA StreamKeepsContract ==
  ASSUME WebInv, BegunInv, [WebNext]_webVars, NEW s \in Id
  PROVE  StreamOf(s)!SNext \/ UNCHANGED StreamOf(s)!streamVars
<1> USE DEF StreamOf!streamVars, StreamOf!SNext, StreamOf!SBegin, StreamOf!SFinish, StreamOf!SDrained,
      StreamOf!SLeave, StreamOf!SDiscard, StreamOf!SLeft
<1>1. CASE response' = response /\ runtime' = runtime
  BY <1>1 DEF ReaderOf, RunOf
<1>2. ASSUME NEW r \in Id, StreamAct(r), s # r
      PROVE  UNCHANGED StreamOf(s)!streamVars
  BY <1>2, OthersStay DEF WebInv, ReaderOf, RunOf
<1>3. ASSUME StreamAct(s) PROVE StreamOf(s)!SNext \/ UNCHANGED StreamOf(s)!streamVars
  <2> DEFINE p == response[s]
             q == response'[s]
             e == runtime[s]
             f == runtime'[s]
  <2>1. p \in Response /\ e \in {"idle", "running", "over"}
    BY DEF WebInv, WebTypeOK
  <2>2. p \in {"streaming", "sending", "closing", "finalizing"} => e # "idle"
    BY DEF BegunInv
  <2>3. CASE p = "none" /\ q = "claimed" /\ e = "idle" /\ f = e
    BY <2>3, Looks, LooksNext
  <2>4. CASE p = "claimed" /\ q = "streaming" /\ e = "idle" /\ f = "running"
    BY <2>4, Looks, LooksNext
  <2>5. CASE p = "claimed" /\ q \in {"sendingLast", "closed"} /\ e = "idle" /\ f = e
    BY <2>5, Looks, LooksNext
  <2>6. CASE q = p /\ p \notin {"none", "claimed", "sendingLast", "closed"} /\ e = "running" /\ f = "over"
    BY <2>1, <2>6, Looks, LooksNext DEF Response
  <2>7. CASE \/ p = "streaming" /\ q = "sending" /\ e # "idle" /\ f = e
             \/ p = "sending" /\ q = "streaming" /\ e # "idle" /\ f = e
             \/ p = "sending" /\ q = "abandoned" /\ e # "idle" /\ f = e
    BY <2>7, Looks, LooksNext
  <2>8. CASE p = "streaming" /\ q \in {"sendingLast", "closed"} /\ e = "over" /\ f = e
    BY <2>8, Looks, LooksNext
  <2>9. CASE p = "sendingLast" /\ q \in {"closed", "abandoned"} /\ e # "running" /\ f = e
    BY <2>1, <2>9, Looks, LooksNext
  <2>10. CASE p = "streaming" /\ q = "closing" /\ e # "idle" /\ f = e
    BY <2>1, <2>10, Looks, LooksNext
  <2>11. CASE p \in {"closing", "finalizing"} /\ q = "closed" /\ e = "over" /\ f = e
    BY <2>11, Looks, LooksNext
  <2>12. CASE p = "abandoned" /\ q = "finalizing" /\ e # "idle" /\ f = e
    BY <2>1, <2>12, Looks, LooksNext
  <2>13. CASE p = "abandoned" /\ q = "closed" /\ e = "idle" /\ f = e
    BY <2>13, Looks, LooksNext
  <2> QED BY <1>3, <2>3, <2>4, <2>5, <2>6, <2>7, <2>8, <2>9, <2>10, <2>11, <2>12, <2>13, StreamMoves
<1> QED BY <1>1, <1>2, <1>3, OneStreamMoves

(* Every stream the application opens is used as StreamContract has it, so
   what EventStream guarantees is what the slots are counted upon. *)
THEOREM StreamsUsedByContract == WebSpec => StreamsKeepContract
<1>1. WebInit => BegunInv /\ \A r \in Id : StreamOf(r)!SInit
  <2> SUFFICES ASSUME WebInit PROVE BegunInv /\ \A r \in Id : StreamOf(r)!SInit
    OBVIOUS
  <2>1. \A r \in Id : response[r] = "none" /\ runtime[r] = "idle"
    BY DEF WebInit
  <2>2. \A r \in Id : ReaderOf(r) = "new" /\ RunOf(r) = "idle"
    BY <2>1, Looks
  <2> QED BY <2>1, <2>2 DEF BegunInv, StreamOf!SInit
<1>2. WebInv /\ BegunInv /\ [WebNext]_webVars => BegunInv'
  BY BegunStep
<1>3. WebInv /\ BegunInv /\ [WebNext]_webVars =>
        [\A r \in Id : StreamOf(r)!SNext \/ UNCHANGED StreamOf(r)!streamVars]_webVars
  BY StreamKeepsContract
<1> QED BY <1>1, <1>2, <1>3, WebInductive, PTL DEF WebSpec, StreamsKeepContract

=============================================================================
