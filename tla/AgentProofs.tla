----------------------------- MODULE AgentProofs -----------------------------
(***************************************************************************)
(* The agentic worker and the calls a task makes of the outside.           *)
(*                                                                         *)
(* The loop, for any registry, any replies and any limits: it is the       *)
(* bounded caller AgentContract says, its answers have evidence, every     *)
(* call of a reply is answered, and it is stopped for want of progress     *)
(* exactly when it makes none (LoopInv).                                   *)
(*                                                                         *)
(* The calls out, for any limits, any number of calls and children that    *)
(* write any number of lines: no child outlives its call but a container   *)
(* that no kill reached, what a call reports is what happened, and the     *)
(* workspace of a run that was not cancelled goes last (IInv).             *)
(***************************************************************************)
EXTENDS AgentLoop, ChildRuns, SequenceTheorems, DataTheorems, TLAPS

-----------------------------------------------------------------------------
(* The loop. *)


Answers == Seq(Results \cup {Refusal})
Elements(s) == {s[i] : i \in DOMAIN s}

(* Everything the transcript keeps of a turn but its sizes. *)
TranscriptInv ==
  /\ exchanges \in Seq(Elements(exchanges))
  /\ \A i \in DOMAIN exchanges :
       /\ exchanges[i].asked \in Seq(Reply) /\ exchanges[i].answers \in Answers
       /\ Len(exchanges[i].answers) = Len(exchanges[i].asked)
       /\ DOMAIN exchanges[i].kept = DOMAIN exchanges[i].answers
  /\ place # "over" => Len(exchanges) = iter

(* How many calls the turns and attempts so far can have made. *)
CallsInv ==
  /\ place \in {"ready", "calling", "backoff", "tools"} => iter < MaxIters
  /\ place \in {"calling", "tools"} => sent > 0
  /\ place = "turn" => sent <= iter * (MaxRetries + 1)
  /\ place \in {"ready", "backoff"} => sent <= iter * (MaxRetries + 1) + attempt
  /\ place \in {"calling", "tools"} => sent <= iter * (MaxRetries + 1) + attempt + 1

(* stalls is the length of the run of equal exchanges at the end. *)
StallsInv ==
  /\ exchanges = <<>> => stalls = 0
  /\ exchanges # <<>> =>
       /\ stalls < Len(exchanges)
       /\ \A i \in (Len(exchanges) - stalls + 1)..Len(exchanges) :
            Same(exchanges[i], exchanges[i - 1])
       /\ stalls + 1 < Len(exchanges) =>
            ~Same(exchanges[Len(exchanges) - stalls], exchanges[Len(exchanges) - stalls - 1])
  /\ stalls > MaxNudges <=> result = "no_progress"

(* The two books on the tools rest on results: of the transcript, or of the
   turn that is not closed yet. *)
Got(tool) == \E k \in DOMAIN answers : asked[k].name = tool /\ ~answers[k].error
Tried(tool, xs) == \E i \in DOMAIN xs : \E k \in DOMAIN xs[i].asked : xs[i].asked[k].name = tool
EvidenceInv ==
  /\ place \notin {"tools", "over"} =>
       /\ \A tool \in satisfied : Obtained(tool, exchanges)
       /\ \A tool \in usedTools : Tried(tool, exchanges)
  /\ place = "tools" =>
       /\ \A tool \in satisfied : Obtained(tool, exchanges) \/ Got(tool)
       /\ \A tool \in usedTools :
            Tried(tool, exchanges) \/ \E k \in DOMAIN answers : asked[k].name = tool

LoopInv == LoopTypeOK /\ TranscriptInv /\ CallsInv /\ StallsInv /\ EvidenceInv /\ AnswerHasEvidence

-----------------------------------------------------------------------------
LEMMA Growth ==
  ASSUME NEW s, s \in Seq(Elements(s)), NEW e
  PROVE  /\ Append(s, e) \in Seq(Elements(Append(s, e)))
         /\ Len(s) \in Nat /\ Len(Append(s, e)) = Len(s) + 1
         /\ DOMAIN s = 1..Len(s) /\ DOMAIN Append(s, e) = 1..Len(s) + 1
         /\ \A i \in 1..Len(s) : Append(s, e)[i] = s[i]
         /\ Append(s, e)[Len(s) + 1] = e
<1> DEFINE S == Elements(s) \cup {e}
<1>1. s \in Seq(S) /\ e \in S
  <2>1. Elements(s) \subseteq S
    OBVIOUS
  <2>2. s \in [1..Len(s) -> Elements(s)] /\ Len(s) \in Nat
    OBVIOUS
  <2>3. s \in [1..Len(s) -> S]
    BY <2>1, <2>2
  <2> QED BY <2>2, <2>3, SeqDef
<1>2. /\ Append(s, e) \in Seq(S) /\ Len(Append(s, e)) = Len(s) + 1
      /\ \A i \in 1..Len(s) : Append(s, e)[i] = s[i]
      /\ Append(s, e)[Len(s) + 1] = e
  BY <1>1, AppendProperties
<1>3. Len(s) \in Nat /\ DOMAIN s = 1..Len(s) /\ DOMAIN Append(s, e) = 1..Len(s) + 1
  BY <1>1, <1>2
<1> DEFINE t == Append(s, e)
<1>4. t \in [1..Len(t) -> Elements(t)] /\ Len(t) \in Nat
  <2>1. t \in Seq(S) /\ Len(t) \in Nat /\ DOMAIN t = 1..Len(t)
    BY <1>2
  <2>2. t \in [1..Len(t) -> S]
    <3> HIDE DEF t, S
    <3> QED BY <2>1, LenProperties
  <2>3. \A i \in 1..Len(t) : t[i] \in Elements(t)
    BY <2>1 DEF Elements
  <2> QED BY <2>1, <2>2, <2>3
<1>5. t \in Seq(Elements(t))
  <2> HIDE DEF t
  <2> QED BY <1>4, SeqDef
<1> QED BY <1>2, <1>3, <1>5

LEMMA InitLoop == LoopInit => LoopInv
<1> SUFFICES ASSUME LoopInit PROVE LoopInv
  OBVIOUS
<1>1. exchanges = <<>> /\ DOMAIN exchanges = {} /\ Len(exchanges) = 0
  BY DEF LoopInit
<1>2. exchanges \in Seq(Elements(exchanges)) /\ asked \in Seq(Reply) /\ answers \in Answers
  BY <1>1 DEF LoopInit, Answers
<1>3. required \subseteq Known
  BY DEF LoopInit
<1>4. LoopTypeOK
  BY <1>1, <1>2, <1>3, AgentAssumption DEF LoopInit, LoopTypeOK, Outcome, Answers
<1>5. TranscriptInv /\ CallsInv /\ StallsInv
  BY <1>1, <1>2, AgentAssumption DEF LoopInit, TranscriptInv, CallsInv, StallsInv
<1>6. EvidenceInv /\ AnswerHasEvidence
  BY DEF LoopInit, EvidenceInv, AnswerHasEvidence
<1> QED BY <1>4, <1>5, <1>6 DEF LoopInv

-----------------------------------------------------------------------------
(* What most steps leave alone: the transcript and the books on it. *)
LEMMA QuietStep ==
  ASSUME LoopInv, UNCHANGED <<declared, required, toolVars, transcriptVars>>,
         place \notin {"tools", "over"} \/ place' = "over",
         place' # "tools", place # "over",
         place' \in {"turn", "ready", "calling", "backoff", "over"},
         attempt' \in 0..MaxRetries, sent' \in Nat,
         result' \in Outcome \ {"no_progress", "answer", "blank"},
         place' = "over" <=> result' # "running",
         CallsInv'
  PROVE  LoopInv'
<1>1. LoopTypeOK' /\ TranscriptInv' /\ StallsInv'
  <2>1. LoopTypeOK'
    BY DEF LoopInv, LoopTypeOK, toolVars, transcriptVars, Outcome
  <2>2. TranscriptInv'
    BY DEF LoopInv, TranscriptInv, toolVars, transcriptVars
  <2>3. result # "no_progress"
    BY DEF LoopInv, LoopTypeOK
  <2>4. StallsInv'
    BY <2>3 DEF LoopInv, StallsInv, transcriptVars, Same
  <2> QED BY <2>1, <2>2, <2>4
<1>2. EvidenceInv'
  BY DEF LoopInv, EvidenceInv, Obtained, Tried, toolVars, transcriptVars
<1>3. AnswerHasEvidence'
  BY DEF AnswerHasEvidence
<1> QED BY <1>1, <1>2, <1>3 DEF LoopInv

LEMMA TurnSteps ==
  ASSUME LoopInv, StartTurn \/ LoopStops \/ GateRefuses \/ Call \/ BackOff \/ Wake
  PROVE  LoopInv'
<1>1. /\ sent \in Nat /\ iter \in 0..MaxIters /\ attempt \in 0..MaxRetries /\ result \in Outcome
      /\ place = "over" <=> result # "running"
      /\ MaxRetries \in Nat /\ MaxIters \in Nat
  BY AgentAssumption DEF LoopInv, LoopTypeOK
<1> DEFINE before == iter * (MaxRetries + 1)
<1>2. before \in Nat
  BY <1>1
<1> HIDE DEF before
<1> USE DEF toolVars, transcriptVars
<1>3. CASE StartTurn
  <2>1. CallsInv'
    BY <1>1, <1>2, <1>3 DEF StartTurn, LoopInv, CallsInv, before
  <2> QED BY <1>1, <1>3, <2>1, QuietStep DEF StartTurn
<1>4. CASE LoopStops \/ GateRefuses
  <2>1. CallsInv'
    BY <1>4 DEF LoopStops, GateRefuses, Ends, CallsInv
  <2>2. result' \in {"exhausted", "over_budget", "unavailable"}
    BY <1>4 DEF LoopStops, GateRefuses, Ends
  <2> QED BY <1>1, <1>4, <2>1, <2>2, QuietStep DEF LoopStops, GateRefuses, Ends, Outcome
<1>5. CASE Call
  <2>1. sent <= before + attempt /\ iter < MaxIters
    BY <1>5 DEF Call, LoopInv, CallsInv, before
  <2>2. sent' <= before + attempt + 1 /\ sent' > 0
    BY <1>1, <1>2, <1>5, <2>1 DEF Call
  <2>3. CallsInv'
    BY <1>5, <2>1, <2>2 DEF Call, CallsInv, before
  <2> QED BY <1>1, <1>5, <2>3, QuietStep DEF Call
<1>6. CASE BackOff
  <2>1. sent <= before + attempt + 1 /\ iter < MaxIters
    BY <1>6 DEF BackOff, LoopInv, CallsInv, before
  <2>2. CallsInv'
    BY <1>1, <1>2, <1>6, <2>1 DEF BackOff, CallsInv, before
  <2> QED BY <1>1, <1>6, <2>2, QuietStep DEF BackOff
<1>7. CASE Wake
  <2>1. CallsInv'
    BY <1>7 DEF Wake, LoopInv, CallsInv
  <2> QED BY <1>1, <1>7, <2>1, QuietStep DEF Wake
<1> QED BY <1>3, <1>4, <1>5, <1>6, <1>7

LEMMA FailSteps ==
  ASSUME LoopInv, CallFails \/ TimedOut \/ ToolRaises
  PROVE  LoopInv'
<1>1. place' = "over" /\ result' \in {"unavailable", "rejected", "crashed", "timeout"}
  BY DEF CallFails, TimedOut, ToolRaises, Ends
<1>2. UNCHANGED <<declared, required, attempt, sent, toolVars, transcriptVars>> /\ place # "over"
  BY DEF CallFails, TimedOut, ToolRaises
<1>3. CallsInv'
  BY <1>1 DEF CallsInv
<1>4. sent' \in Nat /\ attempt' \in 0..MaxRetries
  BY <1>2 DEF LoopInv, LoopTypeOK
<1> QED BY <1>1, <1>2, <1>3, <1>4, QuietStep DEF Outcome

-----------------------------------------------------------------------------
(* The answer: a text that was tried for, and is worth what Verdict says. *)
LEMMA AnswerStep ==
  ASSUME LoopInv, Answer
  PROVE  LoopInv'
<1>1. PICK text \in {"incomplete", "blank", "answer"} : place' = "over" /\ result' = Assessed(text)
  BY DEF Answer, Ends
<1>2. place = "calling" /\ UNCHANGED <<declared, required, attempt, sent, toolVars, transcriptVars>>
  BY DEF Answer
<1>3. result' \in {"incomplete", "unproved", "blank", "answer"}
  BY <1>1 DEF Assessed
<1>4. LoopTypeOK'
  BY <1>1, <1>2, <1>3 DEF LoopInv, LoopTypeOK, toolVars, transcriptVars, Outcome
<1>5. TranscriptInv' /\ CallsInv' /\ EvidenceInv'
  BY <1>1, <1>2 DEF LoopInv, TranscriptInv, CallsInv, EvidenceInv, toolVars, transcriptVars
<1>6. StallsInv'
  <2>1. result # "no_progress" /\ result' # "no_progress"
    BY <1>2, <1>3 DEF LoopInv, LoopTypeOK
  <2> QED BY <1>2, <2>1 DEF LoopInv, StallsInv, transcriptVars, Same
<1>7. AnswerHasEvidence'
  <2> SUFFICES ASSUME result' \in {"answer", "blank"} PROVE AnswerHasEvidence'
    BY DEF AnswerHasEvidence
  <2>1. required \subseteq satisfied /\ (~declared => usedTools # {})
    BY <1>1 DEF Assessed
  <2>2. \A tool \in required : Obtained(tool, exchanges)
    BY <1>2, <2>1 DEF LoopInv, EvidenceInv
  <2>3. ASSUME ~declared
        PROVE  \E i \in DOMAIN exchanges : \E k \in DOMAIN exchanges[i].asked :
                 exchanges[i].asked[k].name \in Known
    <3>1. PICK tool \in usedTools : tool \in Known
      BY <2>1, <2>3 DEF LoopInv, LoopTypeOK
    <3> QED BY <1>2, <3>1 DEF LoopInv, EvidenceInv, Tried
  <2> QED BY <1>2, <2>2, <2>3 DEF AnswerHasEvidence, Obtained, transcriptVars
<1> QED BY <1>4, <1>5, <1>6, <1>7 DEF LoopInv

LEMMA AskToolsStep ==
  ASSUME LoopInv, AskTools
  PROVE  LoopInv'
<1>1. /\ place = "calling" /\ place' = "tools"
      /\ asked' \in Batches /\ answers' = <<>>
      /\ UNCHANGED <<declared, required, attempt, sent, result, usedTools, satisfied,
                     iter, chars, stalls, exchanges>>
  BY DEF AskTools, transcriptVars
<1>2. asked' \in Seq(Reply) /\ Len(asked') \in Nat
  BY <1>1, AgentAssumption
<1>3. answers' \in Seq(Results \cup {Refusal}) /\ Len(answers') = 0
  BY <1>1
<1>4. LoopTypeOK'
  BY <1>1, <1>2, <1>3 DEF LoopInv, LoopTypeOK, Outcome
<1>5. TranscriptInv'
  BY <1>1 DEF LoopInv, TranscriptInv
<1>6. CallsInv'
  BY <1>1 DEF LoopInv, CallsInv
<1>7. StallsInv'
  BY <1>1 DEF LoopInv, StallsInv, Same
<1>8. EvidenceInv'
  BY <1>1 DEF LoopInv, EvidenceInv, Obtained, Tried
<1>9. AnswerHasEvidence'
  BY <1>1 DEF LoopInv, LoopTypeOK, AnswerHasEvidence
<1> QED BY <1>4, <1>5, <1>6, <1>7, <1>8, <1>9 DEF LoopInv

(* One more call of the batch has its result. *)
LEMMA ToolSteps ==
  ASSUME LoopInv, RefuseCall \/ RunTool
  PROVE  LoopInv'
<1>1. PICK r \in Results \cup {Refusal} :
        /\ answers' = Append(answers, r)
        /\ \/ satisfied' = satisfied
           \/ satisfied' = satisfied \cup {NextCall.name} /\ Admitted /\ ~r.error
        /\ \/ usedTools' = usedTools /\ satisfied' = satisfied
           \/ usedTools' = usedTools \cup {NextCall.name} /\ Admitted
  BY DEF RefuseCall, RunTool
<1>2. /\ place = "tools" /\ Len(answers) < Len(asked)
      /\ UNCHANGED <<declared, required, place, attempt, sent, result, asked,
                     iter, chars, stalls, exchanges>>
  BY DEF RefuseCall, RunTool, turnVars, transcriptVars
<1>3. /\ answers \in Seq(Results \cup {Refusal}) /\ asked \in Seq(Reply)
      /\ Len(answers) \in Nat /\ Len(asked) \in Nat
  BY DEF LoopInv, LoopTypeOK
<1> DEFINE n == Len(answers) + 1
<1>4. /\ answers' \in Seq(Results \cup {Refusal}) /\ Len(answers') = n
      /\ DOMAIN answers' = 1..n /\ DOMAIN answers = 1..Len(answers)
      /\ \A k \in 1..Len(answers) : answers'[k] = answers[k]
      /\ answers'[n] = r
  BY <1>1, <1>3, AppendProperties
<1>5. NextCall = asked[n]
  BY DEF NextCall
<1>6. LoopTypeOK'
  <2>1. n <= Len(asked)
    BY <1>2, <1>3
  <2>2. satisfied' \subseteq usedTools' /\ usedTools' \subseteq Known
    BY <1>1 DEF Admitted, LoopInv, LoopTypeOK
  <2> QED BY <1>2, <1>4, <2>1, <2>2 DEF LoopInv, LoopTypeOK, Outcome
<1>7. TranscriptInv' /\ CallsInv' /\ StallsInv'
  BY <1>2 DEF LoopInv, TranscriptInv, CallsInv, StallsInv, Same
<1>8. EvidenceInv'
  <2>1. \A tool : Got(tool) => Got(tool)'
    BY <1>2, <1>3, <1>4 DEF Got
  <2>2. n \in DOMAIN answers' /\ asked'[n] = NextCall
    BY <1>2, <1>3, <1>4, <1>5
  <2>3. \A tool : tool = NextCall.name /\ ~r.error => Got(tool)'
    BY <1>4, <2>2 DEF Got
  <2>4. \A tool \in satisfied' : Obtained(tool, exchanges) \/ Got(tool)'
    BY <1>1, <1>2, <2>1, <2>3 DEF LoopInv, EvidenceInv
  <2>5. \A tool \in usedTools' :
          Tried(tool, exchanges) \/ \E k \in DOMAIN answers' : asked'[k].name = tool
    <3>1. \A tool \in usedTools :
            Tried(tool, exchanges) \/ \E k \in DOMAIN answers : asked[k].name = tool
      BY <1>2 DEF LoopInv, EvidenceInv
    <3>2. DOMAIN answers \subseteq DOMAIN answers' /\ asked' = asked
      BY <1>2, <1>3, <1>4
    <3> QED BY <1>1, <2>2, <3>1, <3>2
  <2>6. exchanges' = exchanges /\ place' = "tools"
    BY <1>2
  <2> QED BY <2>4, <2>5, <2>6 DEF EvidenceInv, Obtained, Tried
<1>9. AnswerHasEvidence'
  BY <1>2 DEF LoopInv, LoopTypeOK, AnswerHasEvidence
<1> QED BY <1>6, <1>7, <1>8, <1>9 DEF LoopInv

-----------------------------------------------------------------------------
(* The turn is closed: the run of equal exchanges grows by one or starts over. *)
LEMMA CloseTurnStep ==
  ASSUME LoopInv, CloseTurn
  PROVE  LoopInv'
<1> DEFINE e == [asked |-> asked, answers |-> answers, kept |-> Kept, nudged |-> Nudged]
           n == Len(exchanges)
<1>1. /\ place = "tools" /\ Len(answers) = Len(asked)
      /\ exchanges' = Append(exchanges, e) /\ stalls' = Stalls
      /\ UNCHANGED <<declared, required, attempt, sent, asked, replySize, answers,
                     usedTools, satisfied>>
  BY DEF CloseTurn, toolVars
<1>2. \/ Stalls > MaxNudges /\ place' = "over" /\ result' = "no_progress" /\ iter' = iter
      \/ ~(Stalls > MaxNudges) /\ place' = "turn" /\ iter' = iter + 1 /\ result' = result
  BY DEF CloseTurn, Ends
<1>3. /\ result = "running" /\ iter \in Nat /\ iter < MaxIters /\ n = iter
      /\ stalls \in Nat /\ stalls <= MaxNudges
      /\ MaxIters \in Nat /\ MaxNudges \in Nat /\ MaxRetries \in Nat
  <2>1. result = "running"
    BY <1>1 DEF LoopInv, LoopTypeOK
  <2> QED BY <1>1, <2>1, AgentAssumption DEF LoopInv, LoopTypeOK, CallsInv, StallsInv, TranscriptInv
<1>4. exchanges \in Seq(Elements(exchanges))
  BY DEF LoopInv, TranscriptInv
<1>5. /\ exchanges' \in Seq(Elements(exchanges)')
      /\ Len(exchanges') = n + 1 /\ DOMAIN exchanges' = 1..n + 1 /\ DOMAIN exchanges = 1..n
      /\ \A i \in 1..n : exchanges'[i] = exchanges[i]
      /\ exchanges'[n + 1] = e
  <2>1. /\ Append(exchanges, e) \in Seq(Elements(Append(exchanges, e)))
        /\ Len(Append(exchanges, e)) = n + 1 /\ DOMAIN Append(exchanges, e) = 1..n + 1
        /\ DOMAIN exchanges = 1..n
        /\ \A i \in 1..n : Append(exchanges, e)[i] = exchanges[i]
        /\ Append(exchanges, e)[n + 1] = e
    BY <1>4, Growth
  <2> QED BY <1>1, <2>1 DEF Elements
<1> HIDE DEF n
<1>6. /\ asked \in Seq(Reply) /\ answers \in Answers
      /\ e.asked = asked /\ e.answers = answers /\ e.kept = Kept
      /\ DOMAIN Kept = DOMAIN answers
      /\ DOMAIN asked = DOMAIN answers
  BY <1>1 DEF LoopInv, LoopTypeOK, Answers, Kept
<1> HIDE DEF e
<1>7. /\ Stalls \in 0..MaxNudges + 1
      /\ Repeated => Stalls = stalls + 1
      /\ ~Repeated => Stalls = 0
  BY <1>3 DEF Stalls
<1>8. LoopTypeOK'
  BY <1>1, <1>2, <1>3, <1>5, <1>7 DEF LoopInv, LoopTypeOK, Outcome
<1>9. TranscriptInv'
  <2>1. \A i \in 1..n + 1 :
          /\ exchanges'[i].asked \in Seq(Reply) /\ exchanges'[i].answers \in Answers
          /\ Len(exchanges'[i].answers) = Len(exchanges'[i].asked)
          /\ DOMAIN exchanges'[i].kept = DOMAIN exchanges'[i].answers
    <3>1. \A i \in 1..n :
            /\ exchanges[i].asked \in Seq(Reply) /\ exchanges[i].answers \in Answers
            /\ Len(exchanges[i].answers) = Len(exchanges[i].asked)
            /\ DOMAIN exchanges[i].kept = DOMAIN exchanges[i].answers
      BY <1>5 DEF LoopInv, TranscriptInv
    <3> QED BY <1>1, <1>3, <1>5, <1>6, <3>1
  <2> QED BY <1>2, <1>3, <1>5, <2>1 DEF TranscriptInv
<1>10. CallsInv'
  <2>1. attempt \in 0..MaxRetries /\ sent \in Nat
    BY DEF LoopInv, LoopTypeOK
  <2>2. sent <= iter * (MaxRetries + 1) + attempt + 1
    BY <1>1 DEF LoopInv, CallsInv
  <2>3. (iter + 1) * (MaxRetries + 1) = iter * (MaxRetries + 1) + MaxRetries + 1
    BY <1>3
  <2>4. sent <= (iter + 1) * (MaxRetries + 1)
    BY <1>3, <2>1, <2>2, <2>3
  <2> QED BY <1>1, <1>2, <2>4 DEF CallsInv
<1>11. StallsInv'
  <2>1. exchanges' # <<>>
    BY <1>3, <1>5
  <2>2. stalls' > MaxNudges <=> result' = "no_progress"
    BY <1>1, <1>2, <1>3
  <2>3. Repeated <=> n > 0 /\ Same(exchanges[n], e)
    <3>1. exchanges # <<>> <=> n > 0
      BY <1>3, <1>4 DEF n
    <3> QED BY <1>6, <3>1 DEF Repeated, Latest, Same, n
  <2>4. /\ stalls' < n + 1
        /\ \A i \in (n + 1 - stalls' + 1)..n + 1 : Same(exchanges'[i], exchanges'[i - 1])
        /\ stalls' + 1 < n + 1 => ~Same(exchanges'[n + 1 - stalls'], exchanges'[n - stalls'])
    <3>1. CASE ~Repeated
      <4>1. stalls' = 0
        BY <1>1, <1>7, <3>1
      <4>2. n > 0 => ~Same(exchanges'[n + 1], exchanges'[n])
        BY <1>3, <1>5, <2>3, <3>1 DEF Same
      <4> QED BY <1>3, <4>1, <4>2
    <3>2. CASE Repeated
      <4>1. stalls' = stalls + 1 /\ n > 0
        BY <1>1, <1>7, <2>3, <3>2
      <4>2. /\ stalls < n
            /\ \A i \in (n - stalls + 1)..n : Same(exchanges[i], exchanges[i - 1])
            /\ stalls + 1 < n => ~Same(exchanges[n - stalls], exchanges[n - stalls - 1])
        BY <1>3, <4>1 DEF LoopInv, StallsInv, n
      <4>3. \A i \in 2..n : exchanges'[i] = exchanges[i] /\ exchanges'[i - 1] = exchanges[i - 1]
        BY <1>3, <1>5
      <4>4. Same(exchanges'[n + 1], exchanges'[n])
        BY <1>3, <1>5, <2>3, <3>2 DEF Same
      <4>5. ASSUME NEW i \in (n - stalls + 1)..n + 1
            PROVE  Same(exchanges'[i], exchanges'[i - 1])
        <5>1. CASE i = n + 1
          BY <1>3, <4>4, <5>1
        <5>2. CASE i # n + 1
          <6>1. i \in (n - stalls + 1)..n /\ i \in 2..n
            BY <1>3, <4>2, <5>2
          <6> QED BY <4>2, <4>3, <6>1
        <5> QED BY <5>1, <5>2
      <4>6. stalls + 1 < n => ~Same(exchanges'[n - stalls], exchanges'[n - stalls - 1])
        <5>1. stalls + 1 < n => n - stalls \in 2..n
          BY <1>3
        <5> QED BY <4>2, <4>3, <5>1
      <4> QED BY <1>3, <4>1, <4>2, <4>5, <4>6
    <3> QED BY <3>1, <3>2
  <2>5. n + 1 - stalls' - 1 = n - stalls'
    BY <1>1, <1>3, <1>7
  <2>6. Len(exchanges') = n + 1
    BY <1>5
  <2>7. \A i \in (Len(exchanges') - stalls' + 1)..Len(exchanges') : Same(exchanges'[i], exchanges'[i - 1])
    <3> TAKE i \in (Len(exchanges') - stalls' + 1)..Len(exchanges')
    <3>1. i \in (n + 1 - stalls' + 1)..n + 1
      BY <1>1, <1>3, <1>7, <2>6
    <3> QED BY <2>4, <3>1
  <2>8. stalls' + 1 < Len(exchanges') =>
          ~Same(exchanges'[Len(exchanges') - stalls'], exchanges'[Len(exchanges') - stalls' - 1])
    BY <1>1, <1>3, <1>7, <2>4, <2>5, <2>6
  <2>9. stalls' < Len(exchanges')
    BY <2>4, <2>6
  <2> QED BY <2>1, <2>2, <2>7, <2>8, <2>9 DEF StallsInv, Same
<1>12. EvidenceInv'
  <2>1. \A tool : Obtained(tool, exchanges) \/ Got(tool) => Obtained(tool, exchanges')
    BY <1>3, <1>5, <1>6 DEF Obtained, Got
  <2>2. \A tool : Tried(tool, exchanges) \/ (\E k \in DOMAIN answers : asked[k].name = tool)
                    => Tried(tool, exchanges')
    BY <1>3, <1>5, <1>6 DEF Tried
  <2>3. \A tool \in satisfied' : Obtained(tool, exchanges')
    BY <1>1, <2>1 DEF LoopInv, EvidenceInv
  <2>4. \A tool \in usedTools' : Tried(tool, exchanges')
    BY <1>1, <2>2 DEF LoopInv, EvidenceInv
  <2> QED BY <1>2, <2>3, <2>4 DEF EvidenceInv, Obtained, Tried
<1>13. AnswerHasEvidence'
  BY <1>2, <1>3 DEF AnswerHasEvidence
<1> QED BY <1>8, <1>9, <1>10, <1>11, <1>12, <1>13 DEF LoopInv

-----------------------------------------------------------------------------
LEMMA NextLoop == LoopInv /\ [LoopNext]_loopVars => LoopInv'
<1> SUFFICES ASSUME LoopInv, [LoopNext]_loopVars PROVE LoopInv'
  OBVIOUS
<1>1. CASE StartTurn \/ LoopStops \/ GateRefuses \/ Call \/ BackOff \/ Wake
  BY <1>1, TurnSteps
<1>2. CASE CallFails \/ TimedOut \/ ToolRaises
  BY <1>2, FailSteps
<1>3. CASE Answer
  BY <1>3, AnswerStep
<1>4. CASE AskTools
  BY <1>4, AskToolsStep
<1>5. CASE RefuseCall \/ RunTool
  BY <1>5, ToolSteps
<1>6. CASE CloseTurn
  BY <1>6, CloseTurnStep
<1>7. CASE UNCHANGED loopVars
  <2>1. LoopTypeOK'
    BY <1>7 DEF LoopInv, LoopTypeOK, loopVars, turnVars, toolVars, transcriptVars
  <2>2. TranscriptInv' /\ CallsInv' /\ StallsInv'
    BY <1>7 DEF LoopInv, TranscriptInv, CallsInv, StallsInv, Same, loopVars, turnVars, toolVars, transcriptVars
  <2>3. EvidenceInv' /\ AnswerHasEvidence'
    BY <1>7 DEF LoopInv, EvidenceInv, AnswerHasEvidence, Obtained, Tried, Got, loopVars, turnVars,
                toolVars, transcriptVars
  <2> QED BY <2>1, <2>2, <2>3 DEF LoopInv
<1> QED BY <1>1, <1>2, <1>3, <1>4, <1>5, <1>6, <1>7 DEF LoopNext

(* The books of the loop hold together in every reachable state. *)
THEOREM BooksHold == LoopSpec => []LoopInv
BY InitLoop, NextLoop, PTL DEF LoopSpec

(* An answer is accepted only with what the task needs really obtained,
   whatever the replies ask for and the tools return. *)
THEOREM AnswersHaveEvidence == LoopSpec => []AnswerHasEvidence
<1>1. LoopInv => AnswerHasEvidence
  BY DEF LoopInv
<1> QED BY <1>1, BooksHold, PTL

(* Every call of a reply has its result in the next message. *)
THEOREM CallsAreAnswered == LoopSpec => []NoCallUnanswered
<1>1. LoopInv => NoCallUnanswered
  <2> SUFFICES ASSUME LoopInv, NEW i \in DOMAIN exchanges
               PROVE  DOMAIN exchanges[i].kept = DOMAIN exchanges[i].asked
    BY DEF NoCallUnanswered
  <2>1. /\ exchanges[i].asked \in Seq(Reply) /\ exchanges[i].answers \in Answers
        /\ Len(exchanges[i].answers) = Len(exchanges[i].asked)
        /\ DOMAIN exchanges[i].kept = DOMAIN exchanges[i].answers
    BY DEF LoopInv, TranscriptInv
  <2> QED BY <2>1 DEF Answers
<1> QED BY <1>1, BooksHold, PTL

(* The loop gives up for want of progress when, and only when, its last
   exchanges are all the same. *)
THEOREM StopsWhenStuck == LoopSpec => []StuckIsStopped
<1>1. LoopInv => StuckIsStopped
  <2> SUFFICES ASSUME LoopInv PROVE StuckIsStopped
    OBVIOUS
  <2> DEFINE n == Len(exchanges)
  <2>1. /\ n \in Nat /\ MaxNudges \in Nat /\ stalls \in 0..MaxNudges + 1
        /\ exchanges = <<>> <=> n = 0
        /\ stalls > MaxNudges <=> result = "no_progress"
    BY AgentAssumption DEF LoopInv, LoopTypeOK, TranscriptInv, StallsInv
  <2>2. n > 0 =>
          /\ stalls < n
          /\ \A i \in (n - stalls + 1)..n : Same(exchanges[i], exchanges[i - 1])
          /\ stalls + 1 < n => ~Same(exchanges[n - stalls], exchanges[n - stalls - 1])
    BY <2>1 DEF LoopInv, StallsInv
  <2> HIDE DEF n
  <2>3. ASSUME stalls > MaxNudges PROVE Stuck
    <3>1. stalls = MaxNudges + 1 /\ n > 0
      BY <2>1, <2>3 DEF LoopInv, StallsInv
    <3> QED BY <2>1, <2>2, <3>1 DEF Stuck, n
  <2>4. ASSUME Stuck PROVE stalls > MaxNudges
    <3> SUFFICES ASSUME stalls <= MaxNudges PROVE FALSE
      BY <2>1
    <3>1. n >= MaxNudges + 2 /\ \A i \in n - MaxNudges .. n : Same(exchanges[i], exchanges[i - 1])
      BY <2>4 DEF Stuck, n
    <3>2. n - stalls \in n - MaxNudges .. n /\ stalls + 1 < n
      BY <2>1, <3>1
    <3> QED BY <2>1, <2>2, <3>1, <3>2
  <2> QED BY <2>1, <2>3, <2>4 DEF StuckIsStopped
<1> QED BY <1>1, BooksHold, PTL

-----------------------------------------------------------------------------
(* A turn starts within the budget, and what its results share is what its  *)
(* reply has left of it.                                                    *)
RoomInv ==
  /\ chars \in Nat /\ replySize \in Nat
  /\ place \in {"ready", "calling", "backoff", "tools"} => chars <= Budget
  /\ ToolsNeverOverflow

(* The total of the model is the sum of DataTheorems. *)
LEMMA TotalIsSum ==
  ASSUME NEW sizes
  PROVE  Total(sizes) = SumOver(DOMAIN sizes, sizes)
BY DEF Total, SumOver, FoldFunction, FoldFunctionOnSet, MapThenSumSet, MapThenFoldSet

(* As many shares as there are calls fit into what is shared. *)
LEMMA SharesFit ==
  ASSUME NEW n \in Nat, n > 0, NEW room \in Nat
  PROVE  room \div n \in Nat /\ n * (room \div n) <= room
OBVIOUS

(* Whatever the tools returned, the kept results of a turn fit, unless      *)
(* there was no room for any of them.                                       *)
LEMMA KeptFits ==
  ASSUME LoopInv, RoomInv, place = "tools", Len(answers) = Len(asked)
  PROVE  /\ Total(Kept) \in Nat
         /\ chars + replySize + Total(Kept) <= Budget \/ \A k \in DOMAIN Kept : Kept[k] = 0
<1>1. /\ Budget \in Int /\ chars \in Nat /\ replySize \in Nat
      /\ \A k \in DOMAIN answers : answers[k].size \in Nat
      /\ Len(asked) \in Nat /\ (asked = <<>> <=> Len(asked) = 0)
      /\ DOMAIN answers = 1..Len(asked)
  <2>1. answers \in Seq(Results \cup {Refusal}) /\ asked \in Seq(Reply)
    BY DEF LoopInv, LoopTypeOK
  <2>2. \A r \in Results \cup {Refusal} : r.size \in Nat
    BY AgentAssumption
  <2> QED BY <2>1, <2>2, AgentAssumption DEF RoomInv
<1>2. /\ Share \in Nat
      /\ Share # 0 => Len(asked) * Share <= Budget - chars - replySize
  <2>1. CASE asked = <<>> \/ chars + replySize >= Budget
    BY <2>1 DEF Share
  <2>2. CASE ~(asked = <<>> \/ chars + replySize >= Budget)
    <3>1. Len(asked) > 0 /\ Budget - chars - replySize \in Nat
      BY <1>1, <2>2
    <3>2. Share = (Budget - chars - replySize) \div Len(asked)
      BY <2>2 DEF Share
    <3> QED BY <1>1, <3>1, <3>2, SharesFit
  <2> QED BY <2>1, <2>2
<1>3. /\ DOMAIN Kept = 1..Len(asked)
      /\ \A k \in DOMAIN Kept : Kept[k] \in Nat /\ Kept[k] <= Share
  BY <1>1, <1>2 DEF Kept, Clip
<1>4. IsFiniteSet(DOMAIN Kept) /\ Cardinality(DOMAIN Kept) = Len(asked)
  <2>1. /\ IsFiniteSet(1..Len(asked))
        /\ Cardinality(1..Len(asked)) = IF 1 > Len(asked) THEN 0 ELSE Len(asked) - 1 + 1
    <3>1. \A n \in Nat : /\ IsFiniteSet(1..n)
                        /\ Cardinality(1..n) = IF 1 > n THEN 0 ELSE n - 1 + 1
      BY FS_Interval
    <3>2. Len(asked) \in Nat
      BY <1>1
    <3> QED BY <3>1, <3>2
  <2>2. Cardinality(1..Len(asked)) = Len(asked)
    BY <1>1, <2>1
  <2> QED BY <1>3, <2>1, <2>2
<1>5. Total(Kept) <= Len(asked) * Share /\ Total(Kept) \in Int
  <2>1. \A k \in DOMAIN Kept : Kept[k] \in Int /\ Kept[k] <= Share
    BY <1>3
  <2>2. Share \in Int
    BY <1>2
  <2>3. SumOver(DOMAIN Kept, Kept) <= Cardinality(DOMAIN Kept) * Share
    BY <1>4, <2>1, <2>2, SumAtMost
  <2>4. SumOver(DOMAIN Kept, Kept) \in Int
    BY <1>4, <2>1, SumInt
  <2> QED BY <1>4, <2>3, <2>4, TotalIsSum
<1>6. 0 <= Total(Kept)
  <2> DEFINE nothing == [k \in DOMAIN Kept |-> 0]
  <2>1. \A k \in DOMAIN Kept : /\ nothing[k] \in Int /\ Kept[k] \in Int /\ nothing[k] <= Kept[k]
    BY <1>3
  <2>2. SumOver(DOMAIN Kept, nothing) = SumOver({}, nothing)
    <3>1. \A k \in DOMAIN Kept \ {} : nothing[k] = 0
      OBVIOUS
    <3>2. {} \in SUBSET DOMAIN Kept
      OBVIOUS
    <3> HIDE DEF nothing
    <3> QED BY <1>4, <2>1, <3>1, <3>2, SumWithin
  <2> HIDE DEF nothing
  <2>3. SumOver(DOMAIN Kept, nothing) <= SumOver(DOMAIN Kept, Kept)
    BY <1>4, <2>1, SumBelow
  <2> QED BY <2>2, <2>3, SumEmpty, TotalIsSum
<1>7. Share = 0 => \A k \in DOMAIN Kept : Kept[k] = 0
  BY <1>3
<1>8. Share # 0 => chars + replySize + Total(Kept) <= Budget
  BY <1>1, <1>2, <1>5
<1> QED BY <1>5, <1>6, <1>7, <1>8

LEMMA NextRoom == LoopInv /\ RoomInv /\ [LoopNext]_loopVars => RoomInv'
<1> SUFFICES ASSUME LoopInv, RoomInv, [LoopNext]_loopVars PROVE RoomInv'
  OBVIOUS
<1>1. CASE CloseTurn
  <2> DEFINE e == [asked |-> asked, answers |-> answers, kept |-> Kept, nudged |-> Nudged]
  <2>1. /\ place = "tools" /\ Len(answers) = Len(asked)
        /\ chars' = chars + replySize + Total(Kept) + IF Nudged THEN NudgeSize ELSE 0
        /\ exchanges' = Append(exchanges, e) /\ replySize' = replySize
        /\ place' \in {"over", "turn"}
    BY <1>1 DEF CloseTurn, toolVars, Ends
  <2>2. Latest' = e
    <3>1. exchanges \in Seq(Elements(exchanges))
      BY DEF LoopInv, TranscriptInv
    <3>2. Len(exchanges') = Len(exchanges) + 1 /\ exchanges'[Len(exchanges) + 1] = e
      BY <2>1, <3>1, Growth
    <3> QED BY <3>2 DEF Latest
  <2>3. /\ Total(Kept) \in Nat
        /\ chars + replySize + Total(Kept) <= Budget \/ \A k \in DOMAIN Kept : Kept[k] = 0
    BY <2>1, KeptFits
  <2>4. chars' \in Nat /\ replySize' \in Nat
    BY <2>1, <2>3, AgentAssumption DEF RoomInv
  <2>5. Latest'.nudged = Nudged /\ Latest'.kept = Kept
    BY <2>2
  <2>6. ToolsNeverOverflow'
    <3>1. ~Nudged => chars' = chars + replySize + Total(Kept)
      BY <2>1, <2>3 DEF RoomInv
    <3>2. chars' > Budget /\ ~Latest'.nudged => \A k \in DOMAIN Kept : Kept[k] = 0
      BY <2>3, <2>4, <2>5, <3>1, AgentAssumption
    <3> HIDE DEF e
    <3> QED BY <2>5, <3>2 DEF ToolsNeverOverflow
  <2> QED BY <2>1, <2>4, <2>6 DEF RoomInv
<1>2. CASE StartTurn
  BY <1>2 DEF StartTurn, RoomInv, ToolsNeverOverflow, Latest, toolVars, transcriptVars
<1>3. CASE AskTools
  BY <1>3, AgentAssumption DEF AskTools, RoomInv, ToolsNeverOverflow, Latest, transcriptVars
<1>4. CASE LoopStops \/ GateRefuses \/ Call \/ BackOff \/ Wake
  BY <1>4 DEF LoopStops, GateRefuses, Call, BackOff, Wake, Ends, RoomInv, ToolsNeverOverflow, Latest,
     toolVars, transcriptVars
<1>5. CASE CallFails \/ TimedOut \/ ToolRaises \/ Answer
  BY <1>5 DEF CallFails, TimedOut, ToolRaises, Answer, Ends, RoomInv, ToolsNeverOverflow, Latest,
     toolVars, transcriptVars
<1>6. CASE RefuseCall \/ RunTool
  BY <1>6 DEF RefuseCall, RunTool, RoomInv, ToolsNeverOverflow, Latest, turnVars, transcriptVars
<1>7. CASE UNCHANGED loopVars
  BY <1>7 DEF RoomInv, ToolsNeverOverflow, Latest, loopVars, turnVars, toolVars, transcriptVars
<1> QED BY <1>1, <1>2, <1>3, <1>4, <1>5, <1>6, <1>7 DEF LoopNext

(* A verbose tool alone never overflows the transcript: a turn starts within *)
(* the budget and its results share what the reply left of it, so past the  *)
(* budget not a character of them was kept, or a warning came on top        *)
(* (agent.py:227).                                                          *)
THEOREM ToolsAreClipped == LoopSpec => []ToolsNeverOverflow
<1>1. LoopInit => RoomInv
  BY AgentAssumption DEF LoopInit, RoomInv, ToolsNeverOverflow
<1>2. RoomInv => ToolsNeverOverflow
  BY DEF RoomInv
<1> QED BY <1>1, <1>2, BooksHold, NextRoom, PTL DEF LoopSpec

-----------------------------------------------------------------------------
(* For every limit the loop is the bounded caller Runtime takes it for: a call
   is one within the turns and attempts, an end is of a class that Runtime
   handles, and everything between is internal. *)
LEMMA CallIsACall ==
  ASSUME LoopInv, Call
  PROVE  Contract!ACall
<1>1. /\ sent \in Nat /\ iter \in Nat /\ iter < MaxIters /\ attempt \in 0..MaxRetries
      /\ result = "running" /\ MaxIters \in Nat /\ MaxRetries \in Nat
      /\ sent <= iter * (MaxRetries + 1) + attempt
  BY AgentAssumption DEF Call, LoopInv, LoopTypeOK, CallsInv
<1>2. (iter + 1) * (MaxRetries + 1) <= MaxIters * (MaxRetries + 1)
  <2>1. PICK d \in Nat : MaxIters = iter + 1 + d
    <3>1. MaxIters - iter - 1 \in Nat /\ MaxIters = iter + 1 + (MaxIters - iter - 1)
      BY <1>1
    <3> QED BY <3>1
  <2>2. MaxIters * (MaxRetries + 1) = (iter + 1) * (MaxRetries + 1) + d * (MaxRetries + 1)
    BY <1>1, <2>1
  <2>3. d * (MaxRetries + 1) \in Nat /\ (iter + 1) * (MaxRetries + 1) \in Nat
    BY <1>1, <2>1
  <2> QED BY <2>2, <2>3
<1>3. (iter + 1) * (MaxRetries + 1) = iter * (MaxRetries + 1) + MaxRetries + 1
  BY <1>1
<1> DEFINE before == iter * (MaxRetries + 1)
           limit == MaxIters * (MaxRetries + 1)
<1>4. before \in Nat /\ limit \in Nat
  BY <1>1
<1>5. sent <= before + attempt /\ before + MaxRetries + 1 <= limit
  BY <1>1, <1>2, <1>3
<1> HIDE DEF before, limit
<1>6. sent < limit
  BY <1>1, <1>4, <1>5
<1> QED BY <1>1, <1>6 DEF Call, Contract!ACall, Class, limit

LEMMA EndIsAEnd ==
  ASSUME LoopInv, result = "running", sent' = sent, result' \in Outcome,
         result' \in {"answer", "blank", "unproved", "crashed"} => sent > 0
  PROVE  Contract!AEnd \/ UNCHANGED Contract!agentVars
BY DEF Contract!AEnd, Contract!agentVars, Class, Outcome

THEOREM AgentIsBoundedCaller == LoopSpec => KeepsAgentContract
<1>1. LoopInit => Contract!AInit
  BY DEF LoopInit, Contract!AInit, Class
<1>2. LoopInv /\ LoopInv' /\ [LoopNext]_loopVars => [Contract!ACall \/ Contract!AEnd]_Contract!agentVars
  <2> SUFFICES ASSUME LoopInv, LoopInv', [LoopNext]_loopVars
               PROVE  [Contract!ACall \/ Contract!AEnd]_Contract!agentVars
    OBVIOUS
  <2>1. CASE UNCHANGED loopVars
    BY <2>1 DEF loopVars, turnVars, Contract!agentVars, Class
  <2>2. CASE Call
    BY <2>2, CallIsACall
  <2>3. CASE LoopNext /\ ~Call
    <3>1. sent' = sent /\ result' \in Outcome /\ result = "running"
      <4>1. place # "over"
        BY <2>3 DEF LoopNext, StartTurn, LoopStops, GateRefuses, BackOff, Wake, CallFails, TimedOut,
                    Answer, AskTools, RefuseCall, RunTool, ToolRaises, CloseTurn
      <4>2. sent' = sent
        BY <2>3 DEF LoopNext, StartTurn, LoopStops, GateRefuses, BackOff, Wake, CallFails, TimedOut,
                    Answer, AskTools, RefuseCall, RunTool, ToolRaises, CloseTurn, turnVars
      <4> QED BY <4>1, <4>2 DEF LoopInv, LoopTypeOK
    <3>2. result' \in {"answer", "blank", "unproved", "crashed"} => sent > 0
      <4>1. CASE place \in {"calling", "tools"}
        BY <4>1 DEF LoopInv, CallsInv
      <4>2. CASE place \notin {"calling", "tools"}
        BY <2>3, <3>1, <4>2 DEF LoopNext, StartTurn, LoopStops, GateRefuses, BackOff, Wake, CallFails,
          TimedOut, Answer, AskTools, RefuseCall, RunTool, ToolRaises, CloseTurn, Ends
      <4> QED BY <4>1, <4>2
    <3> QED BY <3>1, <3>2, EndIsAEnd
  <2> QED BY <2>1, <2>2, <2>3
<1> QED BY <1>1, <1>2, BooksHold, PTL DEF LoopSpec, KeepsAgentContract, Contract!AgentSpec


-----------------------------------------------------------------------------
(* The calls out. *)


CliStops == {"settling", "letting", "reaping", "releasing"}
Place == {"idle", "running"} \cup CliStops \cup Stopping \cup FetchStage
Child == [life : Life, client : BOOLEAN, held : BOOLEAN, open : BOOLEAN,
          unread : Seq(Line), wrote : Nat, code : {0, 1, -9}]

InPipe(c) == Len(c.unread)

Types ==
  /\ kind \in Cli \cup Boxed \cup {"fetch"}
  /\ streamed \in BOOLEAN /\ stopped \in BOOLEAN /\ missed \in BOOLEAN
  /\ child \in Child
  /\ at \in Place
  /\ heard \in Nat

(* Whose place it is, and why it is stopping. *)
PlaceInv ==
  /\ at = "running" => kind # "fetch" /\ cause = "none"
  /\ at \in CliStops => kind \in Cli /\ cause \in {"timeout", "cancel", "raise"}
  /\ at \in Stopping => kind \in Boxed /\ cause \in {"limit", "timeout", "cancel"}
  /\ at = "killing" => kind = "docker"
  /\ at \in FetchStage => kind = "fetch" /\ cause = "none"
  /\ at # "idle" => outcome = "none"
  /\ kind \notin Cli => ~stopped

(* A child lives on only while its call watches it or asks for its end. *)
Gone == child.life \in {"none", "dead"} \/ (kind = "docker" /\ missed)
LifeInv ==
  /\ kind # "docker" => child.life # "pending"
  /\ at \notin {"running", "killing"} => Gone
  /\ at = "running" /\ ~child.client => child.life \in {"none", "dead"}

(* Every line written is read or in the pipe, until somebody stops reading. *)
BooksInv ==
  /\ at = "running" =>
       /\ heard + InPipe(child) = child.wrote
       /\ ~stopped => child.code # -9
       /\ kind \in Boxed => ~missed
  /\ cause = "limit" => heard > Limit
  /\ outcome = "whole" => kind \in Cli
  /\ outcome = "normal" => kind \in Boxed

CallInv == Types /\ PlaceInv /\ LifeInv /\ BooksInv /\ AnswersAreWhole /\ ReportsAreTrue

-----------------------------------------------------------------------------
(* What the operating system does to a child. *)

LEMMA PipeLength ==
  ASSUME NEW c \in Child
  PROVE  InPipe(c) \in Nat /\ (c.unread = <<>> => InPipe(c) = 0)
BY EmptySeq DEF Child, InPipe

LEMMA KilledChild ==
  ASSUME NEW c \in Child
  PROVE  /\ Killed(c) \in Child
         /\ Killed(c).life = IF c.life = "alive" THEN "dead" ELSE c.life
         /\ InPipe(Killed(c)) = InPipe(c) /\ Killed(c).wrote = c.wrote
         /\ c.life # "alive" => Killed(c) = c
BY DEF Killed, Child, Life, InPipe

LEMMA ReleasedChild ==
  ASSUME NEW c \in Child
  PROVE  /\ Released(c) \in Child
         /\ Released(c).life = c.life /\ Released(c).client = c.client
BY DEF Released, Child

LEMMA FreshChild ==
  ASSUME NEW life \in {"pending", "alive"}
  PROVE  /\ Fresh(life) \in Child
         /\ Fresh(life).life = life /\ Fresh(life).client = TRUE
         /\ InPipe(Fresh(life)) = 0 /\ Fresh(life).wrote = 0 /\ Fresh(life).code = 0
<1>1. NoChild \in Child /\ NoChild.unread = <<>> /\ NoChild.wrote = 0 /\ NoChild.code = 0
  BY EmptySeq DEF NoChild, Child, Life
<1> QED BY <1>1, PipeLength DEF Fresh, Child, Life

LEMMA ReadChild ==
  ASSUME NEW c \in Child, c.unread # <<>>
  PROVE  LET rest == [c EXCEPT !.unread = Tail(@)] IN
         /\ rest \in Child /\ Head(c.unread) \in Line
         /\ rest.life = c.life /\ rest.client = c.client /\ rest.code = c.code
         /\ rest.wrote = c.wrote /\ InPipe(rest) + 1 = InPipe(c)
<1>1. c.unread \in Seq(Line) /\ InPipe(c) \in Nat
  BY DEF Child, InPipe
<1>2. Tail(c.unread) \in Seq(Line) /\ Len(Tail(c.unread)) = InPipe(c) - 1 /\ Head(c.unread) \in Line
  BY <1>1, HeadTailProperties DEF InPipe
<1> QED BY <1>1, <1>2 DEF Child, InPipe

LEMMA WrittenChild ==
  ASSUME NEW c \in Child, NEW line \in Line
  PROVE  LET more == [c EXCEPT !.unread = Append(@, line), !.wrote = @ + 1] IN
         /\ more \in Child
         /\ more.life = c.life /\ more.client = c.client /\ more.code = c.code
         /\ more.wrote = c.wrote + 1 /\ InPipe(more) = InPipe(c) + 1
<1>1. c.unread \in Seq(Line) /\ c.wrote \in Nat
  BY DEF Child
<1>2. Append(c.unread, line) \in Seq(Line) /\ Len(Append(c.unread, line)) = InPipe(c) + 1
  BY <1>1, AppendProperties DEF InPipe
<1>3. ASSUME NEW s \in Seq(Line), NEW n \in Nat
      PROVE  LET more == [c EXCEPT !.unread = s, !.wrote = n] IN
             /\ more \in Child
             /\ more.life = c.life /\ more.client = c.client /\ more.code = c.code
             /\ more.wrote = n /\ more.unread = s
  BY <1>1 DEF Child
<1>4. c.wrote + 1 \in Nat
  BY <1>1
<1> QED BY ZenonT(40), <1>2, <1>3, <1>4 DEF InPipe

(* A child that moves by itself is not one a verdict has been given on. *)
LEMMA NoVerdictYet ==
  ASSUME CallInv, child.life \in {"alive", "pending"}
  PROVE  outcome \notin {"whole", "normal"}
BY DEF CallInv, PlaceInv, LifeInv, BooksInv, Gone, Boxed, Cli, ReportsAreTrue

LEMMA EnvironmentKeeps ==
  ASSUME CallInv, Environment
  PROVE  CallInv'
<1>1. child \in Child /\ child.wrote \in Nat /\ InPipe(child) \in Nat
  BY PipeLength DEF CallInv, Types, Child
<1>2. UNCHANGED <<kind, streamed, at, cause, outcome, heard, seen, stopped, missed>>
  BY DEF Environment, ChildWrites, ChildExits, ChildDetaches, HolderLetsGo, ContainerStarts, Become
<1>3. ASSUME NEW line \in Line, ChildWrites(line)
      PROVE  CallInv'
  <2>1. /\ child' \in Child /\ child'.life = "alive" /\ child.life = "alive"
        /\ child'.client = child.client /\ child'.code = child.code
        /\ child'.wrote = child.wrote + 1 /\ InPipe(child') = InPipe(child) + 1
    BY <1>1, <1>3, WrittenChild DEF ChildWrites, Become
  <2>2. outcome \notin {"whole", "normal"}
    BY <2>1, NoVerdictYet
  <2> QED BY <1>1, <1>2, <2>1, <2>2 DEF CallInv, Types, PlaceInv, LifeInv, Gone, BooksInv,
              AnswersAreWhole, ReportsAreTrue
<1>4. ASSUME NEW status \in {0, 1}, ChildExits(status)
      PROVE  CallInv'
  <2>1. /\ child' \in Child /\ child'.life = "dead" /\ child.life = "alive"
        /\ child'.code \in {0, 1}
        /\ child'.wrote = child.wrote /\ InPipe(child') = InPipe(child)
    BY <1>1, <1>4 DEF ChildExits, Become, Child, Life, InPipe
  <2>2. outcome \notin {"whole", "normal"}
    BY <2>1, NoVerdictYet
  <2> QED BY <1>1, <1>2, <2>1, <2>2 DEF CallInv, Types, PlaceInv, LifeInv, Gone, BooksInv,
              AnswersAreWhole, ReportsAreTrue
<1>5. CASE ChildDetaches \/ HolderLetsGo
  <2>1. /\ child' \in Child /\ child'.life = child.life /\ child'.client = child.client
        /\ child'.code = child.code /\ child'.wrote = child.wrote /\ InPipe(child') = InPipe(child)
    BY <1>1, <1>5 DEF ChildDetaches, HolderLetsGo, Become, Child, InPipe
  <2> QED BY <1>2, <2>1 DEF CallInv, Types, PlaceInv, LifeInv, Gone, BooksInv,
              AnswersAreWhole, ReportsAreTrue, Lossy
<1>6. CASE ContainerStarts
  <2>1. /\ child' \in Child /\ child'.life = "alive" /\ child.life = "pending"
        /\ child'.client = child.client /\ child'.code = child.code
        /\ child'.wrote = child.wrote /\ InPipe(child') = InPipe(child)
    BY <1>1, <1>6 DEF ContainerStarts, Become, Child, Life, InPipe
  <2>2. outcome \notin {"whole", "normal"}
    BY <2>1, NoVerdictYet
  <2> QED BY <1>2, <2>1, <2>2 DEF CallInv, Types, PlaceInv, LifeInv, Gone, BooksInv,
              AnswersAreWhole, ReportsAreTrue
<1> QED BY <1>3, <1>4, <1>5, <1>6 DEF Environment

-----------------------------------------------------------------------------
(* A CLI call. *)

LEMMA CliKeeps ==
  ASSUME CallInv, CliStep \/ CliTakesCancel
  PROVE  CallInv'
<1>1. child \in Child /\ child.wrote \in Nat /\ InPipe(child) \in Nat /\ heard \in Nat
  BY PipeLength DEF CallInv, Types, Child
<1>2. CASE CliRefuses
  BY <1>2 DEF CliRefuses, CallInv, Types, PlaceInv, LifeInv, Gone, BooksInv,
    AnswersAreWhole, ReportsAreTrue
<1>3. CASE CliSpawns
  <2>1. /\ child' \in Child /\ child'.life = "alive" /\ child'.client = TRUE
        /\ InPipe(child') = 0 /\ child'.wrote = 0 /\ child'.code = 0
    BY <1>3, FreshChild DEF CliSpawns
  <2>3. /\ kind \in Cli /\ at' = "running" /\ outcome' = "none" /\ cause' = "none"
        /\ heard' = 0 /\ stopped' = FALSE /\ UNCHANGED <<kind, streamed, missed>>
    BY <1>3 DEF CliSpawns
  <2>4. Types'
    BY <2>1, <2>3 DEF CallInv, Types, Place
  <2>5. PlaceInv' /\ LifeInv'
    BY <2>1, <2>3 DEF PlaceInv, LifeInv, Gone, CliStops, Stopping, FetchStage, Cli
  <2>6. BooksInv' /\ AnswersAreWhole' /\ ReportsAreTrue'
    BY <2>1, <2>3 DEF BooksInv, AnswersAreWhole, ReportsAreTrue, Boxed, Cli
  <2> QED BY <2>4, <2>5, <2>6 DEF CallInv
<1>4. ASSUME NEW stop \in BOOLEAN, CliReads(stop)
      PROVE  CallInv'
  <2> DEFINE rest == [child EXCEPT !.unread = Tail(@)]
  <2>1. /\ rest \in Child /\ rest.life = child.life /\ rest.client = child.client
        /\ rest.code = child.code /\ rest.wrote = child.wrote
        /\ InPipe(rest) + 1 = InPipe(child)
    BY <1>1, <1>4, ReadChild DEF CliReads
  <2>2. child' = IF stop THEN Killed(rest) ELSE rest
    BY <1>4 DEF CliReads
  <2> HIDE DEF rest
  <2>3. /\ child' \in Child /\ child'.wrote = child.wrote
        /\ InPipe(child') + 1 = InPipe(child)
        /\ child'.life \in {child.life, "dead"}
        /\ child'.life # "dead" => child'.client = child.client
        /\ stop \/ child'.code = child.code
    BY <2>1, <2>2, KilledChild
  <2>4. /\ at = "running" /\ kind \in Cli /\ ~stopped /\ heard' = heard + 1 /\ stopped' = stop
        /\ UNCHANGED <<kind, streamed, at, cause, outcome, missed, calls>>
    BY <1>4 DEF CliReads
  <2>5. InPipe(child') \in Nat
    BY <2>3, PipeLength
  <2>6. Types' /\ PlaceInv' /\ LifeInv'
    BY <1>1, <2>3, <2>4 DEF CallInv, Types, PlaceInv, LifeInv, Gone
  <2>7. /\ heard' + InPipe(child') = child'.wrote
        /\ ~stopped' => child'.code # -9
    <3>1. heard + InPipe(child) = child.wrote /\ child.code # -9
      BY <2>4 DEF CallInv, BooksInv
    <3>2. heard' + InPipe(child') = child'.wrote
      BY <1>1, <2>3, <2>4, <2>5, <3>1
    <3>3. stop \/ child'.code # -9
      BY <2>3, <3>1
    <3> QED BY <2>4, <3>2, <3>3
  <2>8. kind' \notin Boxed /\ outcome' = "none" /\ cause' = "none"
    BY <2>4 DEF CallInv, PlaceInv, Boxed, Cli
  <2>9. BooksInv' /\ AnswersAreWhole' /\ ReportsAreTrue'
    BY <2>7, <2>8 DEF BooksInv, AnswersAreWhole, ReportsAreTrue
  <2> QED BY <2>6, <2>9 DEF CallInv
<1>5. CASE CliFinishes
  <2>1. /\ at = "running" /\ kind \in Cli /\ Waitable /\ (stopped \/ Drained)
        /\ at' = "idle" /\ outcome' = Judged
        /\ UNCHANGED <<kind, streamed, child, cause, heard, seen, stopped, missed>>
    BY <1>5 DEF CliFinishes, Over
  <2>2. child.life = "dead" /\ cause = "none" /\ (Drained => InPipe(child) = 0)
    BY <1>1, <2>1, PipeLength DEF CallInv, PlaceInv, Waitable, ProcDead, Drained, Cli
  <2>3. Judged \in {"partial", "error", "whole"}
    BY DEF Judged
  <2>4. Types' /\ PlaceInv' /\ LifeInv' /\ ReportsAreTrue'
    BY <2>1, <2>2, <2>3 DEF CallInv, Types, PlaceInv, LifeInv, Gone, ReportsAreTrue, Place,
      CliStops, Stopping, FetchStage
  <2>5. BooksInv'
    BY <2>1, <2>2, <2>3 DEF CallInv, BooksInv
  <2>6. AnswersAreWhole'
    <3> SUFFICES ASSUME outcome' = "whole"
                 PROVE  /\ seen = "done" /\ heard = child.wrote
                        /\ child.code = 0 /\ cause = "none" /\ ~stopped
                        /\ Lossy => kind = "codex" /\ ~streamed
      BY <2>1 DEF AnswersAreWhole, Lossy
    <3>1. /\ ~stopped /\ child.code = 0 /\ seen = "done"
          /\ Lossy => kind = "codex" /\ ~streamed
      BY <2>1 DEF Judged
    <3>2. heard + InPipe(child) = child.wrote /\ InPipe(child) = 0
      BY <2>1, <2>2, <3>1 DEF CallInv, BooksInv
    <3> QED BY <1>1, <2>2, <3>1, <3>2
  <2> QED BY <2>4, <2>5, <2>6 DEF CallInv
<1>6. CASE CliTimesOut \/ CliCancelled \/ CliRaises
  <2>1. /\ at = "running" /\ kind \in Cli /\ child' = Killed(child)
        /\ cause' \in {"timeout", "cancel", "raise"} /\ at' \in {"settling", "reaping"}
        /\ UNCHANGED <<kind, streamed, outcome, heard, seen, stopped, missed>>
    BY <1>6 DEF CliTimesOut, CliCancelled, CliRaises, Stop
  <2>2. child' \in Child /\ child'.life \in {"none", "dead"}
    BY <1>1, <2>1, KilledChild DEF CallInv, LifeInv, Cli, Child, Life
  <2>3. outcome' = "none"
    BY <2>1 DEF CallInv, PlaceInv
  <2>4. Types' /\ PlaceInv' /\ LifeInv'
    BY <2>1, <2>2, <2>3 DEF CallInv, Types, PlaceInv, LifeInv, Gone, Place,
      CliStops, Stopping, FetchStage
  <2>5. BooksInv' /\ AnswersAreWhole' /\ ReportsAreTrue'
    BY <2>1, <2>3 DEF BooksInv, AnswersAreWhole, ReportsAreTrue
  <2> QED BY <2>4, <2>5 DEF CallInv
<1>7. CASE CliSettles \/ CliGivesUp
  <2>1. /\ at \in CliStops /\ at' = "idle" /\ outcome' = Verdict
        /\ UNCHANGED <<kind, streamed, child, cause, heard, seen, stopped, missed>>
    BY <1>7 DEF CliSettles, CliGivesUp, Over, CliStops
  <2>2. Verdict \in {"partial", "error", "cancelled", "raised"} /\ Gone
    BY <2>1 DEF CallInv, PlaceInv, LifeInv, Verdict, CliStops
  <2> QED BY <2>1, <2>2 DEF CallInv, Types, PlaceInv, LifeInv, Gone, BooksInv,
              AnswersAreWhole, ReportsAreTrue, Place, CliStops, Stopping, FetchStage
<1>8. CASE CliLetsGo
  <2>1. /\ at \in CliStops /\ at' \in {"letting", "releasing"} /\ child' = Released(child)
        /\ UNCHANGED <<kind, streamed, cause, outcome, heard, seen, stopped, missed>>
    BY <1>8 DEF CliLetsGo, CliStops
  <2>2. child' \in Child /\ child'.life = child.life
    BY <1>1, <2>1, ReleasedChild
  <2>3. outcome = "none"
    BY <2>1 DEF CallInv, PlaceInv, CliStops
  <2> QED BY <2>1, <2>2, <2>3 DEF CallInv, Types, PlaceInv, LifeInv, Gone, BooksInv,
              AnswersAreWhole, ReportsAreTrue, Place, CliStops, Stopping, FetchStage
<1>9. CASE CliCancelledAgain
  <2>1. /\ at \in CliStops /\ cause' = "cancel"
        /\ \/ at' = "reaping" /\ outcome' = outcome
           \/ at' = "idle" /\ outcome' = "cancelled"
        /\ UNCHANGED <<kind, streamed, child, heard, seen, stopped, missed>>
    BY <1>9 DEF CliCancelledAgain, Over, CliStops
  <2>2. outcome = "none"
    BY <2>1 DEF CallInv, PlaceInv, CliStops
  <2> QED BY <2>1, <2>2 DEF CallInv, Types, PlaceInv, LifeInv, Gone, BooksInv,
              AnswersAreWhole, ReportsAreTrue, Place, CliStops, Stopping, FetchStage
<1> QED BY <1>2, <1>3, <1>4, <1>5, <1>6, <1>7, <1>8, <1>9
        DEF CliStep, CliTakesCancel, CliHears, CliWaits

-----------------------------------------------------------------------------
(* A sandboxed run. *)

LEMMA TerminateKeeps ==
  ASSUME CallInv, NEW why \in {"limit", "timeout", "cancel"}, Terminate(why),
         kind \in Boxed, at # "idle", why = "limit" => heard > Limit
  PROVE  CallInv'
<1>1. /\ cause' = why /\ child \in Child /\ outcome = "none" /\ ~stopped
      /\ UNCHANGED <<kind, streamed, outcome, heard, seen, stopped, missed>>
  BY DEF CallInv, Types, PlaceInv, Terminate, Boxed, Cli
<1>2. \/ /\ kind = "host" /\ at' = "terminating"
         /\ child' \in Child /\ child'.life \in {"none", "dead"}
      \/ kind = "docker" /\ at' = "killing" /\ child' = child
  <2>1. CASE kind = "host"
    BY <1>1, <2>1, KilledChild DEF Terminate, CallInv, LifeInv, Child, Life
  <2>2. CASE kind = "docker"
    BY <2>2 DEF Terminate
  <2> QED BY <2>1, <2>2 DEF Boxed
<1>3. Types' /\ PlaceInv' /\ LifeInv'
  BY <1>1, <1>2 DEF CallInv, Types, PlaceInv, LifeInv, Gone, Place, Stopping, CliStops, FetchStage
<1>4. BooksInv' /\ AnswersAreWhole' /\ ReportsAreTrue'
  BY <1>1, <1>2 DEF BooksInv, AnswersAreWhole, ReportsAreTrue
<1> QED BY <1>3, <1>4 DEF CallInv

LEMMA SandboxKeeps ==
  ASSUME CallInv, SandboxStep \/ SandboxCancelled
  PROVE  CallInv'
<1>1. /\ child \in Child /\ child.wrote \in Nat /\ InPipe(child) \in Nat /\ heard \in Nat
      /\ Limit \in Nat
  BY PipeLength, BoundsAssumption DEF CallInv, Types, Child
<1>2. CASE SandboxSpawns
  <2>1. /\ child' = Fresh(IF kind = "docker" THEN "pending" ELSE "alive")
        /\ kind \in Boxed /\ at' = "running" /\ outcome' = "none" /\ cause' = "none"
        /\ heard' = 0 /\ missed' = FALSE
        /\ UNCHANGED <<kind, streamed, stopped>>
    BY <1>2 DEF SandboxSpawns
  <2>2. /\ child' \in Child /\ child'.client = TRUE
        /\ InPipe(child') = 0 /\ child'.wrote = 0 /\ child'.code = 0
        /\ child'.life = "pending" => kind = "docker"
    BY <2>1, FreshChild
  <2>3. ~stopped
    BY <2>1 DEF CallInv, PlaceInv, Boxed, Cli
  <2>4. Types'
    BY <2>1, <2>2 DEF CallInv, Types, Place
  <2>5. PlaceInv' /\ LifeInv'
    BY <2>1, <2>2, <2>3 DEF PlaceInv, LifeInv, Gone, CliStops, Stopping, FetchStage, Boxed
  <2>6. BooksInv' /\ AnswersAreWhole' /\ ReportsAreTrue'
    BY <2>1, <2>2 DEF BooksInv, AnswersAreWhole, ReportsAreTrue
  <2> QED BY <2>4, <2>5, <2>6 DEF CallInv
<1>3. CASE SandboxReads
  <2>1. /\ child' = [child EXCEPT !.unread = Tail(@)] /\ child.unread # <<>>
        /\ at # "idle" /\ heard' = heard + 1
        /\ UNCHANGED <<kind, streamed, at, cause, outcome, seen, stopped, missed>>
    BY <1>3 DEF SandboxReads, Stopping
  <2>2. /\ child' \in Child /\ child'.life = child.life /\ child'.client = child.client
        /\ child'.code = child.code /\ child'.wrote = child.wrote
        /\ InPipe(child') + 1 = InPipe(child) /\ InPipe(child') \in Nat
    BY <1>1, <2>1, ReadChild, PipeLength
  <2>3. Types' /\ PlaceInv' /\ LifeInv'
    BY <1>1, <2>1, <2>2 DEF CallInv, Types, PlaceInv, LifeInv, Gone
  <2>4. outcome' = "none"
    BY <2>1 DEF CallInv, PlaceInv
  <2>5. BooksInv'
    BY <1>1, <2>1, <2>2, <2>4 DEF CallInv, BooksInv
  <2> QED BY <2>3, <2>4, <2>5 DEF CallInv, AnswersAreWhole, ReportsAreTrue
<1>4. CASE SandboxOverflows \/ SandboxTimesOut
  BY <1>4, TerminateKeeps DEF SandboxOverflows, SandboxTimesOut, Overflowed
<1>5. CASE SandboxFinishes
  <2>1. /\ at = "running" /\ kind \in Boxed /\ ~(heard > Limit) /\ Drained /\ Waitable
        /\ at' = "idle" /\ outcome' = "normal"
        /\ UNCHANGED <<kind, streamed, child, cause, heard, seen, stopped, missed>>
    BY <1>5 DEF SandboxFinishes, Over, Overflowed, Completed
  <2>2. child.life \in {"none", "dead"}
    BY <2>1 DEF CallInv, LifeInv, Waitable, ProcDead, Boxed
  <2>3. InPipe(child) = 0
    BY <1>1, <2>1, PipeLength DEF Drained
  <2>4. /\ heard + InPipe(child) = child.wrote /\ child.code # -9 /\ ~missed
        /\ cause = "none"
    BY <2>1 DEF CallInv, PlaceInv, BooksInv, Boxed, Cli
  <2>5. heard = child.wrote /\ heard <= Limit
    BY <1>1, <2>1, <2>3, <2>4
  <2>6. Types' /\ PlaceInv' /\ LifeInv'
    BY <2>1, <2>2 DEF CallInv, Types, PlaceInv, LifeInv, Gone, Place, CliStops, Stopping, FetchStage
  <2> QED BY <2>1, <2>4, <2>5, <2>6 DEF CallInv, BooksInv, AnswersAreWhole, ReportsAreTrue
<1>6. ASSUME NEW replied \in BOOLEAN, DockerKills(replied)
      PROVE  CallInv'
  <2>1. /\ at = "killing" /\ at' = "terminating"
        /\ UNCHANGED <<kind, streamed, cause, outcome, heard, seen, stopped>>
    BY <1>6 DEF DockerKills
  <2>2. kind = "docker" /\ cause \in {"limit", "timeout", "cancel"} /\ outcome = "none" /\ ~stopped
    BY <2>1 DEF CallInv, PlaceInv, Stopping, Cli
  <2>3. CASE replied /\ child.life = "alive"
    <3>1. child' = [Killed(child) EXCEPT !.client = FALSE] /\ missed' = missed
      BY <1>6, <2>3 DEF DockerKills, CallInv, Types
    <3>2. child' \in Child /\ child'.life = "dead"
      BY <1>1, <2>3, <3>1, KilledChild DEF Child
    <3> QED BY <2>1, <2>2, <3>1, <3>2 DEF CallInv, Types, PlaceInv, LifeInv, Gone, BooksInv,
                AnswersAreWhole, ReportsAreTrue, Place, CliStops, Stopping, FetchStage, Boxed
  <2>4. CASE ~(replied /\ child.life = "alive")
    <3>1. /\ child' = [child EXCEPT !.client = FALSE]
          /\ missed' = (missed \/ child.life # "dead")
      BY <1>6, <2>4 DEF DockerKills
    <3>2. child' \in Child /\ child'.life = child.life
      BY <1>1, <3>1 DEF Child
    <3>3. missed' \in BOOLEAN /\ (missed' \/ child'.life = "dead")
      BY <3>1, <3>2
    <3> QED BY <2>1, <2>2, <3>2, <3>3 DEF CallInv, Types, PlaceInv, LifeInv, Gone, BooksInv,
                AnswersAreWhole, ReportsAreTrue, Place, CliStops, Stopping, FetchStage, Boxed
  <2> QED BY <2>3, <2>4
<1>7. CASE SandboxReaped \/ SandboxUnreaped
  <2>1. /\ at \in {"terminating", "again"} /\ at' \in {"again", "collecting"}
        /\ child' \in {child, Released(child)}
        /\ UNCHANGED <<kind, streamed, cause, outcome, heard, seen, stopped, missed>>
    BY <1>7 DEF SandboxReaped, SandboxUnreaped, Moves
  <2>2. child' \in Child /\ child'.life = child.life
    BY <1>1, <2>1, ReleasedChild
  <2>3. outcome = "none"
    BY <2>1 DEF CallInv, PlaceInv
  <2> QED BY <2>1, <2>2, <2>3 DEF CallInv, Types, PlaceInv, LifeInv, Gone, BooksInv,
              AnswersAreWhole, ReportsAreTrue, Place, CliStops, Stopping, FetchStage
<1>8. ASSUME at = "collecting", Collected
      PROVE  CallInv'
  <2>1. /\ at' = "idle" /\ outcome' = Reported
        /\ UNCHANGED <<kind, streamed, child, cause, heard, seen, stopped, missed>>
    BY <1>8 DEF Collected, Over
  <2>2. /\ Reported \in {"limited", "timeout", "cancelled"}
        /\ Reported = "limited" => heard > Limit
    BY <1>8 DEF CallInv, PlaceInv, BooksInv, Reported, Stopping
  <2>3. Gone
    BY <1>8 DEF CallInv, LifeInv
  <2> QED BY <2>1, <2>2, <2>3 DEF CallInv, Types, PlaceInv, LifeInv, Gone, BooksInv,
              AnswersAreWhole, ReportsAreTrue, Place, CliStops, Stopping, FetchStage
<1>9. CASE SandboxCancelled
  <2>1. CASE kind \in Boxed /\ at # "idle" /\ Terminate("cancel")
    BY <2>1, TerminateKeeps
  <2>2. CASE /\ at \in {"killing", "terminating", "again"} /\ Over("cancelled")
             /\ missed' = (missed \/ (at = "killing" /\ child.life # "dead"))
             /\ UNCHANGED <<kind, streamed, child, cause, heard, seen, stopped>>
    <3>1. kind \in Boxed /\ (at = "killing" => kind = "docker")
      BY <2>2 DEF CallInv, PlaceInv, Stopping
    <3>2. missed' \in BOOLEAN /\ Gone'
      BY <2>2, <3>1 DEF CallInv, Types, LifeInv, Gone
    <3> QED BY <2>2, <3>1, <3>2 DEF Over, CallInv, Types, PlaceInv, LifeInv, BooksInv,
                AnswersAreWhole, ReportsAreTrue, Place, CliStops, Stopping, FetchStage
  <2> QED BY <1>8, <1>9, <2>1, <2>2 DEF SandboxCancelled, CallInv, PlaceInv, Stopping
<1> QED BY <1>2, <1>3, <1>4, <1>5, <1>6, <1>7, <1>8, <1>9
        DEF SandboxStep, SandboxWaits, SandboxCollects, SandboxAbandons

-----------------------------------------------------------------------------
(* A fetch, which leaves the child it does not have alone. *)

Resolution == {<<>>} \cup {<<a>> : a \in Address} \cup (Address \X Address)
Fate == {"refused", "failed", "encoded", "reached"}
AllRefused(fates, n) == \A i \in 1..n : fates[i] = "refused"
Checked(addresses) == \A i \in DOMAIN addresses : ~IsDisallowed(addresses[i])

(* Where a fetch stands with its addresses, one after the other refused. *)
FetchInv ==
  kind = "fetch" =>
    /\ fetch \in [addresses : Resolution, fates : Seq(Fate)]
    /\ at = "resolving" => fetch = NoFetch
    /\ at \in {"resolving", "connecting"} => heard = 0
    /\ at = "connecting" =>
         /\ AllRefused(fetch.fates, Len(fetch.fates))
         /\ Len(fetch.fates) < Len(fetch.addresses)
    /\ at = "reading" =>
         /\ fetch.fates # <<>> /\ fetch.fates[Len(fetch.fates)] = "reached"
         /\ heard < Limit
    /\ FetchesAreTrue

LEMMA ResolutionLength ==
  ASSUME NEW r \in Resolution
  PROVE  Len(r) \in Nat /\ (r # <<>> => Len(r) > 0)
<1>1. CASE r = <<>>
  BY <1>1, EmptySeq
<1>2. CASE r \in {<<a>> : a \in Address}
  BY <1>2
<1>3. CASE r \in Address \X Address
  BY <1>3
<1> QED BY <1>1, <1>2, <1>3 DEF Resolution

LEMMA FetchKeepsCall ==
  ASSUME CallInv, FetchStep \/ FetchCancelled
  PROVE  CallInv'
<1>1. /\ kind = "fetch" /\ (at = "idle" \/ at \in FetchStage)
      /\ UNCHANGED <<kind, streamed, child, stopped, missed>>
  BY DEF CallInv, PlaceInv, FetchStep, FetchCancelled, FetchRefuses, FetchStarts, FetchResolves,
    FetchConnects, FetchReads, FetchEnds, FetchExpires, FetchStops, FetchStage, Untouched, ownVars
<1>2. heard' \in Nat
  BY DEF CallInv, Types, FetchStep, FetchCancelled, FetchRefuses, FetchStarts, FetchResolves,
    FetchConnects, FetchReads, FetchEnds, FetchExpires, FetchStops, Untouched
<1>3. \/ at' \in FetchStage /\ outcome' = "none" /\ cause' = "none"
      \/ /\ at' = "idle" /\ cause' \in {"none", "timeout", "cancel"}
         /\ outcome' \in {"refused", "errored", "fetched", "timeout", "cancelled"}
  BY DEF CallInv, PlaceInv, FetchStep, FetchCancelled, FetchRefuses, FetchStarts, FetchResolves,
    FetchConnects, FetchReads, FetchEnds, FetchExpires, FetchStops, FetchStage, FetchOver, Over
<1>4. Gone
  BY <1>1 DEF CallInv, LifeInv, FetchStage
<1> QED BY <1>1, <1>2, <1>3, <1>4 DEF CallInv, Types, PlaceInv, LifeInv, Gone, BooksInv,
            AnswersAreWhole, ReportsAreTrue, Place, CliStops, Stopping, FetchStage, Boxed, Cli

LEMMA FetchKeeps ==
  ASSUME CallInv, FetchInv, FetchStep \/ FetchCancelled
  PROVE  FetchInv'
<1>1. kind = "fetch" /\ kind' = kind /\ heard \in Nat /\ Limit \in Nat \ {0}
  BY BoundsAssumption DEF CallInv, Types, PlaceInv, FetchStep, FetchCancelled, FetchRefuses,
         FetchStarts,
    FetchResolves, FetchConnects, FetchReads, FetchEnds, FetchExpires, FetchStops, FetchStage,
    Untouched, ownVars
<1>2. /\ fetch \in [addresses : Resolution, fates : Seq(Fate)]
      /\ Len(fetch.fates) \in Nat /\ Len(fetch.addresses) \in Nat
      /\ FetchesAreTrue
  BY <1>1, ResolutionLength, LenProperties DEF FetchInv
<1>3. NoFetch \in [addresses : Resolution, fates : Seq(Fate)] /\ Len(NoFetch.fates) = 0
  BY EmptySeq DEF NoFetch, Resolution
<1>4. CASE FetchRefuses \/ FetchStarts
  <2>1. /\ fetch' = NoFetch /\ heard' = 0
        /\ \/ at' = "idle" /\ outcome' = "refused"
           \/ at' = "resolving" /\ outcome' = "none"
    BY <1>4 DEF FetchRefuses, FetchStarts, FetchOver, Over
  <2> QED BY <1>1, <1>3, <2>1 DEF FetchInv, FetchesAreTrue
<1>5. CASE FetchResolves
  <2>1. PICK addresses \in Resolution :
          /\ fetch' = [fetch EXCEPT !.addresses = addresses]
          /\ IF addresses = <<>> \/ \E i \in DOMAIN addresses : IsDisallowed(addresses[i])
             THEN FetchOver("errored", "none")
             ELSE at' = "connecting" /\ UNCHANGED <<cause, outcome>>
    BY <1>5 DEF FetchResolves, Resolution
  <2>2. at = "resolving" /\ heard' = heard /\ heard = 0 /\ fetch = NoFetch /\ outcome = "none"
    BY <1>1, <1>5 DEF FetchResolves, FetchInv, CallInv, PlaceInv
  <2>3. /\ fetch' \in [addresses : Resolution, fates : Seq(Fate)]
        /\ fetch'.addresses = addresses /\ Len(fetch'.fates) = 0
    BY <1>3, <2>1, <2>2 DEF NoFetch
  <2>4. \/ at' = "idle" /\ outcome' = "errored"
        \/ /\ at' = "connecting" /\ outcome' = "none"
           /\ addresses # <<>> /\ Checked(addresses)
    BY <2>1, <2>2 DEF FetchOver, Over, Checked
  <2>5. at' = "connecting" => Len(addresses) > 0
    BY <2>4, ResolutionLength
  <2> QED BY <1>1, <2>2, <2>3, <2>4, <2>5 DEF FetchInv, FetchesAreTrue, AllRefused, Checked
<1>6. CASE FetchConnects
  <2>1. PICK fate \in Fate :
          /\ fetch' = [fetch EXCEPT !.fates = Append(@, fate)]
          /\ CASE fate = "reached" -> at' = "reading" /\ UNCHANGED <<cause, outcome>>
               [] fate = "refused" /\ Len(fetch.fates) + 1 < Len(fetch.addresses) ->
                    UNCHANGED <<at, cause, outcome>>
               [] OTHER -> FetchOver("errored", "none")
    BY <1>6 DEF FetchConnects, Fate
  <2>2. /\ at = "connecting" /\ heard' = heard /\ heard = 0 /\ outcome = "none"
        /\ AllRefused(fetch.fates, Len(fetch.fates)) /\ Len(fetch.fates) < Len(fetch.addresses)
        /\ Checked(fetch.addresses)
    BY <1>1, <1>2, <1>6 DEF FetchConnects, FetchInv, FetchesAreTrue, Checked, CallInv, PlaceInv
  <2> DEFINE tried == Len(fetch.fates)
  <2>3. /\ fetch' \in [addresses : Resolution, fates : Seq(Fate)]
        /\ fetch'.addresses = fetch.addresses
        /\ Len(fetch'.fates) = tried + 1 /\ fetch'.fates[tried + 1] = fate
        /\ AllRefused(fetch'.fates, tried)
    <3>1. fetch.fates \in Seq(Fate)
      BY <1>2
    <3>2. /\ Append(fetch.fates, fate) \in Seq(Fate)
          /\ Len(Append(fetch.fates, fate)) = tried + 1
          /\ Append(fetch.fates, fate)[tried + 1] = fate
          /\ \A i \in 1..tried : Append(fetch.fates, fate)[i] = fetch.fates[i]
      BY <3>1, AppendProperties
    <3>3. fetch' \in [addresses : Resolution, fates : Seq(Fate)]
          /\ fetch'.addresses = fetch.addresses /\ fetch'.fates = Append(fetch.fates, fate)
      BY <1>2, <2>1, <3>2
    <3> QED BY <2>2, <3>2, <3>3 DEF AllRefused
  <2>4. \/ fate = "reached" /\ at' = "reading" /\ outcome' = "none"
        \/ /\ fate = "refused" /\ tried + 1 < Len(fetch.addresses)
           /\ at' = "connecting" /\ outcome' = "none"
        \/ /\ fate = "refused" => tried + 1 >= Len(fetch.addresses)
           /\ at' = "idle" /\ outcome' = "errored"
    BY <1>2, <2>1, <2>2 DEF FetchOver, Over
  <2> HIDE DEF tried
  <2>5. tried \in Nat /\ tried < Len(fetch.addresses) /\ Len(fetch.addresses) \in Nat
    BY <1>2, <2>2 DEF tried
  <2>6. FetchesAreTrue'
    BY <1>1, <2>2, <2>3, <2>4, <2>5 DEF FetchesAreTrue, AllRefused, Checked
  <2>7. at' = "connecting" => AllRefused(fetch'.fates, tried + 1)
    BY <2>3, <2>4, <2>5 DEF AllRefused
  <2>8. at' = "reading" => fetch'.fates # <<>>
    BY <2>3, <2>5, EmptySeq
  <2> QED BY <1>1, <2>2, <2>3, <2>4, <2>5, <2>6, <2>7, <2>8 DEF FetchInv
<1>7. CASE FetchReads \/ FetchEnds("fetched") \/ FetchEnds("errored")
  <2>1. /\ at = "reading" /\ fetch' = fetch /\ cause = "none" /\ outcome = "none"
        /\ fetch.fates # <<>> /\ fetch.fates[Len(fetch.fates)] = "reached" /\ heard < Limit
    BY <1>1, <1>7 DEF FetchReads, FetchEnds, Untouched, FetchInv, CallInv, PlaceInv, FetchStage
  <2>2. /\ heard' \in Nat /\ heard' <= Limit
        /\ \/ at' = "reading" /\ outcome' = "none" /\ heard' < Limit
           \/ at' = "idle" /\ outcome' \in {"fetched", "errored"} /\ cause' = "none"
    BY <1>1, <1>7, <2>1 DEF FetchReads, FetchEnds, FetchOver, Over, Untouched
  <2> QED BY <1>1, <1>2, <2>1, <2>2 DEF FetchInv, FetchesAreTrue
<1>8. CASE FetchExpires \/ FetchCancelled
  <2>1. at' = "idle" /\ outcome' \in {"timeout", "cancelled"} /\ fetch' = fetch
    BY <1>8 DEF FetchExpires, FetchCancelled, FetchStops, FetchOver, Over
  <2> QED BY <1>1, <1>2, <2>1 DEF FetchInv, FetchesAreTrue
<1> QED BY <1>4, <1>5, <1>6, <1>7, <1>8 DEF FetchStep

-----------------------------------------------------------------------------
(* The wave. *)

(* The task ends between two calls, and the workspace of a run that nobody  *)
(* cancelled with it.                                                       *)
RunInv ==
  /\ task # "working" => at = "idle"
  /\ ~workspace /\ told = "no" => task # "working"

IInv == CallInv /\ FetchInv /\ RunInv

LEMMA InitHolds == Init => IInv
<1> SUFFICES ASSUME Init PROVE IInv
  OBVIOUS
<1>1. NoChild \in Child /\ InPipe(NoChild) = 0 /\ NoChild.life = "none"
  BY EmptySeq DEF NoChild, Child, Life, InPipe
<1>2. CallInv
  BY <1>1, BoundsAssumption DEF Init, CallInit, CallInv, Types, PlaceInv, LifeInv, Gone, BooksInv,
    AnswersAreWhole, ReportsAreTrue, Place, CliStops, Stopping, FetchStage, Cli, Boxed
<1>3. NoFetch \in [addresses : Resolution, fates : Seq(Fate)] /\ Len(NoFetch.fates) = 0
  BY EmptySeq DEF NoFetch, Resolution
<1>4. FetchInv
  BY <1>3 DEF Init, CallInit, FetchInv, FetchesAreTrue
<1>5. RunInv
  BY DEF Init, CallInit, RunInv
<1> QED BY <1>2, <1>4, <1>5 DEF IInv

(* Whoever has a child does not fetch. *)
LEMMA OthersKeepFetch ==
  ASSUME CallInv, FetchInv, UNCHANGED fetch,
         Environment \/ CliStep \/ CliTakesCancel \/ SandboxStep \/ SandboxCancelled
  PROVE  FetchInv'
<1>1. CASE Environment
  <2>1. UNCHANGED <<kind, at, cause, outcome, heard>>
    BY <1>1 DEF Environment, ChildWrites, ChildExits, ChildDetaches, HolderLetsGo, ContainerStarts,
      Become
  <2> QED BY <2>1 DEF FetchInv, FetchesAreTrue
<1>2. CASE CliStep \/ CliTakesCancel
  <2>1. kind' # "fetch"
    BY <1>2 DEF CallInv, PlaceInv, CliStops, Cli, CliStep, CliTakesCancel, CliRefuses, CliSpawns,
      CliHears, CliReads, CliWaits, CliFinishes, CliTimesOut, CliSettles, CliLetsGo, CliGivesUp,
      CliRaises, CliCancelled, CliCancelledAgain, Stop
  <2> QED BY <2>1 DEF FetchInv
<1>3. CASE SandboxStep \/ SandboxCancelled
  <2>1. kind' # "fetch"
    BY <1>3 DEF CallInv, PlaceInv, Stopping, Boxed, SandboxStep, SandboxCancelled, SandboxSpawns,
      SandboxReads, SandboxWaits, SandboxOverflows, SandboxFinishes, SandboxTimesOut, DockerKills,
      SandboxReaped, SandboxUnreaped, SandboxCollects, SandboxAbandons, Collected, Moves, Terminate
  <2> QED BY <2>1 DEF FetchInv
<1> QED BY <1>1, <1>2, <1>3

LEMMA StepKeeps == IInv /\ [Next]_vars => IInv'
<1> SUFFICES ASSUME IInv, [Next]_vars
             PROVE  IInv'
  OBVIOUS
<1>1. CASE ChildMoves
  <2>1. CallInv' /\ FetchInv'
    BY <1>1, EnvironmentKeeps, OthersKeepFetch DEF ChildMoves, IInv
  <2>2. UNCHANGED <<at, task, told, workspace>>
    BY <1>1 DEF ChildMoves, runVars, Environment, ChildWrites, ChildExits, ChildDetaches,
      HolderLetsGo, ContainerStarts, Become
  <2> QED BY <2>1, <2>2 DEF IInv, RunInv
<1>2. CASE CallMoves \/ CancelCall \/ CancelCallAgain
  <2>1. ASSUME CliStep \/ CliTakesCancel, UNCHANGED fetch
        PROVE  CallInv' /\ FetchInv'
    BY <2>1, CliKeeps, OthersKeepFetch DEF IInv
  <2>2. ASSUME SandboxStep \/ SandboxCancelled, UNCHANGED fetch
        PROVE  CallInv' /\ FetchInv'
    BY <2>2, SandboxKeeps, OthersKeepFetch DEF IInv
  <2>3. ASSUME FetchStep \/ FetchCancelled
        PROVE  CallInv' /\ FetchInv'
    BY <2>3, FetchKeepsCall, FetchKeeps DEF IInv
  <2>4. CallInv' /\ FetchInv'
    BY <1>2, <2>1, <2>2, <2>3 DEF CallMoves, CancelCall, CancelCallAgain, TakesCancel
  <2>5. RunInv'
    BY <1>2 DEF CallMoves, CancelCall, CancelCallAgain, runVars, IInv, RunInv
  <2> QED BY <2>4, <2>5 DEF IInv
<1>3. CASE UNCHANGED waitVars
  <2>1. CallInv'
    BY <1>3 DEF waitVars, callVars, IInv, CallInv, Types, PlaceInv, LifeInv, Gone, BooksInv,
      AnswersAreWhole, ReportsAreTrue, Lossy
  <2>2. FetchInv'
    BY <1>3 DEF waitVars, callVars, IInv, FetchInv, FetchesAreTrue
  <2>3. RunInv'
    BY <1>3 DEF Next, TaskEnds, SiblingEnds, CancelRun, GatherReturns, GatherRaises, Stopped, vars,
      waitVars, callVars, runVars, IInv, RunInv, ChildMoves, CallMoves, CancelCall, CancelCallAgain
  <2> QED BY <2>1, <2>2, <2>3 DEF IInv
<1> QED BY <1>1, <1>2, <1>3 DEF Next, TaskEnds, SiblingEnds, CancelRun, GatherReturns, GatherRaises,
                                Stopped, vars

LEMMA InvHolds == Spec => []IInv
BY InitHolds, StepKeeps, PTL DEF Spec

-----------------------------------------------------------------------------
(* However a call ends, nothing it has started lives on, for any child and  *)
(* any limits; a container that no docker kill reached is the exception     *)
(* (cli_agent.py:217, docker_sandbox.py).                                   *)
THEOREM NobodyIsOrphaned == Spec => []NoOrphans
<1>1. IInv => NoOrphans
  BY DEF IInv, CallInv, LifeInv, Gone, NoOrphans
<1> QED BY <1>1, InvHolds, PTL

(* An answer is whole, a report and a fetched text are of what happened,    *)
(* whatever raced with what (sandbox.py:160, cli_agent.py:83,               *)
(* fetch_url.py:206).                                                       *)
THEOREM OutcomesHappened == Spec => []OutcomesAreTrue
<1>1. IInv => OutcomesAreTrue
  BY DEF IInv, CallInv, FetchInv, FetchesAreTrue, OutcomesAreTrue
<1> QED BY <1>1, InvHolds, PTL

(* The workspace of a run that was not cancelled is removed when no call is *)
(* under way and no child lives in it (runtime.py:1317).                    *)
THEOREM WorkspaceGoesLast == Spec => []QuietWorkspace
<1>1. IInv => QuietWorkspace
  BY DEF IInv, CallInv, LifeInv, Gone, RunInv, QuietWorkspace
<1> QED BY <1>1, InvHolds, PTL
=============================================================================
