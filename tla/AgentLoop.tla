------------------------------ MODULE AgentLoop ------------------------------
(***************************************************************************)
(* AgenticWorker.run of agent.py: model and tools take turns until the     *)
(* model answers or a limit stops the loop.  One exchange is the batch of  *)
(* calls a reply asks for with what each of them returned; its results are *)
(* clipped to what is left of the transcript's budget.  Sizes are in       *)
(* characters and are all the model keeps of a text, next to whether a     *)
(* tool's result is an error.                                              *)
(***************************************************************************)
EXTENDS Integers, Sequences, Functions

CONSTANTS
  Known,         \* the registry: names of the tools there are
  Batches,       \* what a reply may ask for: sequences of [name, wellFormed]
  Results,       \* what a tool may return: [error, size]
  Refusal,       \* the result the loop writes itself
  Prompts,       \* sizes the first messages and the tool specs may have
  ReplySizes,    \* sizes of an assistant message
  NudgeSize,
  Budget,        \* _effective_char_budget
  MaxIters,
  MaxRetries,
  MaxToolCalls,  \* _MAX_TOOL_CALLS_PER_TURN
  MaxNudges      \* _MAX_STALL_NUDGES

Reply == UNION {{b[k] : k \in DOMAIN b} : b \in Batches}

ASSUME AgentAssumption ==
  /\ Results \subseteq [error : BOOLEAN, size : Nat]
  /\ Refusal \in [error : {TRUE}, size : Nat]
  /\ \A b \in Batches : b \in Seq(Reply)
  /\ MaxIters \in Nat /\ MaxRetries \in Nat /\ MaxToolCalls \in Nat /\ MaxNudges \in Nat
  /\ Prompts \subseteq Nat /\ ReplySizes \subseteq Nat /\ NudgeSize \in Nat /\ Budget \in Int

VARIABLES
  declared,   \* required_tools is not None
  required,   \* required_tools
  place,      \* "turn", "ready", "calling", "backoff", "tools", "over"
  iter,       \* i
  attempt,    \* of _call_with_retry
  chars,      \* _estimate_chars of messages, with the tool specs
  asked,      \* tool_uses of this turn
  replySize,  \* size of the assistant message that holds them
  answers,    \* raw_results, in their order
  usedTools,  \* used_tool_names
  satisfied,  \* satisfied_tool_names
  stalls,
  exchanges,  \* the turns of messages so far, oldest first
  sent,      \* history: provider calls let through the gate
  result     \* what run returned or raised

turnVars == <<place, attempt, sent, result>>
toolVars == <<asked, replySize, answers, usedTools, satisfied>>
transcriptVars == <<iter, chars, stalls, exchanges>>
loopVars == <<declared, required, turnVars, toolVars, transcriptVars>>

LoopInit ==
  /\ declared \in BOOLEAN
  /\ required \in IF declared THEN SUBSET Known ELSE {{}}
  /\ place = "turn"
  /\ iter = 0 /\ attempt = 0
  /\ chars \in Prompts
  /\ asked = <<>> /\ replySize = 0 /\ answers = <<>>
  /\ usedTools = {} /\ satisfied = {}
  /\ stalls = 0
  /\ exchanges = <<>>
  /\ sent = 0
  /\ result = "running"

Ends(why) == place' = "over" /\ result' = why

-----------------------------------------------------------------------------
(* Mutant: range(max_iters + 1). *)
StartTurnOnceMore ==
  /\ place = "turn"
  /\ iter <= MaxIters /\ chars <= Budget
  /\ place' = "ready"
  /\ attempt' = 0
  /\ UNCHANGED <<declared, required, sent, result, toolVars, transcriptVars>>

(* The top of the for loop, and what follows its last turn. *)
StartTurn ==
  /\ place = "turn"
  /\ iter < MaxIters /\ chars <= Budget
  /\ place' = "ready"
  /\ attempt' = 0
  /\ UNCHANGED <<declared, required, sent, result, toolVars, transcriptVars>>
LoopStops ==
  /\ place = "turn"
  /\ iter = MaxIters \/ chars > Budget
  /\ Ends(IF iter = MaxIters THEN "exhausted" ELSE "over_budget")
  /\ UNCHANGED <<declared, required, attempt, sent, toolVars, transcriptVars>>

(* The gate raises quota_exhausted, which is not retried. *)
GateRefuses ==
  /\ place = "ready"
  /\ Ends("unavailable")
  /\ UNCHANGED <<declared, required, attempt, sent, toolVars, transcriptVars>>
Call ==
  /\ place = "ready"
  /\ place' = "calling"
  /\ sent' = sent + 1
  /\ UNCHANGED <<declared, required, attempt, result, toolVars, transcriptVars>>

(* A timeout or a retryable error. *)
BackOff ==
  /\ place = "calling"
  /\ attempt < MaxRetries
  /\ place' = "backoff"
  /\ attempt' = attempt + 1
  /\ UNCHANGED <<declared, required, sent, result, toolVars, transcriptVars>>
Wake ==
  /\ place = "backoff"
  /\ place' = "ready"
  /\ UNCHANGED <<declared, required, attempt, sent, result, toolVars, transcriptVars>>

(* What leaves _call_with_retry is never retryable: an exhausted transient
   error has become provider_unavailable; a request error stays what it is. *)
CallFails ==
  /\ place = "calling"
  /\ \/ Ends("unavailable")   \* at once, or after the last attempt
     \/ Ends("rejected")      \* a request error
     \/ Ends("crashed")       \* an exception of another type
  /\ UNCHANGED <<declared, required, attempt, sent, toolVars, transcriptVars>>

(* Runtime's wait_for around the whole run strikes at any await. *)
TimedOut ==
  /\ place \in {"calling", "backoff", "tools"}
  /\ Ends("timeout")
  /\ UNCHANGED <<declared, required, attempt, sent, toolVars, transcriptVars>>

-----------------------------------------------------------------------------
(* The model stops without asking for tools: what its text is worth. *)
Assessed(text) ==
  IF text # "incomplete" /\ (~(required \subseteq satisfied) \/ (~declared /\ usedTools = {}))
  THEN "unproved" ELSE text
Answer ==
  /\ place = "calling"
  /\ \E text \in {"incomplete", "blank", "answer"} : Ends(Assessed(text))
  /\ UNCHANGED <<declared, required, attempt, sent, toolVars, transcriptVars>>

(* The reply asks for tools, possibly for none. *)
AskTools ==
  /\ place = "calling"
  /\ place' = "tools"
  /\ asked' \in Batches
  /\ replySize' \in ReplySizes
  /\ answers' = <<>>
  /\ UNCHANGED <<declared, required, attempt, sent, result, usedTools, satisfied,
                 transcriptVars>>

(* The batch one call after the other: past the limit and for an unknown
   name it is refused; malformed arguments count as use of the tool. *)
NextCall == asked[Len(answers) + 1]
Admitted == Len(answers) < MaxToolCalls /\ NextCall.name \in Known
RefuseCall ==
  /\ place = "tools" /\ Len(answers) < Len(asked)
  /\ ~Admitted \/ ~NextCall.wellFormed
  /\ answers' = Append(answers, Refusal)
  /\ usedTools' = IF Admitted THEN usedTools \cup {NextCall.name} ELSE usedTools
  /\ UNCHANGED <<declared, required, turnVars, asked, replySize, satisfied, transcriptVars>>
(* Mutant: a tool is satisfied by having been run. *)
RunToolSatisfies ==
  /\ place = "tools" /\ Len(answers) < Len(asked)
  /\ Admitted /\ NextCall.wellFormed
  /\ \E r \in Results : answers' = Append(answers, r)
  /\ satisfied' = satisfied \cup {NextCall.name}
  /\ usedTools' = usedTools \cup {NextCall.name}
  /\ UNCHANGED <<declared, required, turnVars, asked, replySize, transcriptVars>>

RunTool ==
  /\ place = "tools" /\ Len(answers) < Len(asked)
  /\ Admitted /\ NextCall.wellFormed
  /\ \E r \in Results :
       /\ answers' = Append(answers, r)
       /\ satisfied' = IF r.error THEN satisfied ELSE satisfied \cup {NextCall.name}
  /\ usedTools' = usedTools \cup {NextCall.name}
  /\ UNCHANGED <<declared, required, turnVars, asked, replySize, transcriptVars>>

(* A tool must not raise for an expected failure; one that does ends the run. *)
ToolRaises ==
  /\ place = "tools" /\ Len(answers) < Len(asked)
  /\ Admitted /\ NextCall.wellFormed
  /\ Ends("crashed")
  /\ UNCHANGED <<declared, required, attempt, sent, toolVars, transcriptVars>>

(* _trim_tool_result keeps the head and the tail around a marker. *)
Clip(size, share) == IF size <= share THEN size ELSE share

(* Mutant: the share forgets the message that asked. *)
ShareBeforeReply ==
  IF asked = <<>> \/ chars >= Budget THEN 0 ELSE (Budget - chars) \div Len(asked)

Share ==
  IF asked = <<>> \/ chars + replySize >= Budget THEN 0
  ELSE (Budget - chars - replySize) \div Len(asked)

(* Mutant: calls past the limit get no result. *)
KeptOfAdmitted ==
  [k \in 1..IF Len(answers) < MaxToolCalls THEN Len(answers) ELSE MaxToolCalls |->
     Clip(answers[k].size, Share)]

Kept == [k \in DOMAIN answers |-> Clip(answers[k].size, Share)]
Total(sizes) == FoldFunction(LAMBDA x, y : x + y, 0, sizes)

Latest == exchanges[Len(exchanges)]
Repeated == exchanges # <<>> /\ Latest.asked = asked /\ Latest.answers = answers

(* Mutant: the count of stalls survives a turn that moves on. *)
StallsSticky == IF Repeated THEN stalls + 1 ELSE stalls

Stalls == IF Repeated THEN stalls + 1 ELSE 0
Nudged == Repeated /\ Stalls <= MaxNudges

(* The turn is closed: messages grow by the reply, its results and, when the
   exchange is the last one over again, by a warning; or the loop gives up. *)
CloseTurn ==
  /\ place = "tools" /\ Len(answers) = Len(asked)
  /\ chars' = chars + replySize + Total(Kept) + IF Nudged THEN NudgeSize ELSE 0
  /\ exchanges' = Append(exchanges,
       [asked |-> asked, answers |-> answers, kept |-> Kept, nudged |-> Nudged])
  /\ stalls' = Stalls
  /\ IF Stalls > MaxNudges
       THEN Ends("no_progress") /\ UNCHANGED iter
       ELSE place' = "turn" /\ iter' = iter + 1 /\ UNCHANGED result
  /\ UNCHANGED <<declared, required, attempt, sent, toolVars>>

LoopNext ==
  \/ StartTurn \/ LoopStops
  \/ GateRefuses \/ Call \/ BackOff \/ Wake \/ CallFails \/ TimedOut
  \/ Answer \/ AskTools \/ RefuseCall \/ RunTool \/ ToolRaises \/ CloseTurn

LoopSpec == LoopInit /\ [][LoopNext]_loopVars

-----------------------------------------------------------------------------
Outcome == {"running", "answer", "blank", "incomplete", "unproved", "rejected", "unavailable",
            "timeout", "crashed", "over_budget", "exhausted", "no_progress"}

LoopTypeOK ==
  /\ declared \in BOOLEAN
  /\ required \subseteq Known
  /\ place \in {"turn", "ready", "calling", "backoff", "tools", "over"}
  /\ iter \in 0..MaxIters
  /\ attempt \in 0..MaxRetries
  /\ asked \in Seq(Reply)
  /\ answers \in Seq(Results \cup {Refusal}) /\ Len(answers) <= Len(asked)
  /\ satisfied \subseteq usedTools /\ usedTools \subseteq Known
  /\ stalls \in 0..MaxNudges + 1
  /\ Len(exchanges) <= iter + 1
  /\ sent \in Nat
  /\ result \in Outcome /\ (place = "over" <=> result # "running")

(* Some exchange of the transcript holds a result of the tool that is no
   error. *)
Obtained(tool, xs) ==
  \E i \in DOMAIN xs : \E k \in DOMAIN xs[i].asked :
    xs[i].asked[k].name = tool /\ ~xs[i].answers[k].error

(* An answer is accepted only with what the task declared it needs really
   obtained, whichever turn it was in and whatever was refused around it; and
   a caller that declared nothing gets none from a model that used no tool. *)
AnswerHasEvidence ==
  result \in {"answer", "blank"} =>
    /\ \A tool \in required : Obtained(tool, exchanges)
    /\ ~declared =>
         \E i \in DOMAIN exchanges : \E k \in DOMAIN exchanges[i].asked :
           exchanges[i].asked[k].name \in Known

(* Every call of a reply has its result in the next message, the refused ones
   included: providers reject a transcript with a call unanswered. *)
NoCallUnanswered ==
  \A i \in DOMAIN exchanges : DOMAIN exchanges[i].kept = DOMAIN exchanges[i].asked

Same(x, y) == x.asked = y.asked /\ x.answers = y.answers
Stuck ==
  /\ Len(exchanges) >= MaxNudges + 2
  /\ \A i \in Len(exchanges) - MaxNudges .. Len(exchanges) : Same(exchanges[i], exchanges[i - 1])

(* The loop gives up for want of progress exactly when its last exchanges are
   all the same one, the warnings to the model between them: never on a model
   that moved in between, and never a call later. *)
StuckIsStopped == Stuck <=> result = "no_progress"

(* Results are clipped so that a verbose tool alone never overflows the
   transcript: past the budget there was no room for a character of them, or a
   warning came on top. *)
ToolsNeverOverflow ==
  chars > Budget /\ exchanges # <<>> => Latest.nudged \/ \A k \in DOMAIN Latest.kept : Latest.kept[k] = 0

Class ==
  IF result = "running" THEN "none"
  ELSE IF result \in {"answer", "blank"} THEN result
  ELSE IF result \in {"unavailable", "timeout"} THEN "reroute"
  ELSE IF result \in {"unproved", "crashed"} THEN "unexpected"
  ELSE "semantic"

Contract == INSTANCE AgentContract WITH
  MaxCalls <- MaxIters * (MaxRetries + 1), made <- sent, ending <- Class

(* The loop is what Runtime takes it for: its calls are bounded by turns and
   attempts, and nothing is called once it has ended. *)
KeepsAgentContract == Contract!AgentSpec

=============================================================================
