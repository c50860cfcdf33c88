------------------------------ MODULE DirectRun ------------------------------
(***************************************************************************)
(* One run of the command line on its default path: main and _aexecute of  *)
(* cli.py around answer_directly of direct.py, which walks the router's    *)
(* ranking with one call to a model at a time.  HTTP calls are HttpCall's; *)
(* a CLI agent's call, detailed in CliCall, is its outcome here.           *)
(*                                                                         *)
(*   building   _build, with the live probe of a subscription planner      *)
(*   routing    answer_directly has validated the goal                     *)
(*   choosing   at the head of its loop                                    *)
(*   calling    the provider is called                                     *)
(*   replied    it has answered or raised                                  *)
(*   verifying  _verify_final's derivation call                            *)
(*   returned   main has a RunResult                                       *)
(*   printing   and has recorded it                                        *)
(*   exited, interrupted  the process has ended; code is its exit status   *)
(***************************************************************************)
EXTENDS Routing, HttpCall, CostMeter, Verification

CONSTANTS
  Table,        \* models a user may have configured
  MaxModels,    \* bound: how many at once
  MaxVerified,  \* bound: how many at once with --verify
  Estimates,    \* input estimates of the goal
  Cap,          \* VOLANTE_MAX_SUBSCRIPTION_CALLS
  MaxAttempts   \* _MAX_PLAN_ATTEMPTS of the probing Supervisor

ASSUME DirectAssumption ==
  /\ MaxModels \in Nat \ {0} /\ MaxVerified \in Nat /\ Cap \in Nat /\ MaxAttempts \in Nat \ {0}
  /\ Estimates \subseteq Nat \ {0}
  /\ Table \subseteq Models /\ IsFiniteSet(Table)

VARIABLES
  inventory, prefer, estimate, streams, verifies,  \* the configuration
  at,
  walk,       \* models still to be tried, the current one first
  tried,      \* history: models tried and what came of it
  preflight,  \* calls of the probe
  counted,    \* sub_calls
  meter,      \* cost_meter; preflight_meter while building
  use,        \* what the reply says it used
  result,     \* the RunResult
  recorded,   \* lines appended to the ledger
  code,       \* exit status, -1 before
  pipe,       \* "open", "closed": whether anyone reads our standard output
  physical,   \* history: subscription calls made
  spent,      \* history: what the completed calls cost
  program     \* history: what the detector's program came to

config == <<inventory, prefer, estimate, streams, verifies>>
walkVars == <<walk, tried, counted>>
endVars == <<result, recorded, code>>
costVars == <<meter, use, spent>>
worldVars == <<pipe, preflight, physical, program>>
vars == <<config, httpVars, at, walkVars, costVars, endVars, worldVars>>

NoProgram == [whole |-> FALSE, total |-> 0, wrong |-> 0]
NoChecks == CheckReport(-1, 0, FALSE)  \* None
NoResult ==
  [status |-> "none", model |-> 0, calls |-> 0, billed |-> 0, credit |-> 0, estimated |-> FALSE,
   stop |-> "none", text |-> 0, checks |-> NoChecks]

TypeOK ==
  /\ inventory \subseteq Table
  /\ prefer \in Objective
  /\ HttpTypeOK
  /\ at \in {"building", "routing", "choosing", "calling", "replied",
             "verifying", "returned", "printing", "exited", "interrupted"}
  /\ \A n \in {preflight, counted, recorded, physical, spent.billed, spent.credit} : n \in Nat
  /\ code \in {-1, 0, 1, 2, 120, 130}
  /\ pipe \in {"open", "closed"}

Init ==
  /\ inventory \in {S \in SUBSET Table : Cardinality(S) \in 1..MaxModels /\ Distinct(S)}
  /\ prefer \in Objective
  /\ estimate \in Estimates
  /\ streams \in BOOLEAN
  /\ verifies \in IF Cardinality(inventory) > MaxVerified THEN {FALSE} ELSE BOOLEAN
  /\ HttpInit
  /\ at = "building"
  /\ walk = <<>> /\ tried = <<>> /\ counted = 0
  /\ meter = NewMeter /\ use = NoTokens
  /\ result = NoResult /\ recorded = 0 /\ code = -1
  /\ pipe = "open"
  /\ preflight = 0 /\ physical = 0
  /\ spent = [billed |-> 0, credit |-> 0, estimated |-> FALSE, models |-> {}]
  /\ program = NoProgram

-----------------------------------------------------------------------------
IsPlan(m) == m.billing \in Subscription
One(b) == IF b THEN 1 ELSE 0

(* _planner_model_id from a baseline that draws on a subscription: the     *)
(* best card model if there is any; else the baseline, probed first.       *)
Planner ==
  LET cards == {m \in inventory : ~IsPlan(m)}
      before(m, n) == \/ m.tier > n.tier
                      \/ m.tier = n.tier /\ m.costOut < n.costOut
                      \/ m.tier = n.tier /\ m.costOut = n.costOut /\ m.id <= n.id
  IN  IF cards # {} THEN CHOOSE m \in cards : \A n \in cards : before(m, n)
      ELSE CHOOSE m \in inventory : \A n \in inventory : m.id <= n.id
PlannerIsPlan == IsPlan(Planner)

(* What a response to m with so much text may say it used: an adapter that *)
(* finds no token counts on the wire estimates them, and only Claude Code  *)
(* names a price.                                                          *)
IsCli(m) == m.transport \in {"claude", "codex"}
Uses(m, text) ==
  {Usage(2, text, estimated, usd) :
     estimated \in BOOLEAN, usd \in {NoPrice} \cup (IF m.transport = "claude" THEN {9} ELSE {})}

(* History: what a response costs by itself.                               *)
Owed(m, u) == IF u.usd = NoPrice THEN u.in * m.costIn + u.out * m.costOut ELSE u.usd
Paid(cost, m, u) ==
  [billed |-> cost.billed + IF IsPlan(m) THEN 0 ELSE Owed(m, u),
   credit |-> cost.credit + IF IsPlan(m) THEN Owed(m, u) ELSE 0,
   estimated |-> cost.estimated \/ u.estimated, models |-> cost.models \cup {m}]
Spend(m, u) == spent' = Paid(spent, m, u)
Metered == meter' = Add(meter, Head(walk).id, use) /\ use' = NoTokens /\ UNCHANGED spent

(* The goal as the router sees it. *)
Goal == [type |-> "code", difficulty |-> "medium", agentic |-> FALSE, estimate |-> estimate]

(* A piece whose flush failed is still in the buffer of standard output.   *)
Unflushed == \E i \in DOMAIN tried : tried[i].why = "pipe"

(* main returns; the interpreter's last flush, when it fails, has the last *)
(* word on the exit status.                                                *)
Exits(status) ==
  at' = "exited" /\ code' = IF Unflushed /\ pipe = "closed" THEN 120 ELSE status

(* Or standard output has been pointed at /dev/null first.                 *)
HandlesBrokenPipe == at' = "exited" /\ code' = 0

-----------------------------------------------------------------------------
(* A call of the probe, or of its correction, that reserve_preflight       *)
(* admits and that is answered, with a plan or not.                        *)
ProbeCalls ==
  /\ at = "building" /\ PlannerIsPlan
  /\ preflight < Cap /\ preflight < MaxAttempts
  /\ preflight' = preflight + 1
  /\ physical' = physical + 1
  /\ \E u \in Uses(Planner, 1) : meter' = Add(meter, Planner.id, u) /\ Spend(Planner, u)
  /\ UNCHANGED <<config, httpVars, at, walkVars, use, endVars, pipe, program>>

(* There was nothing to probe, or the last probe's plan was accepted; the  *)
(* meter of the runtime starts from that of the probe.                     *)
BuildDone ==
  /\ at = "building"
  /\ PlannerIsPlan => preflight > 0
  /\ at' = "routing"
  /\ meter' = Merge(NewMeter, meter)
  /\ UNCHANGED <<config, httpVars, walkVars, use, spent, endVars, worldVars>>

(* RuntimeError: the cap, a provider's error, no plan that parses. *)
BuildFails ==
  /\ at = "building" /\ PlannerIsPlan
  /\ Exits(2)
  /\ UNCHANGED <<config, httpVars, walkVars, costVars, result, recorded, worldVars>>

(* route_ranked; NoEligibleModelError goes through to main. *)
Routes ==
  /\ at = "routing"
  /\ walk' = Ranked(inventory, Goal, prefer)
  /\ IF walk' = <<>> THEN Exits(1) ELSE at' = "choosing" /\ UNCHANGED code
  /\ UNCHANGED <<config, httpVars, tried, counted, costVars, result, recorded, worldVars>>

-----------------------------------------------------------------------------
(* The call is counted before it is made, whatever comes of it. *)
Calls ==
  /\ at = "choosing" /\ walk # <<>>
  /\ counted' = counted + One(IsPlan(Head(walk)))
  /\ physical' = physical + One(IsPlan(Head(walk)))
  /\ at' = "calling"
  /\ IF IsCli(Head(walk))
     THEN reply' = NoReply /\ UNCHANGED <<http, pieces, stop>>
     ELSE HttpOpens
  /\ UNCHANGED <<config, walk, tried, costVars, endVars, pipe, preflight, program>>

Completes ==
  /\ IF reply'.kind = "response"
     THEN \E u \in Uses(Head(walk), reply'.text) : use' = u /\ Spend(Head(walk), u)
     ELSE UNCHANGED <<use, spent>>
  /\ UNCHANGED meter

(* What the HTTP provider does next. *)
HttpStep ==
  /\ at = "calling" /\ http # "closed"
  /\ LET m == Head(walk) IN
     \/ HttpFails(m.transport, m.billing)
     \/ ~streams /\ HttpAnswers(m.transport)
     \/ streams /\ HttpStartsStream
     \/ HttpPiece(m.transport, m.billing, pipe = "open")
     \/ \E wire \in {"stop", "length", "tool_calls"} : HttpStopReason(wire)
     \/ HttpEndsStream
  /\ at' = IF http' = "closed" THEN "replied" ELSE "calling"
  /\ Completes
  /\ UNCHANGED <<config, walkVars, endVars, worldVars>>

(* What a CLI agent's call comes to (CliCall): a whole answer, one whose   *)
(* terminal envelope is missing or names no success, an error; or what     *)
(* on_text raised, once the child is killed.                               *)
CliStep ==
  /\ at = "calling" /\ IsCli(Head(walk))
  /\ \/ \E n \in 0..MaxPieces, reason \in {"end_turn", "no_terminal_result"} :
          /\ streams /\ n > 0 => pipe = "open"
          /\ reply' = Response(n, reason)
     \/ reply' = Error("cli", NetworkError, Head(walk).billing)
     \/ streams /\ pipe = "closed" /\ reply' = Escapes("BrokenPipeError")
  /\ at' = "replied"
  /\ Completes
  /\ UNCHANGED <<config, http, pieces, stop, walkVars, endVars, worldVars>>

-----------------------------------------------------------------------------
MovesOn(why) ==
  /\ tried' = Append(tried, [id |-> Head(walk).id, why |-> why])
  /\ walk' = Tail(walk)
  /\ at' = "choosing"
  /\ UNCHANGED <<code, result>>

(* Mutant: an error that is neither transient nor the candidate's own ends *)
(* the walk.                                                               *)
ProviderFailedFast ==
  /\ at = "replied" /\ reply.kind = "error"
  /\ LET f == reply.flags IN
     IF f.retryable \/ f.quota \/ f.candidate \/ f.provider THEN MovesOn("unavailable")
     ELSE Exits(1) /\ UNCHANGED <<walk, tried, result>>
  /\ UNCHANGED <<config, httpVars, counted, costVars, recorded, worldVars>>

(* Any ProviderError moves the walk on. *)
ProviderFailed ==
  /\ at = "replied" /\ reply.kind = "error"
  /\ MovesOn(IF reply.err = BrokenPipe THEN "pipe" ELSE "unavailable")
  /\ UNCHANGED <<config, httpVars, counted, costVars, recorded, worldVars>>

(* What is no ProviderError goes through answer_directly to main. *)
Escaped ==
  /\ at = "replied" /\ reply.kind = "raised"
  /\ IF reply.why = "BrokenPipeError" THEN HandlesBrokenPipe ELSE Exits(1)
  /\ UNCHANGED <<config, httpVars, walkVars, costVars, result, recorded, worldVars>>

Complete == {"end_turn", "stop_sequence"}

(* ensure_complete_response raises past the loop, which only catches what  *)
(* call_provider raises: there is no RunResult.                            *)
Incomplete ==
  /\ at = "replied" /\ reply.kind = "response" /\ reply.stop \notin Complete
  /\ Metered
  /\ Exits(1)
  /\ UNCHANGED <<config, httpVars, walkVars, result, recorded, worldVars>>

Blank ==
  /\ at = "replied" /\ reply.kind = "response"
  /\ reply.stop \in Complete /\ reply.text = 0
  /\ Metered
  /\ MovesOn("blank")
  /\ UNCHANGED <<config, httpVars, counted, recorded, worldVars>>

(* What the RunResult says of the money, from the meter as it is then.     *)
Bill(status, calls, book) ==
  LET costs == CostsUsd(book, inventory) IN
  [NoResult EXCEPT !.status = status, !.calls = calls, !.billed = costs.billed,
     !.credit = costs.credit, !.estimated = book.estimated]
Answer(calls, book, checks) ==
  [Bill("success", calls, book) EXCEPT !.model = Head(walk).id, !.stop = reply.stop,
     !.text = reply.text, !.checks = checks]

(* An answer: returned, or handed to the detector, whose derivation call   *)
(* is the planner's.                                                       *)
Answered ==
  /\ at = "replied" /\ reply.kind = "response"
  /\ reply.stop \in Complete /\ reply.text > 0
  /\ Metered
  /\ IF verifies
     THEN at' = "verifying" /\ physical' = physical + One(PlannerIsPlan) /\ UNCHANGED result
     ELSE /\ at' = "returned" /\ UNCHANGED physical
          /\ result' = Answer(counted, meter', NoChecks)
  /\ UNCHANGED <<config, httpVars, walkVars, recorded, code, pipe, preflight, program>>

Detected(checks) ==
  /\ at' = "returned"
  /\ result' = Answer(counted + One(PlannerIsPlan), meter', checks)
  /\ UNCHANGED <<config, httpVars, walkVars, use, recorded, code, pipe, preflight, physical>>

(* The derivation fails or times out: _verify_final reports as much, and   *)
(* never raises.                                                           *)
NotDerived ==
  /\ at = "verifying"
  /\ UNCHANGED <<meter, spent, program>>
  /\ Detected(NotChecked)

(* Assertions are derived.  The answer's code may have a block, which may  *)
(* close in several places; the sandbox may not start, or cut the program  *)
(* short.                                                                  *)
Derived ==
  /\ at = "verifying"
  /\ \E u \in Uses(Planner, 1) : meter' = Add(meter, Planner.id, u) /\ Spend(Planner, u)
  /\ \/ UNCHANGED program /\ Detected(NotChecked)
     \/ \E total \in {0, MinGroundedChecks - 1, MinGroundedChecks},
           text, finishes \in BOOLEAN, closes \in {<<>>, <<TRUE>>, <<FALSE>>, <<FALSE, TRUE>>} :
          \E wrong \in {0, 1} \cap 0..total :
            /\ program' = [whole |-> finishes /\ IF closes = <<>> THEN text ELSE TRUE \in ToSet(closes),
                           total |-> total, wrong |-> wrong]
            /\ Detected(Verified(total, wrong, Parses(text, closes) /\ finishes))

(* The ranking is exhausted. *)
Exhausted ==
  /\ at = "choosing" /\ walk = <<>>
  /\ result' = Bill("failed", counted, meter)
  /\ at' = "returned"
  /\ UNCHANGED <<config, httpVars, walkVars, costVars, recorded, code, worldVars>>

-----------------------------------------------------------------------------
(* record_run, where the ledger is on and can be written. *)
Records ==
  /\ at = "returned"
  /\ recorded' = recorded + 1
  /\ at' = "printing"
  /\ UNCHANGED <<config, httpVars, walkVars, costVars, result, code, worldVars>>

(* What the summary says of the run: the price and how far to trust it,    *)
(* and what came of the checks, if any.                                    *)
SubscriptionModels == {m \in inventory : IsPlan(m) /\ m.id \in DOMAIN meter.totals}
Summary ==
  [billed |-> result.billed, credit |-> result.credit, estimated |-> result.estimated,
   unpriced |-> Unpriced(meter, inventory),
   subscriptions |-> Cardinality(SubscriptionModels), calls |-> result.calls,
   checks |-> IF Ran(result.checks) THEN Reading(result.checks) ELSE "not shown"]

(* It is printed.  With nobody to read it the write raises, or it stays in   *)
(* the buffer until the interpreter's last flush, which fails.             *)
Prints ==
  /\ at = "printing"
  /\ \/ pipe = "open" /\ Exits(One(result.status # "success"))
     \/ pipe = "closed" /\ HandlesBrokenPipe
     \/ pipe = "closed" /\ at' = "exited" /\ code' = 120
  /\ UNCHANGED <<config, httpVars, walkVars, costVars, result, recorded, worldVars>>

(* The reader of our standard output goes away. *)
ReaderCloses ==
  /\ at \notin {"exited", "interrupted"} /\ pipe = "open"
  /\ pipe' = "closed"
  /\ UNCHANGED <<config, httpVars, at, walkVars, costVars, endVars, preflight, physical, program>>

(* Ctrl-C while building, at an await of a call or of the detector, or     *)
(* while the run is recorded and printed; asyncio.run, told of it after the *)
(* last await, raises and drops the RunResult.  Who handles it writes, and  *)
(* with no reader that write raises past main.                             *)
Interrupted ==
  /\ at \in {"building", "calling", "verifying", "returned", "printing"}
  /\ result' = result \/ (at = "returned" /\ result' = NoResult)
  /\ at' = "interrupted" /\ code' = IF pipe = "closed" THEN 120 ELSE 130
  /\ UNCHANGED <<config, httpVars, walkVars, costVars, recorded, worldVars>>

Progress ==
  \/ ProbeCalls \/ BuildDone \/ BuildFails \/ Routes
  \/ Calls \/ HttpStep \/ CliStep
  \/ ProviderFailed \/ Escaped \/ Incomplete \/ Blank \/ Answered
  \/ NotDerived \/ Derived \/ Exhausted
  \/ Records \/ Prints
Next == Progress \/ ReaderCloses \/ Interrupted

Spec == Init /\ [][Next]_vars

-----------------------------------------------------------------------------
Ids(s) == [i \in DOMAIN s |-> s[i].id]
Answering == result.status = "success"
Final == at = "exited"

(* Whatever the objective prefers, every eligible model is ranked, once: a *)
(* model set aside is still there when the others fail.  Who must cut the  *)
(* input comes after who need not; under the objective                     *)
(* that protects the quota no subscription is drawn on before an adequate  *)
(* card model, the hard tasks apart; and price never decides on quality.   *)
RankingHonoursObjective ==
  at = "routing" =>
    \A difficulty \in Difficulty, agentic \in BOOLEAN :
      LET q == [Goal EXCEPT !.difficulty = difficulty, !.agentic = agentic]
          r == Ranked(inventory, q, prefer)
          free == {[m EXCEPT !.costIn = 0, !.costOut = 0] : m \in inventory}
          merit(s) == [i \in DOMAIN s |-> <<Score(s[i], ToSet(s), q), s[i].tier>>]
      IN  /\ ToSet(r) = Eligible(inventory, q) /\ IsInjective(r)
          /\ \A i, j \in DOMAIN r :
               i < j => ~(Truncates(r[i], q) /\ ~Truncates(r[j], q))
          /\ prefer = "cash_protect_quota" /\ difficulty # "hard" =>
               \A i, j \in DOMAIN r :
                 /\ i < j /\ IsPlan(r[i]) /\ ~IsPlan(r[j])
                 /\ Truncates(r[i], q) = Truncates(r[j], q)
                 /\ \E k \in DOMAIN r : ~Truncates(r[k], q)
                 => r[j].tier < DesiredTier[difficulty]
          /\ prefer = "quality" => merit(r) = merit(Ranked(free, q, prefer))

(* Leaving out the priors that all candidates share never turns two        *)
(* candidates round whose scores differed by more than rounding can make   *)
(* up: a hundredth of a point.                                             *)
ReweightingIsFair ==
  at = "routing" =>
    LET S == Eligible(inventory, Goal)
        raw(m) == SumOver(Component, [c \in Component |-> Components(m, Goal)[c].contribution])
    IN  \A m, n \in S :
          raw(m) > raw(n) + 100 => Score(m, S, Goal) > Score(n, S, Goal)

(* The ranking is what the objective promises of these candidates, at any   *)
(* difficulty, and only what tells them apart decides it (router.py:570).   *)
RankingIsFair == RankingHonoursObjective /\ ReweightingIsFair

(* The walk forgets nobody: an error ends a run only when no candidate is  *)
(* left, a failed run has tried them all, in the router's order, and an    *)
(* answer is the first there was.                                          *)
WalkIsComplete ==
  LET ranking == Ids(Ranked(inventory, Goal, prefer))
      steps == Ids(tried)
  IN  /\ Final /\ reply.kind = "error" => walk = <<>>
      /\ at = "returned" =>
           steps \o (IF Answering THEN <<result.model>> ELSE <<>>) =
             SubSeq(ranking, 1, Len(tried) + One(Answering))
      /\ at = "returned" /\ ~Answering => Len(steps) = Len(ranking)

(* A stream's answer is all the server sent, and the server said it was    *)
(* all.                                                                    *)
AnswerIsWhole ==
  Answering /\ streams /\ (\E m \in inventory : m.id = result.model /\ ~IsCli(m))
    => stop = "stop" /\ result.text = pieces

(* The summary's two ledgers show what each completed call cost by itself, *)
(* blank answers, the probe's and the detector's included, a call that     *)
(* named its price at that price and any other at its model's rates; the   *)
(* mark of an estimate is there if one of them was; whoever was used for   *)
(* nothing is named as unpriced, unless only its input is free and it said *)
(* nothing; and a subscription that was used has its calls counted, those  *)
(* of the probe apart.                                                     *)
BillIsTrue ==
  result.status # "none" =>
    /\ Summary.calls = physical - preflight
    /\ Summary.billed = spent.billed /\ Summary.credit = spent.credit
    /\ Summary.estimated = spent.estimated
    /\ \A m \in spent.models :
         \/ m \in Summary.unpriced \/ Charged(meter, m) > 0
         \/ m.costIn = 0 /\ At(meter.totals, m.id).out = 0
    /\ Summary.subscriptions > 0 => Summary.calls > 0

(* The summary says "all passed" of an answer only when its code ran to    *)
(* the end with enough assertions and none was false; it says that the     *)
(* code could not run only when it could not, wherever a fence inside the  *)
(* code might have closed the block; and it never costs an answer.         *)
ChecksAreTrue ==
  Answering =>
    LET r == result.checks IN
    /\ Summary.checks = "all passed" =>
         program.whole /\ program.wrong = 0 /\ program.total >= MinGroundedChecks
    /\ r.total > 0 => (r.error <=> ~program.whole)
    /\ Summary.checks = "some failed" => program.wrong > 0

(* A run is in the ledger once if it came to a result, even when nobody    *)
(* reads its output, and not otherwise; only Ctrl-C, at any moment until   *)
(* the process ends, may keep out one that has a result, and it never      *)
(* brings in one that has none.  The exit status claims no answer that the *)
(* run has not got, and denies none that was read.                         *)
ReportIsTrue ==
  /\ recorded =< One(result.status # "none")
  /\ Final =>
       /\ recorded = One(result.status # "none")
       /\ code = 0 => Answering \/ pipe = "closed"
       /\ Answering => code = 0 \/ pipe = "closed"
  /\ at = "interrupted" => code # 0

(* What is printed, returned, billed and recorded is one true story of one *)
(* answer, or of none (direct.py:134, cli.py:639).                         *)
AnswerIsTrue == AnswerIsWhole /\ BillIsTrue /\ ChecksAreTrue /\ ReportIsTrue

(* A reader that closes our output in mid-stream is not a failure of the   *)
(* program: "exit cleanly -- a closed downstream reader is not a volante   *)
(* failure" (cli.py:574).                                                  *)
PipeIsNoFailure == Final /\ Unflushed => code = 0
=============================================================================
