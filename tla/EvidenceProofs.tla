---------------------------- MODULE EvidenceProofs ----------------------------
(***************************************************************************)
(* Proofs about Evidence, whatever the settings, the overrides, the        *)
(* profiles files and the suites are.                                      *)
(*                                                                         *)
(* The start is one inductive invariant, StartInv.  Its core is AskedInv:  *)
(* models, providers and baseline are, position by position, what has been *)
(* asked for so far; it needs no stage, and every family keeps it because  *)
(* it refuses an id that is taken.  What the registry has let through      *)
(* makes the models fit for the router, whose ranking (RankedAreRankedWell *)
(* of DataTheorems) then gives a phase each stand-in once.                 *)
(*                                                                         *)
(* The suite is another, VerdictInv: the finished rounds are the first of  *)
(* those asked for (RoundsInv), one more is at work (ArmsInv), and what    *)
(* was spent is the sum over both (MoneyInv).  The report sums by goal     *)
(* what the rounds have one by one; sums regroup (SumGroups), a winner of  *)
(* compare_arms is the arm that beats the others, and a significant pair   *)
(* of goals has one sign.                                                  *)
(*                                                                         *)
(* The campaign is CampaignInv: the runs, the measurements and the         *)
(* profiles are each what the step before makes of them (RunsInv,          *)
(* FileInv), so a written file is what WrittenIs says of the runs.         *)
(* MeasuredInv follows the start that waits for it and asks for a wire     *)
(* that was measured: no stage refuses it, and the registry keeps its      *)
(* profile as it was read.                                                 *)
(***************************************************************************)
EXTENDS Evidence, DataTheorems

-----------------------------------------------------------------------------
(* The scorer. *)

(* Most steps leave the scorer alone. *)
Quiet == UNCHANGED scorerVars

LEMMA ScorerQuiet ==
  ASSUME NoScorerSurvives, Quiet
  PROVE  NoScorerSurvives'
BY DEF NoScorerSurvives, Quiet, scorerVars

(* A process step needs a process, and there is none.                       *)
LEMMA ScorerStepKeeps ==
  ASSUME NoScorerSurvives, ScorerStep \/ ScoreStarts \/ GradeTaken
  PROVE  NoScorerSurvives'
<1>1. ASSUME ProcessStep PROVE NoScorerSurvives'
  <2>1. scorer = "waiting" /\ scorer' = scorer
    BY <1>1 DEF NoScorerSurvives, ProcessStep, ServerStarts, ServerReady, SolutionForks,
                ServerDies, RunnerReports, RunnerExits
  <2>. QED  BY <2>1 DEF NoScorerSurvives
<1>2. ASSUME ScoreEnds \/ ScoreTimesOut PROVE NoScorerSurvives'
  BY <1>2 DEF ScoreEnds, ScoreTimesOut, Finally, KillGroup, NoScorerSurvives
<1>3. ASSUME ScoreStarts PROVE NoScorerSurvives'
  BY <1>3 DEF ScoreStarts, NoScorerSurvives
<1>4. ASSUME GradeTaken PROVE NoScorerSurvives'
  BY <1>4 DEF GradeTaken, NoScorerSurvives
<1>. QED  BY <1>1, <1>2, <1>3, <1>4 DEF ScorerStep

LEMMA ScorerShape ==
  ASSUME [Next]_vars
  PROVE  Quiet \/ ScorerStep \/ ScoreStarts \/ GradeTaken
<1>1. CASE UNCHANGED vars
  BY <1>1 DEF vars, Quiet
<1>2. CASE SetupStep
  BY <1>2 DEF SetupStep, Quiet
<1>3. CASE CampaignStep
  BY <1>3 DEF CampaignStep, AsksModel, GradesProse, SendsToScorer, TakesGrade, WritesMeasurements,
              Calibrates, Quiet
<1>4. CASE SuiteStep
  BY <1>4 DEF SuiteStep, ArmRuns, BaselineRaises, GradesArm, TakesArmGrade, EndsRound, Reports,
              Quiet
<1>. QED  BY <1>1, <1>2, <1>3, <1>4 DEF Next, BenchStep

(* However a grading ends, and whatever the solution did, nothing of it is  *)
(* there when the next one starts but what has left the process group       *)
(* (harness.py:411).                                                        *)
THEOREM NothingOutlivesGrading == Spec => []NoScorerSurvives
<1>1. Init => NoScorerSurvives
  BY DEF Init, BenchInit, NoBench, ScorerInit, NoScorerSurvives
<1>2. NoScorerSurvives /\ [Next]_vars => NoScorerSurvives'
  BY ScorerShape, ScorerQuiet, ScorerStepKeeps
<1>. QED  BY <1>1, <1>2, PTL DEF Spec

-----------------------------------------------------------------------------
(* What has been asked for. *)

Request == [family : Family, wire : Nat, id : Nat]
Served ==
  [id : Nat, provider : STRING, strengths : SUBSET STRING, context : Int, maxOut : Int,
   tools : BOOLEAN, costIn : Int, costOut : Int, tier : Int, billing : {"card", "plan_included"}]
BillingOf(family) == IF family \in {"claude", "codex"} THEN "plan_included" ELSE "card"
Plans == {"claude", "codex"}

(* Whatever has been asked for is served, under an id of its own.           *)
AskedInv ==
  /\ asked \in Seq(Request) /\ models \in Seq(Served)
  /\ Len(models) = Len(asked)
  /\ \A i \in 1..Len(asked) :
       /\ models[i].id = asked[i].id
       /\ models[i].provider = ProviderName[asked[i].family]
       /\ models[i].billing = BillingOf(asked[i].family)
       /\ providers[asked[i].id] = [family |-> asked[i].family, wire |-> asked[i].wire]
  /\ \A i, j \in 1..Len(asked) : asked[i].id = asked[j].id => i = j
  /\ DOMAIN providers = {asked[i].id : i \in 1..Len(asked)}
  /\ baseline = IF asked = <<>> THEN Null ELSE asked[1].id

(* What is known of a model is known in full. *)
Known(f) ==
  /\ f.context \in Int /\ f.maxOut \in Int /\ f.tools \in BOOLEAN
  /\ f.costIn \in Int /\ f.costOut \in Int /\ f.tier \in Int

LEMMA FactsAre ==
  ASSUME NEW family \in Family, NEW wire \in Nat
  PROVE  Known(Facts(family, wire))
<1>1. Known(AnthropicFacts(wire))
  <2>1. CASE wire \in KnownWires
    BY <2>1, SMT DEF AnthropicFacts, Rates, Known
  <2>2. CASE wire \notin KnownWires
    BY <2>2, SMT DEF AnthropicFacts, Rates, Known
  <2>. QED  BY <2>1, <2>2
<1>2. Known(CompatFacts)
  BY SMT DEF CompatFacts, Rates, Known
<1>3. Known(MoonshotFacts)
  BY SMT DEF MoonshotFacts, Rates, Known
<1>4. Known(OllamaFacts) /\ Known(ClaudeFacts) /\ Known(CodexFacts)
  BY SMT DEF OllamaFacts, ClaudeFacts, CodexFacts, Rates, Known
<1>. QED  BY <1>1, <1>2, <1>3, <1>4 DEF Facts, Family

(* An index past the first n is one of the k that follow. *)
LEMMA Beyond ==
  ASSUME NEW n \in Nat, NEW k \in Nat, NEW i \in 1..n + k, i \notin 1..n
  PROVE  i - n \in 1..k /\ n + (i - n) = i
  OBVIOUS

IsModel(m, family, id) ==
  m \in Served /\ m.id = id /\ m.provider = ProviderName[family] /\ m.billing = BillingOf(family)

(* A model is entered under the id and the provider it was asked with. *)
LEMMA InfoIs ==
  ASSUME NEW family \in Family, NEW wire \in Nat, NEW id \in Nat, NEW settings,
         settings.tier \in Metadata, settings.price \in Metadata
  PROVE  IsModel(ModelInfo(family, wire, id, settings), family, id)
<1>. DEFINE f == Facts(family, wire)
            m == ModelInfo(family, wire, id, settings)
            price(rate) == IF family \in {"claude", "codex"} THEN rate
                           ELSE MetadataValue(settings.price, rate)
<1>1. /\ f.context \in Int /\ f.maxOut \in Int /\ f.tools \in BOOLEAN
      /\ f.costIn \in Int /\ f.costOut \in Int /\ f.tier \in Int
  BY FactsAre DEF Known
<1>2. m = [id |-> id, provider |-> ProviderName[family],
       strengths |-> {"coding", "reasoning"} \cup
                     (IF family \in {"anthropic", "claude"} THEN {"long_context"} ELSE {}),
       context |-> f.context, maxOut |-> f.maxOut, tools |-> f.tools,
       costIn |-> price(f.costIn), costOut |-> price(f.costOut),
       tier |-> MetadataValue(settings.tier, f.tier),
       billing |-> BillingOf(family)]
  BY DEF ModelInfo, BillingOf
<1>3. \A x \in Int : price(x) \in Int /\ MetadataValue(settings.tier, x) \in Int
  BY DEF MetadataValue, Metadata
<1>4. ProviderName[family] \in STRING
  BY WordsAssumption DEF Family, ProviderName
<1>5. BillingOf(family) \in {"card", "plan_included"}
  BY DEF BillingOf
<1>. HIDE DEF f, m, price
<1>6. m.id = id /\ m.provider = ProviderName[family] /\ m.billing = BillingOf(family)
  BY <1>2
<1>7. /\ price(f.costIn) \in Int /\ price(f.costOut) \in Int
      /\ MetadataValue(settings.tier, f.tier) \in Int
  BY <1>1, <1>3
<1>8. {"coding", "reasoning"} \cup
        (IF family \in {"anthropic", "claude"} THEN {"long_context"} ELSE {}) \in SUBSET STRING
  <2>1. {"coding", "reasoning"} \in SUBSET STRING /\ {"long_context"} \in SUBSET STRING
    BY WordsAssumption
  <2>. QED  BY <2>1
<1>9. m \in Served
  BY <1>1, <1>2, <1>4, <1>5, <1>7, <1>8 DEF Served
<1>. QED  BY <1>6, <1>9 DEF m, IsModel

(* A list without duplicates is as long as the set of what it lists.        *)
LEMMA AllDiffer ==
  ASSUME NEW s, NEW n \in Nat, DOMAIN s = 1..n, Len(s) = n
  PROVE  NoDuplicates(s) <=> \A i, j \in 1..n : s[i] = s[j] => i = j
<1>. DEFINE S == {s[i] : i \in 1..n}
            f == [i \in 1..n |-> s[i]]
<1>1. f \in Surjection(1..n, S)
  <2>1. f \in [1..n -> S] /\ \A y \in S : \E i \in 1..n : f[i] = y
    OBVIOUS
  <2>. HIDE DEF f, S
  <2>. QED  BY <2>1 DEF Surjection
<1>2. IsFiniteSet(1..n) /\ Cardinality(1..n) = n
  <2>1. 1 \in Int /\ n \in Int
    OBVIOUS
  <2>. QED  BY <2>1, FS_Interval
<1>3. Cardinality(S) = n <=> f \in Injection(1..n, S)
  <2>. HIDE DEF f, S
  <2>. QED  BY <1>1, <1>2, FS_Surjection
<1>4. f \in Injection(1..n, S) <=> \A i, j \in 1..n : s[i] = s[j] => i = j
  <2>1. f \in [1..n -> S]
    OBVIOUS
  <2>2. f \in Injection(1..n, S) <=> \A i, j \in 1..n : f[i] = f[j] => i = j
    <3>. HIDE DEF f, S
    <3>. QED  BY <2>1 DEF Injection, IsInjective
  <2>. QED  BY <2>2
<1>5. NoDuplicates(s) <=> Cardinality(S) = n
  BY DEF NoDuplicates
<1>. QED  BY <1>3, <1>4, <1>5

(* One sequence after another. *)
Concatenates(c, a, b) ==
  /\ Len(c) = Len(a) + Len(b)
  /\ \A i \in 1..Len(a) : c[i] = a[i]
  /\ \A i \in 1..Len(b) : c[Len(a) + i] = b[i]

LEMMA JoinIs ==
  ASSUME NEW T, NEW a \in Seq(T), NEW b \in Seq(T), NEW c, c = a \o b
  PROVE  c \in Seq(T) /\ Concatenates(c, a, b)
BY DEF Concatenates

(* A family adds its models behind those there are: the ids are fresh, so no  *)
(* provider is replaced, and the first model of all stays the baseline.       *)
LEMMA RegistersKeeps ==
  ASSUME AskedInv, NEW family \in Family, NEW wires \in Seq(Nat), NEW ids \in Seq(Nat),
         Len(ids) = Len(wires), NEW settings,
         \A i \in 1..Len(wires) : settings[i].tier \in Metadata /\ settings[i].price \in Metadata,
         Fresh(ids), Asks(family, wires, ids), Registers(family, wires, ids, settings)
  PROVE  AskedInv'
<1>. DEFINE n == Len(asked)
            k == Len(wires)
            more == [i \in 1..k |-> [family |-> family, wire |-> wires[i], id |-> ids[i]]]
            new == [i \in 1..k |-> ModelInfo(family, wires[i], ids[i], settings[i])]
            was == asked
            had == models
<1>1. /\ n \in Nat /\ k \in Nat /\ DOMAIN wires = 1..k /\ DOMAIN ids = 1..k
      /\ \A i \in 1..k : wires[i] \in Nat /\ ids[i] \in Nat
      /\ was \in Seq(Request) /\ had \in Seq(Served) /\ Len(had) = n
  <2>1. was \in Seq(Request) /\ had \in Seq(Served) /\ Len(had) = n
    BY DEF AskedInv
  <2>2. n \in Nat /\ k \in Nat
    BY <2>1
  <2>. HIDE DEF n, was, had, more, new
  <2>3. DOMAIN wires = 1..k /\ DOMAIN ids = 1..k /\ \A i \in 1..k : wires[i] \in Nat /\ ids[i] \in Nat
    OBVIOUS
  <2>. QED  BY <2>1, <2>2, <2>3
<1>2. asked' = was \o more /\ models' = had \o new
  BY <1>1 DEF Asks, Registers
<1>3. more \in Seq(Request) /\ Len(more) = k
  BY <1>1 DEF Request
<1>4. \A i \in 1..k : more[i].family = family /\ more[i].wire = wires[i] /\ more[i].id = ids[i]
  OBVIOUS
<1>5. \A i \in 1..k : /\ new[i] \in Served /\ new[i].id = ids[i]
                      /\ new[i].provider = ProviderName[family]
                      /\ new[i].billing = BillingOf(family)
  <2>. TAKE i \in 1..k
  <2>1. new[i] = ModelInfo(family, wires[i], ids[i], settings[i])
    OBVIOUS
  <2>2. /\ wires[i] \in Nat /\ ids[i] \in Nat
        /\ settings[i].tier \in Metadata /\ settings[i].price \in Metadata
    BY <1>1
  <2>. DEFINE info == ModelInfo(family, wires[i], ids[i], settings[i])
  <2>3. /\ info \in Served /\ info.id = ids[i] /\ info.provider = ProviderName[family]
        /\ info.billing = BillingOf(family)
    <3>1. IsModel(info, family, ids[i])
      BY <2>2, InfoIs
    <3>. HIDE DEF info
    <3>. QED  BY <3>1 DEF IsModel
  <2>. HIDE DEF new, info
  <2>. QED  BY <2>1, <2>3 DEF info
<1>6. new \in Seq(Served) /\ Len(new) = k
  <2>1. new = [i \in 1..k |-> new[i]]
    OBVIOUS
  <2>. HIDE DEF new
  <2>. QED  BY <1>1, <1>5, <2>1
<1>. HIDE DEF more, new, was, had
<1>7. /\ asked' \in Seq(Request) /\ Len(asked') = n + k
      /\ \A i \in 1..n : asked'[i] = asked[i]
      /\ \A i \in 1..k : asked'[n + i] = more[i]
  <2>1. Len(was) = n
    BY DEF was
  <2>2. asked' \in Seq(Request) /\ Concatenates(asked', was, more)
    <3>1. was \in Seq(Request) /\ more \in Seq(Request) /\ asked' = was \o more
      BY <1>1, <1>2, <1>3
    <3>. QED  BY <3>1, JoinIs, Zenon
  <2>. QED  BY <1>3, <2>1, <2>2 DEF was, Concatenates
<1>8. /\ models' \in Seq(Served) /\ Len(models') = n + k
      /\ \A i \in 1..n : models'[i] = models[i]
      /\ \A i \in 1..k : models'[n + i] = new[i]
  <2>2. models' \in Seq(Served) /\ Concatenates(models', had, new)
    <3>1. had \in Seq(Served) /\ new \in Seq(Served) /\ models' = had \o new
      BY <1>1, <1>2, <1>6
    <3>. QED  BY <3>1, JoinIs, Zenon
  <2>. QED  BY <1>1, <1>6, <2>2 DEF had, Concatenates
<1>9. ASSUME NEW i \in 1..n + k, i \notin 1..n
      PROVE  /\ i - n \in 1..k /\ n + (i - n) = i
             /\ asked'[i].family = family /\ asked'[i].wire = wires[i - n]
             /\ asked'[i].id = ids[i - n] /\ models'[i] = new[i - n]
  <2>1. i - n \in 1..k /\ n + (i - n) = i
    BY <1>1, <1>9, Beyond
  <2>. DEFINE j == i - n
  <2>. HIDE DEF j
  <2>2. j \in 1..k /\ n + j = i
    BY <2>1 DEF j
  <2>3. asked'[i] = more[j] /\ models'[i] = new[j]
    BY <1>7, <1>8, <2>2
  <2>4. asked'[i].family = family /\ asked'[i].wire = wires[j] /\ asked'[i].id = ids[j]
    BY <1>4, <2>2, <2>3
  <2>. QED  BY <2>1, <2>3, <2>4 DEF j
<1>10. /\ \A i, j \in 1..k : ids[i] = ids[j] => i = j
       /\ \A i \in 1..k : ids[i] \notin DOMAIN providers
  <2>1. NoDuplicates(ids) /\ \A i \in 1..k : ids[i] \notin DOMAIN providers
    BY <1>1 DEF Fresh
  <2>2. \A i, j \in 1..k : ids[i] = ids[j] => i = j
    BY <1>1, <2>1, AllDiffer
  <2>. QED  BY <2>1, <2>2
<1>11. /\ DOMAIN providers' = {ids[i] : i \in 1..k} \cup DOMAIN providers
       /\ \A i \in 1..k : providers'[ids[i]] = [family |-> family, wire |-> wires[i]]
       /\ \A id \in DOMAIN providers : providers'[id] = providers[id]
  <2>. DEFINE S == {ids[i] : i \in 1..k}
              place(id) == CHOOSE j \in 1..k : ids[j] = id
  <2>1. providers' = [id \in DOMAIN providers \cup S |->
                        IF id \in DOMAIN providers THEN providers[id]
                        ELSE [family |-> family, wire |-> wires[place(id)]]]
    BY <1>1 DEF Registers
  <2>2. \A i \in 1..k : place(ids[i]) = i
    BY <1>10
  <2>. HIDE DEF place
  <2>. QED  BY <1>10, <2>1, <2>2
<1>12. DOMAIN providers = {asked[i].id : i \in 1..n}
  BY DEF AskedInv
<1>13. DOMAIN providers' = {asked'[i].id : i \in 1..n + k}
  <2>1. ASSUME NEW id \in DOMAIN providers' PROVE \E i \in 1..n + k : id = asked'[i].id
    <3>1. CASE id \in DOMAIN providers
      <4>1. PICK i \in 1..n : id = asked[i].id
        BY <1>12, <3>1
      <4>2. i \in 1..n + k
        BY <1>1
      <4>. QED  BY <1>7, <4>1, <4>2
    <3>2. CASE id \in {ids[i] : i \in 1..k}
      <4>1. PICK i \in 1..k : id = ids[i]
        BY <3>2
      <4>2. n + i \in 1..n + k
        BY <1>1
      <4>3. asked'[n + i].id = id
        BY <1>4, <1>7, <4>1
      <4>. QED  BY <4>2, <4>3
    <3>. QED  BY <1>11, <3>1, <3>2
  <2>2. ASSUME NEW i \in 1..n + k PROVE asked'[i].id \in DOMAIN providers'
    <3>1. CASE i \in 1..n
      BY <1>7, <1>11, <1>12, <3>1
    <3>2. CASE i \notin 1..n
      <4>1. i - n \in 1..k /\ asked'[i].id = ids[i - n]
        BY <1>9, <3>2
      <4>. QED  BY <1>11, <4>1
    <3>. QED  BY <3>1, <3>2
  <2>. QED  BY <2>1, <2>2
<1>14. \A i \in 1..n + k :
         /\ models'[i].id = asked'[i].id
         /\ models'[i].provider = ProviderName[asked'[i].family]
         /\ models'[i].billing = BillingOf(asked'[i].family)
         /\ providers'[asked'[i].id] = [family |-> asked'[i].family, wire |-> asked'[i].wire]
  <2>. TAKE i \in 1..n + k
  <2>1. CASE i \in 1..n
      <3>1. asked'[i] = asked[i] /\ models'[i] = models[i] /\ asked[i].id \in DOMAIN providers
      BY <1>7, <1>8, <1>12, <2>1
    <3>2. /\ models[i].id = asked[i].id
          /\ models[i].provider = ProviderName[asked[i].family]
          /\ models[i].billing = BillingOf(asked[i].family)
          /\ providers[asked[i].id] = [family |-> asked[i].family, wire |-> asked[i].wire]
      BY <2>1 DEF AskedInv
    <3>. QED  BY <1>11, <3>1, <3>2
  <2>2. CASE i \notin 1..n
    <3>. DEFINE j == i - n
    <3>1. /\ j \in 1..k
          /\ asked'[i].family = family /\ asked'[i].wire = wires[j]
          /\ asked'[i].id = ids[j] /\ models'[i] = new[j]
      BY <1>9, <2>2
    <3>. HIDE DEF j
    <3>2. providers'[ids[j]] = [family |-> family, wire |-> wires[j]]
      BY <1>11, <3>1
    <3>3. /\ models'[i].id = ids[j] /\ models'[i].provider = ProviderName[family]
          /\ models'[i].billing = BillingOf(family)
      BY <1>5, <3>1
    <3>. QED  BY <3>1, <3>2, <3>3
  <2>. QED  BY <2>1, <2>2
<1>15. \A i, j \in 1..n + k : asked'[i].id = asked'[j].id => i = j
  <2>1. ASSUME NEW i \in 1..n + k
        PROVE  \/ i \in 1..n /\ asked'[i].id = asked[i].id /\ asked'[i].id \in DOMAIN providers
               \/ i - n \in 1..k /\ n + (i - n) = i /\ asked'[i].id = ids[i - n]
                  /\ asked'[i].id \notin DOMAIN providers
    <3>1. CASE i \in 1..n
      BY <1>7, <1>12, <3>1
    <3>2. CASE i \notin 1..n
      <4>1. i - n \in 1..k /\ n + (i - n) = i /\ asked'[i].id = ids[i - n]
        BY <1>9, <3>2
      <4>. QED  BY <1>10, <4>1
    <3>. QED  BY <3>1, <3>2
  <2>2. \A i, j \in 1..n : asked[i].id = asked[j].id => i = j
    BY DEF AskedInv
  <2>. TAKE i, j \in 1..n + k
  <2>. HAVE asked'[i].id = asked'[j].id
  <2>3. CASE asked'[i].id \in DOMAIN providers
    BY <2>1, <2>2, <2>3
  <2>4. CASE asked'[i].id \notin DOMAIN providers
    <3>1. i - n = j - n /\ n + (i - n) = i /\ n + (j - n) = j
      BY <1>10, <2>1, <2>4
    <3>. QED  BY <3>1
  <2>. QED  BY <2>3, <2>4
<1>16. baseline' = IF asked' = <<>> THEN Null ELSE asked'[1].id
  <2>1. baseline' = IF baseline = Null /\ ids # <<>> THEN ids[1] ELSE baseline
    BY DEF Registers
  <2>2. CASE asked # <<>>
    <3>1. 1 \in 1..n /\ asked' # <<>>
      BY <1>1, <1>7, <2>2 DEF AskedInv
    <3>2. baseline = asked[1].id /\ asked[1] \in Request
      BY <2>2, <3>1 DEF AskedInv
    <3>3. baseline # Null
      BY <3>2, NullAssumption DEF Request
    <3>. QED  BY <1>7, <2>1, <3>1, <3>2, <3>3
  <2>3. CASE asked = <<>> /\ ids # <<>>
    <3>1. n = 0 /\ k # 0 /\ 1 \in 1..k
      BY <1>1, <2>3
    <3>2. asked'[n + 1] = more[1] /\ more[1].id = ids[1] /\ Len(asked') # 0
      BY <1>1, <1>4, <1>7, <3>1
    <3>3. asked'[1].id = ids[1] /\ asked' # <<>>
      BY <3>1, <3>2
    <3>. QED  BY <2>1, <2>3, <3>3 DEF AskedInv
  <2>4. CASE asked = <<>> /\ ids = <<>>
    <3>1. n = 0 /\ k = 0
      BY <1>1, <2>4
    <3>2. asked' = <<>>
      BY <1>7, <3>1
    <3>. QED  BY <2>1, <2>4, <3>2 DEF AskedInv
  <2>. QED  BY <2>2, <2>3, <2>4
<1>. QED  BY <1>7, <1>8, <1>13, <1>14, <1>15, <1>16 DEF AskedInv

(* A family that is off, or refused, changes nothing of it. *)
LEMMA NothingNew ==
  ASSUME AskedInv, UNCHANGED <<asked, models, providers, baseline>>
  PROVE  AskedInv'
BY DEF AskedInv

(* Anthropic, Moonshot, Ollama. *)
LEMMA ListedKeeps ==
  ASSUME AskedInv, NEW family \in Listed, NEW s \in FamilySettings, ReadsListed(family, s)
  PROVE  AskedInv'
<1>. DEFINE wires == ModelList(s.plural, s.singular, <<DefaultWire[family]>>)
            ids == IdsOf(family, s, wires)
            fits == Parsable(wires) /\ NamesFit(s, wires) /\ Fresh(ids)
<1>1. CASE ~s.on /\ Skips(family)
  BY <1>1, NothingNew DEF Skips
<1>2. CASE s.on /\ ~fits /\ Refuses /\ UNCHANGED asked
  BY <1>2, NothingNew DEF Refuses
<1>3. ASSUME s.on, fits, Asks(family, wires, ids), Registers(family, wires, ids, Same(s, wires))
      PROVE  AskedInv'
  <2>1. /\ s.plural \in Names /\ s.singular \in Names /\ s.names \in Names /\ s.name \in Names
        /\ s.tier \in Metadata /\ s.price \in Metadata
    BY <1>3 DEF FamilySettings, Off
  <2>2. /\ family \in Family /\ Prefix[family] \in Nat /\ DefaultWire[family] \in Nat
    BY SMT DEF Listed, Family, Prefix, DefaultWire
  <2>3. <<DefaultWire[family]>> \in Seq(Nat)
    BY <2>2
  <2>4. wires \in Seq(Nat)
    BY <2>1, <2>3 DEF ModelList, Names
  <2>. HIDE DEF wires
  <2>5. ids \in Seq(Nat) /\ Len(ids) = Len(wires)
    <3>1. CASE GivesNames(s)
      <4>1. ids = Given(s) /\ Given(s) \in Names \ {Null}
        BY <2>1, <3>1 DEF IdsOf, GivesNames, Given
      <4>. QED  BY <1>3, <3>1, <4>1 DEF NamesFit, Names
    <3>2. CASE ~GivesNames(s)
      <4>1. ids = [i \in 1..Len(wires) |-> Prefix[family] + wires[i]]
        BY <2>4, <3>2 DEF IdsOf
      <4>. HIDE DEF ids
      <4>. QED  BY <2>2, <2>4, <4>1
    <3>. QED  BY <3>1, <3>2
  <2>. HIDE DEF ids
  <2>. DEFINE settings == Same(s, wires)
  <2>6. \A i \in 1..Len(wires) : settings[i].tier \in Metadata /\ settings[i].price \in Metadata
    BY <2>1, <2>4 DEF Same
  <2>7. Registers(family, wires, ids, settings)
    BY <1>3
  <2>. HIDE DEF settings
  <2>. QED  BY <1>3, <2>2, <2>4, <2>5, <2>6, <2>7, RegistersKeeps
<1>. QED  BY <1>1, <1>2, <1>3 DEF ReadsListed

(* The plan-backed command lines. *)
LEMMA PlanKeeps ==
  ASSUME AskedInv, NEW family \in Plans, NEW s \in FamilySettings, ReadsPlan(family, s)
  PROVE  AskedInv'
<1>. DEFINE listed == family = "claude" \/ s.plural # Null \/ s.singular \notin {Null, <<Blank>>}
            wires == IF family = "claude"
                     THEN ModelList(s.plural, s.singular, <<DefaultWire.claude>>)
                     ELSE IF listed THEN ModelList(s.plural, s.singular, Null)
                     ELSE <<0>>
            ids == [i \in DOMAIN wires |-> Prefix[family] + wires[i]]
            fits == /\ listed => Parsable(wires)
                    /\ Fresh(ids)
                    /\ family = "codex" => s.tier \notin {Null, Blank}
<1>1. CASE (~s.on \/ entry = "eval") /\ Skips(family)
  BY <1>1, NothingNew DEF Skips
<1>2. CASE s.on /\ entry = "cli" /\ ~fits /\ Refuses /\ UNCHANGED asked
  BY <1>2, NothingNew DEF Refuses
<1>3. ASSUME s.on, entry = "cli", fits, Asks(family, wires, ids),
             Registers(family, wires, ids, Same(s, wires))
      PROVE  AskedInv'
  <2>1. /\ s.plural \in Names /\ s.singular \in Names
        /\ s.tier \in Metadata /\ s.price \in Metadata
    BY <1>3 DEF FamilySettings, Off
  <2>2. /\ family \in Family /\ Prefix[family] \in Nat /\ DefaultWire.claude \in Nat
    BY SMT DEF Plans, Family, Prefix, DefaultWire
  <2>3. <<DefaultWire.claude>> \in Seq(Nat) /\ <<0>> \in Seq(Nat)
    BY <2>2
  <2>4. wires \in Seq(Nat)
    BY <2>1, <2>3 DEF ModelList, Names
  <2>. HIDE DEF wires
  <2>5. ids \in Seq(Nat) /\ Len(ids) = Len(wires)
    <3>1. ids = [i \in 1..Len(wires) |-> Prefix[family] + wires[i]]
      BY <2>4
    <3>. HIDE DEF ids
    <3>. QED  BY <2>2, <2>4, <3>1
  <2>. HIDE DEF ids
  <2>. DEFINE settings == Same(s, wires)
  <2>6. \A i \in 1..Len(wires) : settings[i].tier \in Metadata /\ settings[i].price \in Metadata
    BY <2>1, <2>4 DEF Same
  <2>7. Registers(family, wires, ids, settings)
    BY <1>3
  <2>. HIDE DEF settings
  <2>. QED  BY <1>3, <2>2, <2>4, <2>5, <2>6, <2>7, RegistersKeeps
<1>. QED  BY <1>1, <1>2, <1>3 DEF ReadsPlan

(* Numbers are sorted by themselves.                                        *)
LEMMA NumbersSort ==
  ASSUME NEW S, IsFiniteSet(S), S \subseteq Nat
  PROVE  Ordered(ByKey(S, [n \in S |-> <<n>>]), S, [n \in S |-> <<n>>])
<1>. DEFINE key == [n \in S |-> <<n>>]
<1>1. \A n \in S : key[n] \in Seq(Int) /\ Len(key[n]) = 1 /\ key[n][1] = n
  OBVIOUS
<1>2. ASSUME NEW m \in S, NEW n \in S, m # n
      PROVE  Less(key[m], key[n]) \/ Less(key[n], key[m])
  <2>1. /\ key[m] \in Seq(Int) /\ key[n] \in Seq(Int) /\ 1 \in Nat \ {0}
        /\ 1 <= Len(key[m]) /\ 1 <= Len(key[n]) /\ key[m][1] # key[n][1]
    BY <1>1, <1>2
  <2>. HIDE DEF key
  <2>. QED  BY <2>1, LessIsTotal
<1>. HIDE DEF key
<1>3. Sortable(S, key)
  BY <1>1, <1>2 DEF Sortable
<1>4. Ordered(ByKey(S, key), S, key)
  BY <1>3, KeysOrder
<1>. QED  BY <1>4 DEF key

(* What the slots may be set to. *)
SlotsTyped(slots) ==
  /\ IsFiniteSet(DOMAIN slots) /\ DOMAIN slots \subseteq Nat
  /\ \A n \in DOMAIN slots : slots[n] \in SlotSettings

(* The slots with an endpoint are those asked for: one without is refused. *)
LEMMA SlotsKeep ==
  ASSUME AskedInv, NEW slots, SlotsTyped(slots), ReadsSlots(slots)
  PROVE  AskedInv'
<1>. DEFINE inOrder(S) == ByKey(S, [n \in S |-> <<n>>])
            U == {n \in DOMAIN slots : slots[n].base}
            W == {n \in DOMAIN slots : slots[n].base \/ n # 0}
            used == inOrder(U)
            wanted == inOrder(W)
            wire(n) == slots[n].wire
            id(n) == SlotId(slots[n])
            wires == [i \in DOMAIN used |-> wire(used[i])]
            ids == [i \in DOMAIN used |-> id(used[i])]
            settings == [i \in DOMAIN used |-> slots[used[i]]]
            fits == SlotsFit(slots) /\ Fresh(ids)
<1>1. CASE ~fits /\ Refuses /\ UNCHANGED asked
  BY <1>1, NothingNew DEF Refuses
<1>2. ASSUME fits,
             asked' = asked \o [i \in DOMAIN wanted |->
                      [family |-> "compat", wire |-> wire(wanted[i]), id |-> id(wanted[i])]],
             Registers("compat", wires, ids, settings)
      PROVE  AskedInv'
  <2>1. W = U
    BY <1>2 DEF SlotsFit, Numbered
  <2>2. used \in Seq(U)
    <3>1. IsFiniteSet(U) /\ U \subseteq Nat
      BY FS_Subset DEF SlotsTyped
    <3>. HIDE DEF U
    <3>. QED  BY <3>1, NumbersSort DEF Ordered
  <2>3. \A n \in U : /\ wire(n) \in Nat /\ id(n) \in Nat
                     /\ slots[n].tier \in Metadata /\ slots[n].price \in Metadata
    <3>. TAKE n \in U
    <3>1. slots[n] \in SlotSettings /\ slots[n].base /\ slots[n].wire # Null
      BY <1>2 DEF SlotsTyped, SlotsFit
    <3>2. /\ slots[n].wire \in Nat /\ slots[n].name \in Nat \cup {Null}
          /\ slots[n].tier \in Metadata /\ slots[n].price \in Metadata
      BY <3>1 DEF SlotSettings
    <3>3. Prefix.compat \in Nat
      BY SMT DEF Prefix
    <3>. QED  BY <3>2, <3>3 DEF SlotId
  <2>4. asked' = asked \o [i \in DOMAIN used |->
                   [family |-> "compat", wire |-> wire(used[i]), id |-> id(used[i])]]
    BY <1>2, <2>1
  <2>5. [i \in DOMAIN used |-> [family |-> "compat", wire |-> wire(used[i]), id |-> id(used[i])]]
        = [i \in DOMAIN wires |-> [family |-> "compat", wire |-> wires[i], id |-> ids[i]]]
    OBVIOUS
  <2>6. Asks("compat", wires, ids)
    BY <2>4, <2>5 DEF Asks
  <2>. HIDE DEF U, W, used, wanted, wire, id
  <2>7. /\ wires \in Seq(Nat) /\ Len(wires) = Len(used)
        /\ ids \in Seq(Nat) /\ Len(ids) = Len(used)
    BY <2>2, <2>3
  <2>8. \A i \in 1..Len(wires) : settings[i].tier \in Metadata /\ settings[i].price \in Metadata
    BY <2>2, <2>3, <2>7
  <2>9. "compat" \in Family
    BY DEF Family
  <2>10. Fresh(ids)
    BY <1>2
  <2>. HIDE DEF wires, ids, settings
  <2>. QED  BY <1>2, <2>6, <2>7, <2>8, <2>9, <2>10, RegistersKeeps
<1>. QED  BY <1>1, <1>2 DEF ReadsSlots

-----------------------------------------------------------------------------
(* The inventory. *)

Live == {"planner", "factory", "ready"}

(* What the registry has let through.                                       *)
TakenInv ==
  stage \in Live =>
    /\ asked # <<>>
    /\ \A i \in 1..Len(asked) : ValidModel(models[i])
    /\ \A id \in DOMAIN profiles : ValidProfile(profiles[id])

(* After a campaign the command line starts. *)
OrderInv == job = "campaign" => order \in CampaignOrders /\ entry = "cli"

(* A function on the fields of a model is the record of its values. *)
LEMMA RecordIs ==
  ASSUME NEW f, f = [field \in {"id", "provider", "strengths", "context", "maxOut", "tools",
                                "costIn", "costOut", "tier", "billing"} |-> f[field]]
  PROVE  f = [id |-> f.id, provider |-> f.provider, strengths |-> f.strengths,
              context |-> f.context, maxOut |-> f.maxOut, tools |-> f.tools,
              costIn |-> f.costIn, costOut |-> f.costOut, tier |-> f.tier, billing |-> f.billing]
OBVIOUS

(* What an overrides file may say of strengths. *)
OverridesTyped(overrides) ==
  \A id \in DOMAIN overrides :
    "strengths" \in DOMAIN overrides[id] => overrides[id].strengths \subseteq STRING

(* An override changes nothing that tells models apart, or who serves them. *)
LEMMA OverriddenIs ==
  ASSUME NEW m \in Served, NEW overrides, OverridesLoad(overrides), OverridesTyped(overrides)
  PROVE  LET x == Overridden(m, overrides) IN
         x \in Served /\ x.id = m.id /\ x.provider = m.provider /\ x.billing = m.billing
<1>1. CASE m.id \notin DOMAIN overrides
  BY <1>1 DEF Overridden
<1>2. CASE m.id \in DOMAIN overrides
  <2>. DEFINE set == overrides[m.id]
              Fields == {"id", "provider", "strengths", "context", "maxOut", "tools",
                         "costIn", "costOut", "tier", "billing"}
              x == [field \in Fields |-> IF field \in DOMAIN set THEN set[field] ELSE m[field]]
  <2>1. DOMAIN m = Fields
    BY DEF Served
  <2>2. Overridden(m, overrides) = x
    BY <1>2, <2>1 DEF Overridden
  <2>3. /\ DOMAIN set \subseteq OverrideFields
        /\ "context" \in DOMAIN set => set.context \in Nat \ {0}
        /\ "maxOut" \in DOMAIN set => set.maxOut \in Nat \ {0}
        /\ "costIn" \in DOMAIN set => set.costIn \in Nat
        /\ "costOut" \in DOMAIN set => set.costOut \in Nat
        /\ "tier" \in DOMAIN set => set.tier \in 1..4
        /\ "tools" \in DOMAIN set => set.tools \in BOOLEAN
    BY <1>2 DEF OverridesLoad
  <2>4. "strengths" \in DOMAIN set => set.strengths \subseteq STRING
    BY <1>2 DEF OverridesTyped
  <2>5. /\ m.id \in Nat /\ m.provider \in STRING /\ m.strengths \in SUBSET STRING
        /\ m.context \in Int /\ m.maxOut \in Int /\ m.tools \in BOOLEAN
        /\ m.costIn \in Int /\ m.costOut \in Int /\ m.tier \in Int
        /\ m.billing \in {"card", "plan_included"}
    BY DEF Served
  <2>. HIDE DEF set
  <2>6. x.id = m.id /\ x.provider = m.provider /\ x.billing = m.billing
    BY <2>3 DEF OverrideFields
  <2>7. /\ x.strengths \in SUBSET STRING /\ x.context \in Int /\ x.maxOut \in Int
        /\ x.tools \in BOOLEAN
    BY <2>3, <2>4, <2>5
  <2>8. x.costIn \in Int /\ x.costOut \in Int /\ x.tier \in Int
    BY <2>3, <2>5
  <2>9. x = [field \in Fields |-> x[field]]
    OBVIOUS
  <2>. HIDE DEF x
  <2>10. x = [id |-> x.id, provider |-> x.provider, strengths |-> x.strengths,
              context |-> x.context, maxOut |-> x.maxOut, tools |-> x.tools,
              costIn |-> x.costIn, costOut |-> x.costOut, tier |-> x.tier, billing |-> x.billing]
    BY <2>9, RecordIs
  <2>11. x \in Served
    BY <2>5, <2>6, <2>7, <2>8, <2>10 DEF Served
  <2>. QED  BY <2>2, <2>6, <2>11
<1>. QED  BY <1>1, <1>2

(* The inventory is what was asked for, overridden, and what it takes is valid. *)
LEMMA InventoryKeeps ==
  ASSUME AskedInv, NEW overrides, OverridesTyped(overrides), NEW file,
         InventoryReads(overrides, file)
  PROVE  AskedInv' /\ TakenInv'
<1>. DEFINE final == [i \in DOMAIN models |-> Overridden(models[i], overrides)]
            fits == /\ DOMAIN providers # {}
                    /\ OverridesLoad(overrides) /\ OverridesApply(models, overrides)
                    /\ ProfilesLoad(file) /\ RegistryTakesProfiles(models, Profiles(file))
<1>1. CASE ~fits /\ Refuses
  <2>1. UNCHANGED asked
    BY DEF InventoryReads
  <2>2. AskedInv'
    BY <1>1, <2>1, NothingNew DEF Refuses
  <2>. QED  BY <1>1, <2>2 DEF Refuses, TakenInv, Live
<1>2. ASSUME fits, stage' = "planner", models' = final, profiles' = Kept(final, Profiles(file)),
             UNCHANGED <<providers, baseline, asked>>
      PROVE  AskedInv' /\ TakenInv'
  <2>. DEFINE n == Len(asked)
  <2>1. /\ models \in Seq(Served) /\ Len(models) = n /\ n \in Nat /\ DOMAIN models = 1..n
        /\ \A i \in 1..n : models[i] \in Served
    BY DEF AskedInv
  <2>2. \A i \in 1..n : final[i] = Overridden(models[i], overrides)
    BY <2>1
  <2>3. final = [i \in 1..n |-> final[i]]
    BY <2>1
  <2>. HIDE DEF final
  <2>4. \A i \in 1..n : /\ final[i] \in Served /\ final[i].id = models[i].id
                        /\ final[i].provider = models[i].provider
                        /\ final[i].billing = models[i].billing
    BY <1>2, <2>1, <2>2, OverriddenIs
  <2>5. final \in Seq(Served) /\ Len(final) = n
    BY <2>1, <2>3, <2>4
  <2>6. AskedInv'
    <3>1. /\ models' \in Seq(Served) /\ Len(models') = n
          /\ \A i \in 1..n : /\ models'[i].id = models[i].id
                             /\ models'[i].provider = models[i].provider
                             /\ models'[i].billing = models[i].billing
      BY <1>2, <2>4, <2>5
    <3>2. asked' = asked /\ providers' = providers /\ baseline' = baseline
      BY <1>2
    <3>3. \A i \in 1..n : /\ models'[i].id = asked[i].id
                          /\ models'[i].provider = ProviderName[asked[i].family]
                          /\ models'[i].billing = BillingOf(asked[i].family)
                          /\ providers[asked[i].id] =
                               [family |-> asked[i].family, wire |-> asked[i].wire]
      BY <3>1 DEF AskedInv
    <3>4. /\ asked \in Seq(Request)
          /\ \A i, j \in 1..n : asked[i].id = asked[j].id => i = j
          /\ DOMAIN providers = {asked[i].id : i \in 1..n}
          /\ baseline = IF asked = <<>> THEN Null ELSE asked[1].id
      BY DEF AskedInv
    <3>. QED  BY <3>1, <3>2, <3>3, <3>4 DEF AskedInv
  <2>7. asked # <<>>
    BY <1>2 DEF AskedInv
  <2>8. \A i \in 1..n : ValidModel(final[i])
    <3>1. RegistryTakes(final)
      BY <1>2 DEF OverridesApply, final
    <3>. QED  BY <2>5, <3>1 DEF RegistryTakes
  <2>9. \A id \in DOMAIN profiles' : ValidProfile(profiles'[id])
    <3>1. \A id \in DOMAIN Profiles(file) : ValidProfile(Profiles(file)[id])
      BY <1>2 DEF ProfilesLoad, Profiles
    <3>. QED  BY <1>2, <3>1 DEF Kept
  <2>. QED  BY <1>2, <2>6, <2>7, <2>8, <2>9 DEF TakenInv
<1>. QED  BY <1>1, <1>2 DEF InventoryReads

-----------------------------------------------------------------------------
(* Who is served, by its id.                                                *)
LEMMA ServedIs ==
  ASSUME AskedInv
  PROVE  /\ \A i \in 1..Len(asked) : Model(models[i].id) = models[i]
         /\ \A id \in DOMAIN providers : \E i \in 1..Len(asked) :
              models[i].id = id /\ Model(id) = models[i]
         /\ DOMAIN models = 1..Len(asked)
         /\ \A i \in 1..Len(asked) : models[i] \in Served /\ models[i].id \in DOMAIN providers
         /\ \A i, j \in 1..Len(asked) : models[i].id = models[j].id => i = j
<1>1. /\ DOMAIN models = 1..Len(asked)
      /\ \A i \in 1..Len(asked) : models[i] \in Served
  BY DEF AskedInv
<1>2. \A i \in 1..Len(asked) : models[i].id = asked[i].id
  BY DEF AskedInv
<1>3. \A i, j \in 1..Len(asked) : models[i].id = models[j].id => i = j
  BY <1>2 DEF AskedInv
<1>4. \A i \in 1..Len(asked) : Model(models[i].id) = models[i]
  <2>. TAKE i \in 1..Len(asked)
  <2>1. (CHOOSE j \in DOMAIN models : models[j].id = models[i].id) = i
    BY <1>1, <1>3
  <2>. QED  BY <2>1 DEF Model
<1>5. DOMAIN providers = {asked[i].id : i \in 1..Len(asked)}
  BY DEF AskedInv
<1>. QED  BY <1>1, <1>2, <1>3, <1>4, <1>5

(* A planner is served, and honours a temperature if any model there does:    *)
(* of several the first by its key, and keys differ by their ids.             *)
LEMMA PlannerIs ==
  ASSUME AskedInv, NEW id \in DOMAIN providers
  PROVE  /\ PlannerId(id) \in DOMAIN providers
         /\ \/ Controllable(PlannerId(id))
            \/ \A i \in DOMAIN models : models[i].billing # "card"
<1>. DEFINE card == {m \in Range(models) : m.id \in DOMAIN providers /\ m.billing = "card"}
            key(m) == <<-m.tier, m.costOut, m.id>>
            keys == [m \in card |-> key(m)]
            First(m) == \A n \in card \ {m} : Less(key(m), key(n))
<1>1. CASE Controllable(id)
  BY <1>1 DEF PlannerId
<1>2. CASE ~Controllable(id) /\ card = {}
  <2>1. PlannerId(id) = id
    BY <1>2 DEF PlannerId
  <2>2. \A i \in DOMAIN models : models[i].billing # "card"
    BY <1>2, ServedIs DEF Range
  <2>. QED  BY <2>1, <2>2
<1>3. CASE ~Controllable(id) /\ card # {}
  <2>1. PlannerId(id) = (CHOOSE m \in card : First(m)).id
    BY <1>3 DEF PlannerId
  <2>2. IsFiniteSet(card)
    <3>1. IsFiniteSet(1..Len(asked))
      BY FS_Interval DEF AskedInv
    <3>2. Range(models) = {models[i] : i \in 1..Len(asked)}
      BY ServedIs DEF Range
    <3>3. IsFiniteSet({models[i] : i \in 1..Len(asked)})
      <4>. DEFINE f == [i \in 1..Len(asked) |-> models[i]]
                  S == {models[i] : i \in 1..Len(asked)}
      <4>1. f \in [1..Len(asked) -> S] /\ \A x \in S : \E i \in 1..Len(asked) : f[i] = x
        OBVIOUS
      <4>. HIDE DEF f, S
      <4>2. f \in Surjection(1..Len(asked), S)
        BY <4>1 DEF Surjection
      <4>3. IsFiniteSet(S)
        BY <3>1, <4>2, FS_Surjection
      <4>. QED  BY <4>3 DEF S
    <3>. QED  BY <3>2, <3>3, FS_Subset
  <2>3. \A m \in card : \E i \in 1..Len(asked) : m = models[i]
    BY ServedIs DEF Range
  <2>4. \A m \in card : /\ m \in Served /\ keys[m] \in Seq(Int) /\ Len(keys[m]) = 3
                        /\ keys[m][3] = m.id /\ keys[m] = key(m)
    <3>. TAKE m \in card
    <3>1. m \in Served
      BY <2>3, ServedIs
    <3>2. m.tier \in Int /\ m.costOut \in Int /\ m.id \in Int
      BY <3>1 DEF Served
    <3>3. key(m) \in Seq(Int) /\ Len(key(m)) = 3 /\ key(m)[3] = m.id
      BY <3>2
    <3>4. keys[m] = key(m)
      OBVIOUS
    <3>. HIDE DEF keys, key
    <3>. QED  BY <3>1, <3>3, <3>4
  <2>5. \A m, n \in card : m.id = n.id => m = n
    BY <2>3, ServedIs
  <2>. HIDE DEF card, keys
  <2>6. Sortable(card, keys)
    <3>1. ASSUME NEW m \in card, NEW n \in card, m # n
          PROVE  Less(keys[m], keys[n]) \/ Less(keys[n], keys[m])
      <4>1. /\ keys[m] \in Seq(Int) /\ keys[n] \in Seq(Int) /\ 3 \in Nat \ {0}
            /\ 3 <= Len(keys[m]) /\ 3 <= Len(keys[n]) /\ keys[m][3] # keys[n][3]
        BY <2>4, <2>5, <3>1
      <4>. QED  BY <4>1, LessIsTotal
    <3>. QED  BY <2>2, <2>4, <3>1 DEF Sortable
  <2>. DEFINE r == ByKey(card, keys)
  <2>7. Ordered(r, card, keys)
    BY <2>6, KeysOrder
  <2>. HIDE DEF r
  <2>8. r[1] \in card /\ \A n \in card \ {r[1]} : Less(keys[r[1]], keys[n])
    <3>1. Len(r) \in Nat /\ \A i \in 1..Len(r) : r[i] \in card
      BY <2>7 DEF Ordered
    <3>2. PICK i \in 1..Len(r) : r[i] \in card
      BY <1>3, <2>7 DEF Ordered
    <3>3. 1 \in 1..Len(r)
      BY <3>1, <3>2
    <3>4. ASSUME NEW n \in card \ {r[1]} PROVE Less(keys[r[1]], keys[n])
      <4>1. PICK j \in 1..Len(r) : r[j] = n
        BY <2>7 DEF Ordered
      <4>2. 1 < j
        BY <3>1, <4>1
      <4>. QED  BY <2>7, <3>3, <4>1, <4>2 DEF Ordered
    <3>. QED  BY <3>1, <3>3, <3>4
  <2>9. r[1] \in card /\ First(r[1])
    BY <2>4, <2>8
  <2>. DEFINE m == CHOOSE x \in card : First(x)
  <2>10. m \in card
    BY <2>9
  <2>. HIDE DEF m
  <2>11. PlannerId(id) = m.id
    BY <2>1 DEF m
  <2>12. m.id \in DOMAIN providers /\ m.billing = "card" /\ Model(m.id) = m
    BY <2>3, <2>10, ServedIs DEF card
  <2>. QED  BY <2>11, <2>12 DEF Controllable
<1>. QED  BY <1>1, <1>2, <1>3

-----------------------------------------------------------------------------
(* The phases. *)

(* The numbers of a profile that the loader takes. *)
Profiled(p) ==
  /\ p.confidence \in Nat
  /\ \A t \in DOMAIN p.taskScores : p.taskScores[t] \in Nat
  /\ p.overall = Unclaimed \/ p.overall \in Nat
  /\ p.reliability = Unclaimed \/ p.reliability \in Nat

LEMMA Bounded == ASSUME NEW n \in Nat, NEW x \in 0..n PROVE x \in Nat
  OBVIOUS

(* What the digits of a profile come to. *)
LEMMA FullScoreIs == FullScore \in Nat /\ 100 * 100 = FullScore /\ MaxConfidence \in 0..FullScore
BY DEF FullScore, MaxConfidence

LEMMA UnitIs == ASSUME NEW x, UnitScore(x) PROVE x \in Nat
<1>1. x \in 0..FullScore
  BY DEF UnitScore
<1>. QED  BY <1>1, FullScoreIs, Bounded

LEMMA Hundredths ==
  ASSUME NEW x, x = Unclaimed \/ x \in Nat
  PROVE  (IF x = Unclaimed THEN Unset ELSE x \div 100) \in Int
<1>1. CASE x = Unclaimed
  BY <1>1 DEF Unset
<1>2. CASE x # Unclaimed
  <2>1. x \in Int
    BY <1>2
  <2>2. x \div 100 \in Int
    BY <2>1
  <2>. QED  BY <1>2, <2>2
<1>. QED  BY <1>1, <1>2

LEMMA ProfiledIs ==
  ASSUME NEW p, ValidProfile(p) PROVE Profiled(p)
BY UnitIs DEF ValidProfile, Profiled

(* The router is given models as it expects them. *)
LEMMA SeenIs ==
  ASSUME NEW m \in Served, ValidModel(m), NEW type,
         \A id \in DOMAIN profiles : ValidProfile(profiles[id])
  PROVE  Seen(m, type) \in Models /\ Seen(m, type).id = m.id
<1>. DEFINE has == m.id \in DOMAIN profiles
            p == profiles[m.id]
            hundredths(x) == IF x = Unclaimed THEN Unset ELSE x \div 100
            confidence == IF has THEN p.confidence \div 100 ELSE 0
            taskScore == IF has /\ type \in DOMAIN p.taskScores
                         THEN hundredths(p.taskScores[type]) ELSE Unset
            overall == IF has THEN hundredths(p.overall) ELSE Unset
            reliability == IF has THEN hundredths(p.reliability) ELSE Unset
            x == Seen(m, type)
            local == Ollama(m)
<1>1. x = [id |-> m.id, transport |-> m.provider, tier |-> m.tier, strengths |-> m.strengths,
           tools |-> m.tools, billing |-> m.billing, costIn |-> m.costIn, costOut |-> m.costOut,
           context |-> m.context, maxOut |-> m.maxOut, local |-> local,
           confidence |-> confidence, taskScore |-> taskScore, overall |-> overall,
           reliability |-> reliability]
  BY DEF Seen
<1>2. /\ m.id \in Nat /\ m.provider \in STRING /\ m.strengths \in SUBSET STRING
      /\ m.tools \in BOOLEAN /\ m.billing \in {"card", "plan_included"}
  BY DEF Served
<1>3. /\ m.tier \in Nat /\ m.costIn \in Nat /\ m.costOut \in Nat /\ m.context \in Nat
      /\ m.maxOut \in Nat
  BY DEF Served, ValidModel
<1>4. has => Profiled(p)
  BY ProfiledIs
<1>5. local \in BOOLEAN
  BY DEF Ollama
<1>6. Unset \in Int
  BY DEF Unset
<1>7. confidence \in Nat
  <2>1. has => p.confidence \in Nat
    BY <1>4 DEF Profiled
  <2>2. ASSUME NEW c \in Nat PROVE c \div 100 \in Nat
    OBVIOUS
  <2>. HIDE DEF has, p
  <2>3. CASE has
    BY <2>1, <2>2, <2>3
  <2>4. CASE ~has
    BY <2>4
  <2>. QED  BY <2>3, <2>4
<1>8. taskScore \in Int /\ overall \in Int /\ reliability \in Int
  <2>1. \A y : y = Unclaimed \/ y \in Nat => hundredths(y) \in Int
    BY Hundredths, SMT
  <2>2. has /\ type \in DOMAIN p.taskScores => p.taskScores[type] \in Nat
    BY <1>4, SMT DEF Profiled
  <2>3. has => /\ p.overall = Unclaimed \/ p.overall \in Nat
               /\ p.reliability = Unclaimed \/ p.reliability \in Nat
    BY <1>4, SMT DEF Profiled
  <2>. HIDE DEF has, p, hundredths
  <2>4. taskScore \in Int
    BY <1>6, <2>1, <2>2, SMT
  <2>5. overall \in Int
    BY <1>6, <2>1, <2>3, SMT
  <2>6. reliability \in Int
    BY <1>6, <2>1, <2>3, SMT
  <2>. QED  BY <2>4, <2>5, <2>6
<1>. HIDE DEF has, p, confidence, taskScore, overall, reliability, x, local
<1>9. x.id = m.id
  BY <1>1
<1>10. x \in Models
  BY <1>1, <1>2, <1>3, <1>5, <1>7, <1>8 DEF Models, Subscription
<1>. QED  BY <1>9, <1>10 DEF x

(* Whom the router ranks, each once.                                        *)
LEMMA RankingIs ==
  ASSUME AskedInv, \A i \in 1..Len(asked) : ValidModel(models[i]),
         \A id \in DOMAIN profiles : ValidProfile(profiles[id]),
         NEW type \in {"analyze", "write"}
  PROVE  LET r == Ranking(type) IN
         /\ r \in Seq(DOMAIN providers)
         /\ \A i, j \in 1..Len(r) : r[i] = r[j] => i = j
<1>. DEFINE S == {Seen(m, type) : m \in Range(models)}
            q == [type |-> type, difficulty |-> "hard", agentic |-> FALSE, estimate |-> 16]
            ranked == Ranked(S, q, "quality")
            r == Ranking(type)
<1>1. \A i \in 1..Len(asked) :
        /\ Seen(models[i], type) \in Models /\ Seen(models[i], type).id = models[i].id
        /\ models[i].id \in DOMAIN providers
  BY SeenIs, ServedIs
<1>2. S = {Seen(models[i], type) : i \in 1..Len(asked)}
  BY ServedIs DEF Range
<1>3. S \in SUBSET Models /\ \A x \in S : x.id \in DOMAIN providers
  BY <1>1, <1>2
<1>4. Distinct(S)
  <2>. SUFFICES ASSUME NEW x \in S, NEW y \in S, x.id = y.id PROVE x = y
    BY DEF Distinct
  <2>1. PICK i \in 1..Len(asked) : x = Seen(models[i], type)
    BY <1>2
  <2>2. PICK j \in 1..Len(asked) : y = Seen(models[j], type)
    BY <1>2
  <2>3. models[i].id = models[j].id
    BY <1>1, <2>1, <2>2
  <2>. QED  BY <2>1, <2>2, <2>3, ServedIs
<1>5. IsFiniteSet(S)
  <2>. DEFINE f == [i \in 1..Len(asked) |-> Seen(models[i], type)]
  <2>1. f \in [1..Len(asked) -> S] /\ \A x \in S : \E i \in 1..Len(asked) : f[i] = x
    BY <1>2
  <2>2. IsFiniteSet(1..Len(asked))
    BY FS_Interval DEF AskedInv
  <2>. HIDE DEF f, S
  <2>3. f \in Surjection(1..Len(asked), S)
    BY <2>1 DEF Surjection
  <2>. QED  BY <2>2, <2>3, FS_Surjection
<1>6. q \in Question /\ "quality" \in Objective
  BY SMT DEF Question, Objective, Difficulty, Required
<1>. HIDE DEF S, q
<1>7. RankedWell(ranked, S, q, "quality")
  BY <1>3, <1>4, <1>5, <1>6, RankedAreRankedWell
<1>. HIDE DEF ranked
<1>8. /\ ranked \in Seq(Eligible(S, q))
      /\ \A i, j \in 1..Len(ranked) : i < j => ranked[i] # ranked[j]
  BY <1>7 DEF RankedWell
<1>9. Len(ranked) \in Nat /\ \A i \in 1..Len(ranked) : ranked[i] \in S
  BY <1>8 DEF Eligible
<1>10. r = [i \in 1..Len(ranked) |-> ranked[i].id]
  <2>1. r = [i \in DOMAIN ranked |-> ranked[i].id]
    BY DEF Ranking, ranked, S, q
  <2>. QED  BY <1>8, <2>1
<1>. HIDE DEF r
<1>11. r \in Seq(DOMAIN providers) /\ Len(r) = Len(ranked)
  BY <1>3, <1>9, <1>10
<1>12. ASSUME NEW i \in 1..Len(ranked), NEW j \in 1..Len(ranked), r[i] = r[j]
       PROVE  i = j
  <2>1. ranked[i] = ranked[j]
    BY <1>4, <1>9, <1>10, <1>12 DEF Distinct
  <2>. QED  BY <1>8, <1>9, <2>1
<1>. QED  BY <1>11, <1>12 DEF r

(* The planner comes first, and the others follow once each.                *)
Falls(p, k, planner, ranked, others) ==
  /\ p # <<>> /\ p[1] = planner
  /\ \A i \in 2..Len(p) : p[i] \in others /\ \E j \in 1..k : p[i] = ranked[j]
  /\ \A i, j \in 2..Len(p) : p[i] = p[j] => i = j

(* One more of the ranked, if it may stand in. *)
LEMMA FallsOn ==
  ASSUME NEW P, NEW planner \in P, NEW others \in SUBSET P,
         NEW ranked \in Seq(P), \A i, j \in 1..Len(ranked) : ranked[i] = ranked[j] => i = j,
         NEW k \in 1..Len(ranked), NEW p \in Seq(P), Falls(p, k - 1, planner, ranked, others)
  PROVE  Falls(IF ranked[k] \in others THEN Append(p, ranked[k]) ELSE p, k,
               planner, ranked, others)
<1>1. \A j \in 1..k - 1 : j \in 1..k
  OBVIOUS
<1>2. CASE ranked[k] \notin others
  BY <1>1, <1>2 DEF Falls
<1>3. CASE ranked[k] \in others
  <2>. DEFINE s == Append(p, ranked[k])
              n == Len(p)
  <2>1. /\ n \in Nat /\ n # 0 /\ ranked[k] \in P
        /\ s \in Seq(P) /\ Len(s) = n + 1 /\ s[n + 1] = ranked[k] /\ \A i \in 1..n : s[i] = p[i]
    BY DEF Falls
  <2>. HIDE DEF s
  <2>2. s # <<>> /\ s[1] = planner
    BY <2>1 DEF Falls
  <2>3. \A i \in 2..n : p[i] # ranked[k] /\ s[i] = p[i]
    <3>. TAKE i \in 2..n
    <3>1. PICK j \in 1..k - 1 : p[i] = ranked[j]
      BY DEF Falls
    <3>2. j \in 1..Len(ranked) /\ j # k
      OBVIOUS
    <3>. QED  BY <2>1, <3>1, <3>2
  <2>4. \A i \in 2..n + 1 : i = n + 1 \/ i \in 2..n
    BY <2>1
  <2>5. ASSUME NEW i \in 2..n + 1 PROVE s[i] \in others /\ \E j \in 1..k : s[i] = ranked[j]
    <3>1. CASE i = n + 1
      BY <1>3, <2>1, <3>1
    <3>2. CASE i \in 2..n
      BY <1>1, <2>3, <3>2 DEF Falls
    <3>. QED  BY <2>4, <3>1, <3>2
  <2>6. ASSUME NEW i \in 2..n + 1, NEW j \in 2..n + 1, s[i] = s[j] PROVE i = j
    <3>1. CASE i \in 2..n /\ j \in 2..n
      BY <2>3, <2>6, <3>1 DEF Falls
    <3>2. CASE i = n + 1 \/ j = n + 1
      BY <2>1, <2>3, <2>4, <2>6, <3>2
    <3>. QED  BY <2>4, <3>1, <3>2
  <2>7. Falls(s, k, planner, ranked, others)
    BY <2>1, <2>2, <2>5, <2>6 DEF Falls
  <2>. QED  BY <1>3, <2>7 DEF s
<1>. QED  BY <1>2, <1>3

(* A phase, by the recursion it is defined by. *)
LEMMA PhaseIs ==
  ASSUME NEW P, NEW planner \in P, NEW others \in SUBSET P,
         NEW ranked \in Seq(P), \A i, j \in 1..Len(ranked) : ranked[i] = ranked[j] => i = j
  PROVE  LET p == Phase(planner, ranked, others) IN
         p \in Seq(P) /\ Falls(p, Len(ranked), planner, ranked, others)
<1>. DEFINE n == Len(ranked)
            V == Seq(P)
            Taken(k, s) == IF ranked[k] \in others THEN Append(s, ranked[k]) ELSE s
            Is(g) == g = [k \in 0..Len(ranked) |->
                            IF k = 0 THEN <<planner>>
                            ELSE IF ranked[k] \in others THEN Append(g[k - 1], ranked[k])
                            ELSE g[k - 1]]
            it == CHOOSE g : Is(g)
            step == [x \in (1..n) \X V |-> Taken(x[1], x[2])]
            one == <<planner>>
<1>1. n \in Nat /\ \A k \in 1..n : ranked[k] \in P
  OBVIOUS
<1>2. ASSUME NEW k \in 1..n, NEW s \in V PROVE Taken(k, s) \in V
  BY <1>1
<1>3. step \in [(1..n) \X V -> V] /\ one \in V
  <2>1. one \in V
    OBVIOUS
  <2>. HIDE DEF V, n, Taken, one
  <2>. QED  BY <1>2, <2>1
<1>4. PICK h : Solves(h, n, V, one, step)
  <2>. HIDE DEF step, n, one, V
  <2>. QED  BY <1>1, <1>3, Recursion
<1>. HIDE DEF V, one
<1>5. Is(h)
  <2>1. h \in [0..n -> V] /\ h[0] = one
    BY <1>4 DEF Solves
  <2>2. ASSUME NEW k \in 1..n PROVE h[k] = Taken(k, h[k - 1])
    <3>1. h[k] = step[<<k, h[k - 1]>>]
      BY <1>4 DEF Solves
    <3>2. h[k - 1] \in V
      BY <1>1, <2>1
    <3>. QED  BY <3>1, <3>2
  <2>3. \A k \in 0..n : k = 0 \/ k \in 1..n
    BY <1>1
  <2>. QED  BY <2>1, <2>2, <2>3 DEF one
<1>6. Is(it)
  <2>. HIDE DEF Is
  <2>. QED  BY <1>5
<1>7. Phase(planner, ranked, others) = it[n]
  BY DEF Phase
<1>. HIDE DEF it
<1>8. it[0] = one /\ \A k \in 1..n : it[k] = Taken(k, it[k - 1])
  <2>1. it[0] = one
    BY <1>1, <1>6 DEF one
  <2>2. ASSUME NEW k \in 1..n PROVE it[k] = Taken(k, it[k - 1])
    <3>1. k \in 0..Len(ranked) /\ k # 0
      BY <1>1
    <3>. QED  BY <1>6, <3>1
  <2>. QED  BY <2>1, <2>2
<1>. DEFINE G == {k \in 0..n : it[k] \in V /\ Falls(it[k], k, planner, ranked, others)}
<1>9. 0 \in G
  <2>1. Falls(one, 0, planner, ranked, others)
    BY DEF Falls, one
  <2>. QED  BY <1>1, <1>3, <1>8, <2>1
<1>10. ASSUME NEW k \in 1..n, k - 1 \in G PROVE k \in G
  <2>1. it[k - 1] \in Seq(P) /\ Falls(it[k - 1], k - 1, planner, ranked, others)
    BY <1>10 DEF V
  <2>2. Falls(Taken(k, it[k - 1]), k, planner, ranked, others)
    BY <2>1, FallsOn
  <2>3. Taken(k, it[k - 1]) \in V
    BY <1>2, <2>1 DEF V
  <2>. HIDE DEF Taken
  <2>. QED  BY <1>1, <1>8, <2>2, <2>3
<1>11. 0..n \subseteq G
  <2>. HIDE DEF G, n
  <2>. QED  BY <1>1, <1>9, <1>10, InductionUpTo
<1>12. n \in G
  BY <1>1, <1>11
<1>. QED  BY <1>7, <1>12 DEF V

-----------------------------------------------------------------------------
(* The invariant. *)

(* The planner that was picked, and what it took. *)
PlannerInv ==
  stage \in {"factory", "ready"} =>
    /\ factory.planner \in DOMAIN providers
    /\ \/ Controllable(factory.planner)
       \/ gated /\ entry = "cli" /\ \A i \in DOMAIN models : models[i].billing # "card"

(* What make_runtime has closed over, and what a run was given. *)
FactoryInv ==
  /\ stage # "ready" => built = Null
  /\ stage = "ready" =>
       /\ factory.raw \in {Null, "docker", "subprocess"}
       /\ factory.mode = SandboxMode(factory.raw, answered)
       /\ factory.told = ToolNames(factory.mode, factory.allows, factory.reads)
       /\ factory.notice.sandbox = IF factory.mode = "docker" THEN "none" ELSE factory.mode
       /\ factory.notice.unpriced = Unpriced
       /\ built \in {Null, factory.told}

(* All of it together is inductive. *)
StartInv ==
  /\ AskedInv /\ TakenInv /\ OrderInv /\ PlannerInv /\ FactoryInv
  /\ PhasesStayDeterministic

(* Nothing is asked for at first. *)
LEMMA InitStart == Init => StartInv
<1>. SUFFICES ASSUME Init PROVE StartInv
  OBVIOUS
<1>1. asked = <<>> /\ models = <<>> /\ providers = << >> /\ baseline = Null
      /\ stage = "anthropic" /\ built = Null
  BY DEF Init, SetupInit
<1>2. AskedInv
  BY <1>1 DEF AskedInv
<1>3. OrderInv
  BY DEF Init, BenchInit, NoBench, OrderInv
<1>. QED  BY <1>1, <1>2, <1>3 DEF StartInv, TakenInv, PlannerInv, FactoryInv, Live,
                              PhasesStayDeterministic

(* What PhasesStayDeterministic says of a phase. *)
Deterministic(phase) ==
  /\ NoDuplicates(phase)
  /\ Range(phase) \subseteq DOMAIN providers
  /\ \A i \in 2..Len(phase) : Model(phase[i]).billing = "card"
  /\ Model(phase[1]).billing # "card" =>
       /\ gated /\ entry = "cli"
       /\ \A i \in DOMAIN models : models[i].billing # "card"

LEMMA SaysSame ==
  ASSUME entry' = entry, models' = models, providers' = providers, gated' = gated
  PROVE  \A phase : Deterministic(phase) => Deterministic(phase)'
<1>1. \A id : Model(id)' = Model(id)
  BY DEF Model
<1>. QED  BY <1>1 DEF Deterministic

LEMMA PhasesSay ==
  PhasesStayDeterministic <=>
    (stage = "ready" =>
       Deterministic(factory.planning) /\ Deterministic(factory.synthesis))
BY DEF PhasesStayDeterministic, Deterministic

(* Everything but what a run is given stays. *)
LEMMA OthersSame ==
  ASSUME StartInv, FactoryInv', entry' = entry, stage' = stage, asked' = asked,
         models' = models, providers' = providers, baseline' = baseline, profiles' = profiles,
         gated' = gated, factory'.planner = factory.planner,
         factory'.planning = factory.planning, factory'.synthesis = factory.synthesis,
         job' = job, order' = order
  PROVE  StartInv'
<1>2. AskedInv' /\ TakenInv' /\ OrderInv'
  BY DEF StartInv, AskedInv, TakenInv, OrderInv
<1>3. PlannerInv'
  BY DEF StartInv, PlannerInv, Controllable, Model
<1>5. PhasesStayDeterministic'
  <2>. DEFINE one == factory.planning
              two == factory.synthesis
  <2>1. stage = "ready" => Deterministic(one) /\ Deterministic(two)
    BY PhasesSay DEF StartInv
  <2>2. one' = one /\ two' = two
    OBVIOUS
  <2>3. stage' = "ready" => Deterministic(one') /\ Deterministic(two')
    BY <2>1, <2>2
  <2>. QED  BY <2>3, SaysSame DEF PhasesStayDeterministic, Deterministic
<1>. QED  BY <1>2, <1>3, <1>5 DEF StartInv

(* Nothing of it depends on the daemon. *)
LEMMA UnchangedStart ==
  ASSUME StartInv, entry' = entry, stage' = stage, asked' = asked,
         models' = models, providers' = providers, baseline' = baseline, profiles' = profiles,
         gated' = gated, factory' = factory, answered' = answered, built' = built,
         job' = job, order' = order
  PROVE  StartInv'
<1>1. Unpriced' = Unpriced
  BY DEF Unpriced, Ollama
<1>2. FactoryInv'
  BY <1>1 DEF StartInv, FactoryInv
<1>. QED  BY <1>2, OthersSame

LEMMA SamePlaces ==
  ASSUME StartInv, UNCHANGED setupVars, UNCHANGED <<job, order>>
  PROVE  StartInv'
<1>1. /\ entry' = entry /\ stage' = stage /\ asked' = asked /\ models' = models
      /\ providers' = providers /\ baseline' = baseline /\ profiles' = profiles
      /\ gated' = gated /\ factory' = factory /\ answered' = answered /\ built' = built
      /\ job' = job /\ order' = order
  BY DEF setupVars
<1>. QED  BY <1>1, UnchangedStart

(* What was asked of the campaign stays. *)
LEMMA BenchKeepsOrder ==
  ASSUME BenchStep
  PROVE  UNCHANGED <<job, order>>
<1>1. CASE CampaignStep
  BY <1>1 DEF CampaignStep, AsksModel, GradesProse, SendsToScorer, TakesGrade,
              WritesMeasurements, Calibrates
<1>2. CASE SuiteStep
  BY <1>2 DEF SuiteStep, ArmRuns, BaselineRaises, GradesArm, TakesArmGrade, EndsRound, Reports
<1>3. CASE ScorerStep /\ UNCHANGED benchVars
  BY <1>3 DEF benchVars
<1>. QED  BY <1>1, <1>2, <1>3 DEF BenchStep

(* What a family may be set to.                                             *)
LEMMA OfferedIs ==
  ASSUME OrderInv, NEW family \in Family
  PROVE  /\ family # "compat" => Offered(family) \subseteq FamilySettings
         /\ family = "compat" => \A slots \in Offered(family) : SlotsTyped(slots)
<1>1. family # "compat" => Settings[family] \subseteq FamilySettings /\ Off \in FamilySettings
  BY EvidenceAssumption DEF FamilySettings
<1>2. \A slots \in Settings["compat"] : SlotsTyped(slots)
  BY EvidenceAssumption DEF SlotsTyped
<1>3. SlotsTyped(<< >>)
  BY FS_EmptySet DEF SlotsTyped
<1>4. ASSUME job = "campaign", NEW slots \in Measured PROVE SlotsTyped(slots)
  <2>1. order \in CampaignOrders
    BY <1>4 DEF OrderInv
  <2>2. order.wires \in {<<w>> : w \in Wires} \cup {<<v, w>> : v, w \in Wires}
        /\ order.name \in Named \cup {Null}
    BY <2>1 DEF CampaignOrders
  <2>3. \A w \in Range(order.wires) : w \in Nat
    BY <2>2, BenchAssumption DEF Range
  <2>4. PICK w \in Range(order.wires) :
          slots = [slot \in {0} |-> [base |-> TRUE, wire |-> w, name |-> order.name,
                                     tier |-> Null, price |-> Null]]
    BY <1>4 DEF Measured
  <2>5. DOMAIN slots = {0} /\ slots[0] \in SlotSettings
    <3>1. w \in Nat /\ order.name \in Nat \cup {Null} /\ Null \in Metadata
      <4>1. w \in Nat
        BY <2>3
      <4>2. order.name \in Nat \cup {Null}
        <5>1. order.name \in Named \cup {Null}
          BY <2>2
        <5>2. Named \subseteq Nat
          BY BenchAssumption
        <5>. QED  BY <5>1, <5>2
      <4>. QED  BY <4>1, <4>2 DEF Metadata
    <3>2. [base |-> TRUE, wire |-> w, name |-> order.name, tier |-> Null, price |-> Null]
            \in SlotSettings
      BY <3>1 DEF SlotSettings
    <3>. QED  BY <2>4, <3>2
  <2>6. IsFiniteSet({0})
    BY FS_Singleton
  <2>. QED  BY <2>5, <2>6 DEF SlotsTyped
<1>. QED  BY <1>1, <1>2, <1>3, <1>4 DEF Offered

(* Every step of a start keeps it. *)
LEMMA FamilyKeeps ==
  ASSUME StartInv, NEW family \in Family, FamilyReads(family, Offered(family)),
         UNCHANGED <<job, order>>
  PROVE  StartInv'
<1>1. PICK s \in Offered(family) :
        \/ family \in Listed /\ ReadsListed(family, s)
        \/ family = "compat" /\ ReadsSlots(s)
        \/ family \in {"claude", "codex"} /\ ReadsPlan(family, s)
  BY DEF FamilyReads
<1>2. AskedInv /\ OrderInv
  BY DEF StartInv
<1>3. AskedInv'
  <2>1. CASE family \in Listed /\ ReadsListed(family, s)
    <3>1. s \in FamilySettings
      BY <1>2, <2>1, OfferedIs DEF Listed
    <3>. QED  BY <1>2, <2>1, <3>1, ListedKeeps
  <2>2. CASE family = "compat" /\ ReadsSlots(s)
    <3>1. SlotsTyped(s)
      BY <1>2, <2>2, OfferedIs
    <3>. QED  BY <1>2, <2>2, <3>1, SlotsKeep
  <2>3. CASE family \in Plans /\ ReadsPlan(family, s)
    <3>1. s \in FamilySettings
      BY <1>2, <2>3, OfferedIs DEF Plans
    <3>. QED  BY <1>2, <2>3, <3>1, PlanKeeps
  <2>. QED  BY <1>1, <2>1, <2>2, <2>3 DEF Plans
<1>4. stage' \in {"compat", "moonshot", "ollama", "claude", "codex", "inventory", "refused"}
  <2>1. \/ family \in Listed /\ stage' \in {After[family], "refused"}
        \/ family = "compat" /\ stage' \in {After["compat"], "refused"}
        \/ family \in Plans /\ stage' \in {After[family], "refused"}
    BY <1>1 DEF ReadsListed, ReadsSlots, ReadsPlan, Skips, Registers, Refuses, Plans
  <2>. QED  BY <2>1 DEF After, Listed, Plans
<1>5. stage = family /\ entry' = entry /\ built' = built
  BY DEF FamilyReads, givenVars
<1>6. built = Null
  BY <1>5 DEF StartInv, FactoryInv, Family
<1>7. OrderInv'
  BY <1>2, <1>5 DEF OrderInv
<1>. QED  BY <1>3, <1>4, <1>5, <1>6, <1>7 DEF StartInv, TakenInv, PlannerInv, FactoryInv, Live,
                                              PhasesStayDeterministic

LEMMA InventoryStep ==
  ASSUME StartInv, NEW overrides, OverridesTyped(overrides),
         InventoryReads(overrides, profilesFile), UNCHANGED <<job, order>>
  PROVE  StartInv'
<1>1. AskedInv' /\ TakenInv'
  BY InventoryKeeps DEF StartInv
<1>2. stage = "inventory" /\ stage' \in {"planner", "refused"} /\ entry' = entry /\ built' = built
  BY DEF InventoryReads, Refuses, givenVars
<1>3. OrderInv' /\ built' = Null
  BY <1>2 DEF StartInv, OrderInv, FactoryInv
<1>. QED  BY <1>1, <1>2, <1>3 DEF StartInv, PlannerInv, FactoryInv, PhasesStayDeterministic

LEMMA PlannerStep ==
  ASSUME StartInv, NEW provider, NEW model, NEW cap, NEW passes,
         PicksPlanner(provider, model, cap, passes), UNCHANGED <<job, order>>
  PROVE  StartInv'
<1>. DEFINE chosen == Chosen(provider, model)
            known == chosen \in DOMAIN providers
            card == known /\ Controllable(PlannerId(chosen))
            fits == known /\ (card \/ (entry = "cli" /\ cap > 0 /\ passes))
<1>1. /\ stage = "planner" /\ entry' = entry /\ asked' = asked /\ built' = built
      /\ models' = models /\ providers' = providers /\ baseline' = baseline
      /\ profiles' = profiles
  BY DEF PicksPlanner, Refuses
<1>2. AskedInv' /\ OrderInv' /\ built' = Null
  BY <1>1 DEF StartInv, AskedInv, OrderInv, FactoryInv
<1>3. /\ asked # <<>> /\ \A i \in 1..Len(asked) : ValidModel(models[i])
      /\ \A id \in DOMAIN profiles : ValidProfile(profiles[id])
  BY <1>1 DEF StartInv, TakenInv, Live
<1>4. TakenInv'
  BY <1>1, <1>3 DEF TakenInv
<1>5. CASE stage' = "refused"
  BY <1>2, <1>4, <1>5 DEF StartInv, PlannerInv, FactoryInv, PhasesStayDeterministic
<1>6. ASSUME fits, stage' = "factory", factory' = [planner |-> PlannerId(chosen)], gated' = ~card
      PROVE  StartInv'
  <2>1. AskedInv /\ known
    BY <1>6 DEF StartInv
  <2>. DEFINE id == PlannerId(chosen)
  <2>2. /\ id \in DOMAIN providers
        /\ Controllable(id) \/ \A i \in DOMAIN models : models[i].billing # "card"
    BY <2>1, PlannerIs
  <2>3. ~Controllable(id) => gated' /\ entry' = "cli"
    BY <1>1, <1>6
  <2>4. factory'.planner = id
    BY <1>6
  <2>5. Controllable(id)' <=> Controllable(id)
    BY <1>1 DEF Controllable, Model, PlannerId, Chosen, OfProvider
  <2>. HIDE DEF id
  <2>6. PlannerInv'
    BY <1>1, <2>2, <2>3, <2>4 DEF PlannerInv, Controllable, Model
  <2>. QED  BY <1>2, <1>4, <1>6, <2>6 DEF StartInv, FactoryInv, PhasesStayDeterministic
<1>. QED  BY <1>5, <1>6 DEF PicksPlanner, Refuses

(* What stands behind a planner.                                            *)
LEMMA PhasesAre ==
  ASSUME AskedInv, TakenInv, stage \in Live, NEW planner \in DOMAIN providers,
         NEW type \in {"analyze", "write"}
  PROVE  LET p == PhaseModels(planner, type) IN
         /\ p # <<>> /\ p \in Seq(DOMAIN providers) /\ p[1] = planner
         /\ NoDuplicates(p) /\ Range(p) \subseteq DOMAIN providers
         /\ \A i \in 2..Len(p) : Controllable(p[i])
<1>. DEFINE ranked == Ranking(type)
            others == {id \in DOMAIN providers \ {planner} : Controllable(id)}
            p == PhaseModels(planner, type)
            P == DOMAIN providers
<1>1. /\ ranked \in Seq(P)
      /\ \A i, j \in 1..Len(ranked) : ranked[i] = ranked[j] => i = j
  BY RankingIs DEF TakenInv
<1>2. p = Phase(planner, ranked, others)
  BY DEF PhaseModels
<1>3. others \in SUBSET P /\ planner \notin others /\ \A id \in others : Controllable(id)
  OBVIOUS
<1>. HIDE DEF ranked, others, p, P
<1>4. p \in Seq(P) /\ Falls(p, Len(ranked), planner, ranked, others)
  <2>1. planner \in P
    BY DEF P
  <2>. QED  BY <1>1, <1>2, <1>3, <2>1, PhaseIs
<1>5. /\ Len(p) \in Nat /\ DOMAIN p = 1..Len(p) /\ Range(p) \subseteq P
      /\ \A i \in 1..Len(p) : i = 1 \/ i \in 2..Len(p)
  BY <1>4 DEF Range
<1>6. NoDuplicates(p)
  <2>1. \A i, j \in 1..Len(p) : p[i] = p[j] => i = j
    BY <1>3, <1>4, <1>5 DEF Falls
  <2>. QED  BY <1>5, <2>1, AllDiffer
<1>7. p # <<>> /\ p[1] = planner /\ \A i \in 2..Len(p) : Controllable(p[i])
  BY <1>3, <1>4 DEF Falls
<1>. QED  BY <1>4, <1>5, <1>6, <1>7 DEF p, P

LEMMA FactoryStep ==
  ASSUME StartInv, NEW iters, NEW raw, NEW allows, NEW reads,
         MakesFactory(iters, raw, allows, reads), UNCHANGED <<job, order>>
  PROVE  StartInv'
<1>. DEFINE planner == factory.planner
            mode == SandboxMode(raw, daemon)
            fits == iters \in Nat \ {0} /\ raw \in {Null, "docker", "subprocess"}
<1>1. /\ stage = "factory" /\ entry' = entry /\ asked' = asked /\ built' = built
      /\ models' = models /\ providers' = providers /\ baseline' = baseline
      /\ profiles' = profiles /\ gated' = gated
  BY DEF MakesFactory, Refuses
<1>2. AskedInv' /\ OrderInv' /\ TakenInv' /\ built' = Null
  <2>1. AskedInv'
    BY <1>1 DEF StartInv, AskedInv
  <2>2. OrderInv' /\ built' = Null
    BY <1>1 DEF StartInv, OrderInv, FactoryInv
  <2>3. TakenInv'
    BY <1>1 DEF StartInv, TakenInv, Live
  <2>. QED  BY <2>1, <2>2, <2>3
<1>3. CASE stage' = "refused"
  BY <1>2, <1>3 DEF StartInv, PlannerInv, FactoryInv, PhasesStayDeterministic
<1>4. ASSUME fits, stage' = "ready", answered' = daemon,
             factory' =
                 [planner |-> planner, mode |-> mode, iters |-> iters,
                  allows |-> allows, reads |-> reads, raw |-> raw,
                  told |-> ToolNames(mode, allows, reads),
                  notice |-> [sandbox |-> IF mode = "docker" THEN "none" ELSE mode,
                              unpriced |-> Unpriced],
                  planning |-> PhaseModels(planner, "analyze"),
                  synthesis |-> PhaseModels(planner, "write")]
      PROVE  StartInv'
  <2>1. /\ planner \in DOMAIN providers
        /\ \/ Controllable(planner)
           \/ gated /\ entry = "cli" /\ \A i \in DOMAIN models : models[i].billing # "card"
    BY <1>1 DEF StartInv, PlannerInv
  <2>2. /\ factory'.planner = planner /\ factory'.mode = mode /\ factory'.raw = raw
        /\ factory'.allows = allows /\ factory'.reads = reads
        /\ factory'.told = ToolNames(mode, allows, reads)
        /\ factory'.notice.sandbox = IF mode = "docker" THEN "none" ELSE mode
        /\ factory'.notice.unpriced = Unpriced
        /\ factory'.planning = PhaseModels(planner, "analyze")
        /\ factory'.synthesis = PhaseModels(planner, "write")
    BY <1>4
  <2>3. Unpriced' = Unpriced
    BY <1>1 DEF Unpriced, Ollama
  <2>4. \A id : Controllable(id) <=> Model(id).billing = "card"
    BY DEF Controllable
  <2>6. FactoryInv'
    BY <1>2, <1>4, <2>2, <2>3 DEF FactoryInv
  <2>7. PlannerInv'
    BY <1>1, <2>1, <2>2 DEF PlannerInv, Controllable, Model
  <2>8. ASSUME NEW type \in {"analyze", "write"}
        PROVE  Deterministic(PhaseModels(planner, type))
    <3>1. AskedInv /\ TakenInv /\ stage \in Live
      BY <1>1 DEF StartInv, Live
    <3>. DEFINE p == PhaseModels(planner, type)
    <3>2. /\ p[1] = planner /\ NoDuplicates(p) /\ Range(p) \subseteq DOMAIN providers
          /\ \A i \in 2..Len(p) : Controllable(p[i])
      BY <2>1, <3>1, PhasesAre
    <3>. HIDE DEF p
    <3>3. Deterministic(p)
      BY <2>1, <2>4, <3>2 DEF Deterministic
    <3>. QED  BY <3>3 DEF p
  <2>9. PhasesStayDeterministic'
    <3>. DEFINE one == factory'.planning
                two == factory'.synthesis
    <3>1. one = PhaseModels(planner, "analyze") /\ two = PhaseModels(planner, "write")
      BY <2>2
    <3>. HIDE DEF one, two
    <3>2. ASSUME NEW p \in {one, two} PROVE Deterministic(p)
      BY <2>8, <3>1
    <3>. QED  BY <1>1, <3>2, SaysSame DEF PhasesStayDeterministic, Deterministic, one, two
  <2>. QED  BY <1>2, <2>6, <2>7, <2>9 DEF StartInv
<1>. QED  BY <1>3, <1>4 DEF MakesFactory, Refuses

LEMMA DockerStep ==
  ASSUME StartInv, DockerChanges, UNCHANGED <<job, order>>
  PROVE  StartInv'
<1>1. /\ entry' = entry /\ stage' = stage /\ asked' = asked /\ models' = models
      /\ providers' = providers /\ baseline' = baseline /\ profiles' = profiles
      /\ gated' = gated /\ factory' = factory /\ answered' = answered /\ built' = built
      /\ job' = job /\ order' = order
  BY DEF DockerChanges
<1>. QED  BY <1>1, UnchangedStart

LEMMA ToolsStep ==
  ASSUME StartInv, MakesTools, UNCHANGED <<job, order>>
  PROVE  StartInv'
<1>1. /\ entry' = entry /\ stage' = stage /\ asked' = asked /\ models' = models
      /\ providers' = providers /\ baseline' = baseline /\ profiles' = profiles
      /\ gated' = gated /\ factory' = factory /\ answered' = answered
      /\ job' = job /\ order' = order
  BY DEF MakesTools
<1>2. stage = "ready" /\ built' = ToolNames(factory.mode, factory.allows, factory.reads)
  BY DEF MakesTools, RunTools
<1>3. FactoryInv'
  <2>1. Unpriced' = Unpriced
    BY <1>1 DEF Unpriced, Ollama
  <2>. QED  BY <1>1, <1>2, <2>1 DEF StartInv, FactoryInv
<1>. QED  BY <1>1, <1>3, OthersSame

LEMMA StartStep == StartInv /\ [Next]_vars => StartInv'
<1>. SUFFICES ASSUME StartInv, [Next]_vars PROVE StartInv'
  OBVIOUS
<1>1. CASE UNCHANGED vars
  <2>1. UNCHANGED setupVars /\ UNCHANGED <<job, order>>
    BY <1>1 DEF vars, benchVars
  <2>. QED  BY <2>1, SamePlaces
<1>2. CASE BenchStep /\ UNCHANGED setupVars
  BY <1>2, BenchKeepsOrder, SamePlaces
<1>3. CASE SetupStep
  <2>1. UNCHANGED <<job, order>>
    BY <1>3 DEF SetupStep, benchVars
  <2>2. ASSUME NEW family \in Family, FamilyReads(family, Offered(family)) PROVE StartInv'
    BY <2>1, <2>2, FamilyKeeps
  <2>3. ASSUME NEW overrides \in Choice(Overrides, << >>), InventoryReads(overrides, profilesFile)
        PROVE  StartInv'
    <3>1. OverridesTyped(overrides)
      BY EvidenceAssumption DEF Choice, OverridesTyped
    <3>. QED  BY <2>1, <2>3, <3>1, InventoryStep
  <2>4. ASSUME NEW provider, NEW model, NEW cap, NEW passes,
               PicksPlanner(provider, model, cap, passes)
        PROVE  StartInv'
    BY <2>1, <2>4, PlannerStep
  <2>5. ASSUME NEW iters, NEW raw, NEW allows, NEW reads, MakesFactory(iters, raw, allows, reads)
        PROVE  StartInv'
    BY <2>1, <2>5, FactoryStep
  <2>6. CASE DockerChanges
    BY <2>1, <2>6, DockerStep
  <2>7. CASE MakesTools
    BY <2>1, <2>7, ToolsStep
  <2>. QED  BY <1>3, <2>2, <2>3, <2>4, <2>5, <2>6, <2>7 DEF SetupStep
<1>. QED  BY <1>1, <1>2, <1>3 DEF Next

LEMMA StartHolds == Spec => []StartInv
BY InitStart, StartStep, PTL DEF Spec

(* A set that lists n different things has n members.                       *)
LEMMA AsMany ==
  ASSUME NEW n \in Nat, NEW f, NEW S, f \in [1..n -> S], \A x \in S : \E i \in 1..n : f[i] = x,
         \A i, j \in 1..n : f[i] = f[j] => i = j
  PROVE  Cardinality(S) = n
<1>1. f \in Surjection(1..n, S)
  BY DEF Surjection
<1>2. f \in Injection(1..n, S)
  BY DEF Injection, IsInjective
<1>3. IsFiniteSet(1..n) /\ Cardinality(1..n) = n
  <2>1. 1 \in Int /\ n \in Int
    OBVIOUS
  <2>. QED  BY <2>1, FS_Interval
<1>4. Cardinality(S) = Cardinality(1..n) <=> f \in Injection(1..n, S)
  BY <1>1, <1>3, FS_Surjection
<1>. QED  BY <1>2, <1>3, <1>4

(* Every start that is not refused serves each model asked for, under its own *)
(* id and by its own provider (bootstrap.py:239).                             *)
THEOREM AskedIsServed == Spec => []EveryModelServed
<1>1. StartInv => EveryModelServed
  <2>. SUFFICES ASSUME StartInv, stage \in Live
                PROVE  /\ Len(models) = Len(asked) /\ Cardinality(DOMAIN providers) = Len(asked)
                       /\ \A i \in DOMAIN asked :
                            /\ models[i].id = asked[i].id
                            /\ models[i].provider = ProviderName[asked[i].family]
                            /\ asked[i].id \in DOMAIN providers
                            /\ providers[asked[i].id] =
                                 [family |-> asked[i].family, wire |-> asked[i].wire]
                       /\ baseline = asked[1].id
    BY DEF EveryModelServed, Live
  <2>1. AskedInv /\ asked # <<>>
    BY DEF StartInv, TakenInv
  <2>2. Len(asked) \in Nat /\ DOMAIN asked = 1..Len(asked)
    BY <2>1 DEF AskedInv
  <2>3. Cardinality(DOMAIN providers) = Len(asked)
    <3>. DEFINE P == DOMAIN providers
                f == [i \in 1..Len(asked) |-> asked[i].id]
    <3>1. P = {asked[i].id : i \in 1..Len(asked)}
      BY <2>1 DEF AskedInv
    <3>2. f \in [1..Len(asked) -> P] /\ \A x \in P : \E i \in 1..Len(asked) : f[i] = x
      BY <3>1
    <3>3. \A i, j \in 1..Len(asked) : f[i] = f[j] => i = j
      BY <2>1 DEF AskedInv
    <3>. HIDE DEF P, f
    <3>4. Cardinality(P) = Len(asked)
      BY <2>2, <3>2, <3>3, AsMany
    <3>. QED  BY <3>4 DEF P
  <2>4. \A i \in 1..Len(asked) :
          /\ models[i].id = asked[i].id
          /\ models[i].provider = ProviderName[asked[i].family]
          /\ asked[i].id \in DOMAIN providers
          /\ providers[asked[i].id] = [family |-> asked[i].family, wire |-> asked[i].wire]
    BY <2>1 DEF AskedInv
  <2>5. Len(models) = Len(asked) /\ baseline = asked[1].id
    BY <2>1 DEF AskedInv
  <2>. QED  BY <2>2, <2>3, <2>4, <2>5
<1>. QED  BY <1>1, StartHolds, PTL

(* Planner and synthesizer, and whoever stands in for them, honour a          *)
(* temperature, or the plan-backed planner has passed the live gate and stands *)
(* alone (bootstrap.py:651).                                                  *)
THEOREM DeterministicPhases == Spec => []PhasesStayDeterministic
<1>1. StartInv => PhasesStayDeterministic
  BY DEF StartInv
<1>. QED  BY <1>1, StartHolds, PTL

(* The ids under Ollama's prefix. *)
LEMMA FourHundreds ==
  ASSUME NEW id \in Nat
  PROVE  id \div 100 = 4 <=> id \in 400..499
OBVIOUS

(* The notice names the models on a card whose price is not known. *)
LEMMA UnpricedAre ==
  ASSUME AskedInv, TakenInv, stage \in Live, NEW i \in 1..Len(asked)
  PROVE  models[i].id \in Unpriced <=>
           /\ asked[i].family \in {"anthropic", "compat", "moonshot"}
           /\ models[i].costIn + models[i].costOut = 0
           /\ models[i].id \notin 400..499
<1>. DEFINE m == models[i]
<1>1. /\ m \in Served /\ m.id \in Nat /\ m.costIn \in Int /\ m.costOut \in Int
      /\ m.costIn >= 0 /\ m.costOut >= 0
  BY ServedIs DEF Served, TakenInv, ValidModel
<1>2. m.id \in Unpriced <=> m.billing = "card" /\ m.costIn = 0 /\ m.costOut = 0 /\ ~Ollama(m)
  <2>1. ASSUME NEW k \in 1..Len(asked), models[k].id = m.id PROVE models[k] = m
    BY <2>1, ServedIs
  <2>2. Range(models) = {models[k] : k \in 1..Len(asked)}
    BY ServedIs DEF Range
  <2>. HIDE DEF m
  <2>3. \A n \in Range(models) : n.id = m.id => n = m
    BY <2>1, <2>2
  <2>4. m \in Range(models)
    BY <2>2 DEF m
  <2>. QED  BY <2>3, <2>4 DEF Unpriced
<1>3. /\ asked[i].family \in Family
      /\ m.provider = ProviderName[asked[i].family] /\ m.billing = BillingOf(asked[i].family)
  <2>1. asked[i] \in Request
    BY DEF AskedInv
  <2>2. asked[i].family \in Family
    BY <2>1 DEF Request
  <2>. QED  BY <2>2 DEF AskedInv
<1>4. m.billing = "card" <=> asked[i].family \in {"anthropic", "compat", "moonshot", "ollama"}
  BY <1>3 DEF BillingOf, Family
<1>5. m.provider = "ollama" <=> asked[i].family = "ollama"
  BY <1>3 DEF ProviderName, Family
<1>6. m.id \div 100 = Prefix.ollama \div 100 <=> m.id \in 400..499
  <2>1. Prefix.ollama \div 100 = 4
    BY SMT DEF Prefix
  <2>. HIDE DEF m
  <2>. QED  BY ZenonT(40), <1>1, <2>1, FourHundreds
<1>7. m.costIn + m.costOut = 0 <=> m.costIn = 0 /\ m.costOut = 0
  BY <1>1
<1>. HIDE DEF m
<1>8. m.id \in Unpriced <=> /\ asked[i].family \in {"anthropic", "compat", "moonshot"}
                            /\ m.costIn + m.costOut = 0 /\ m.id \notin 400..499
  <2>1. Ollama(m) <=> asked[i].family = "ollama" \/ m.id \in 400..499
    BY <1>5, <1>6 DEF Ollama
  <2>2. m.id \in Unpriced <=> m.billing = "card" /\ m.costIn + m.costOut = 0 /\ ~Ollama(m)
    BY <1>2, <1>7
  <2>3. m.billing = "card" /\ asked[i].family # "ollama"
          <=> asked[i].family \in {"anthropic", "compat", "moonshot"}
    BY <1>4
  <2>4. m.billing = "card" /\ ~Ollama(m)
          <=> asked[i].family \in {"anthropic", "compat", "moonshot"} /\ m.id \notin 400..499
    <3>. DEFINE far == m.id \in 400..499
                card == m.billing = "card"
                oll == asked[i].family = "ollama"
                priced == asked[i].family \in {"anthropic", "compat", "moonshot"}
    <3>1. (Ollama(m) <=> oll \/ far) /\ (card /\ ~oll <=> priced)
      BY <2>1, <2>3
    <3>. HIDE DEF far, card, oll, priced
    <3>2. card /\ ~Ollama(m) <=> priced /\ ~far
      BY <3>1
    <3>. QED  BY <3>2 DEF far, card, priced
  <2>. QED  BY <2>2, <2>4
<1>. QED  BY <1>8 DEF m

(* The tools of a run are those the planner was told of, and the notices say  *)
(* what is unisolated, missing or unpriced (bootstrap.py:803).                *)
THEOREM ToolsAreThoseTold == Spec => []ToolsAreReal
<1>1. StartInv => ToolsAreReal
  <2>. SUFFICES ASSUME StartInv, stage = "ready" PROVE ToolsAreReal
    BY DEF ToolsAreReal
  <2>1. /\ AskedInv /\ TakenInv /\ stage \in Live
        /\ factory.raw \in {Null, "docker", "subprocess"}
        /\ factory.mode = SandboxMode(factory.raw, answered)
        /\ factory.told = ToolNames(factory.mode, factory.allows, factory.reads)
        /\ factory.notice.sandbox = IF factory.mode = "docker" THEN "none" ELSE factory.mode
        /\ factory.notice.unpriced = Unpriced
        /\ built \in {Null, factory.told}
    BY DEF StartInv, FactoryInv, Live
  <2>2. "run_python" \in factory.told <=> factory.mode # "unavailable"
    BY <2>1 DEF ToolNames
  <2>3. "run_python" \in factory.told => answered \/ factory.raw = "subprocess"
    BY <2>1, <2>2 DEF SandboxMode
  <2>4. factory.notice.sandbox = "none" <=>
          "run_python" \in factory.told /\ factory.raw # "subprocess"
    BY <2>1, <2>2 DEF SandboxMode
  <2>5. DOMAIN asked = 1..Len(asked)
    BY <2>1 DEF AskedInv
  <2>6. \A i \in DOMAIN asked :
          models[i].id \in factory.notice.unpriced <=>
            /\ asked[i].family \in {"anthropic", "compat", "moonshot"}
            /\ models[i].costIn + models[i].costOut = 0
            /\ models[i].id \notin 400..499
    <3>. TAKE i \in DOMAIN asked
    <3>1. models[i].id \in Unpriced <=>
            /\ asked[i].family \in {"anthropic", "compat", "moonshot"}
            /\ models[i].costIn + models[i].costOut = 0
            /\ models[i].id \notin 400..499
      BY ZenonT(40), <2>1, <2>5, UnpricedAre
    <3>. QED  BY <2>1, <3>1
  <2>7. built \in {Null, factory.told}
    BY <2>1
  <2>. QED  BY <2>3, <2>4, <2>6, <2>7 DEF ToolsAreReal
<1>. QED  BY <1>1, StartHolds, PTL

-----------------------------------------------------------------------------
(* The comparison. *)

(* An arm of a round, and a round all of whose arms are graded.             *)
Arm ==
  [extras : Nat, cost : Nat, error : BOOLEAN, code : Nat \cup {Null}, measured : BOOLEAN]
GradedArm ==
  [extras : Nat, cost : Nat, error : BOOLEAN, code : Nat, measured : BOOLEAN]
Round == [goal : Goals, arms : [1..3 -> GradedArm]]

GradeInv == grade \in [score : Nat, measured : BOOLEAN]

(* The rounds are those asked for, in order; those left are the rest.       *)
RoundsInv ==
  /\ order \in Suites
  /\ rows \in Seq(Round) /\ todo \in Seq(Goals)
  /\ Len(rows) + Len(todo) = Len(Suite(order))
  /\ \A i \in 1..Len(rows) : rows[i].goal = Suite(order)[i]
  /\ \A i \in 1..Len(todo) : todo[i] = Suite(order)[Len(rows) + i]

(* A round at work has some of its arms. *)
ArmsInv ==
  /\ trial \in Seq(Arm) /\ Len(trial) <= 3
  /\ todo = <<>> => trial = <<>>

(* What a round of three arms cost, and the arms of the round at work.      *)
RoundCost == [i \in DOMAIN rows |-> rows[i].arms[1].cost + rows[i].arms[2].cost
                                      + rows[i].arms[3].cost]
CostAt(n) == IF n <= Len(trial) THEN trial[n].cost ELSE 0
MoneyInv ==
  spent = SumOver(1..Len(rows), RoundCost) + (CostAt(1) + CostAt(2) + CostAt(3))

SuiteInv == GradeInv /\ (job = "suite" => RoundsInv /\ ArmsInv /\ MoneyInv)

-----------------------------------------------------------------------------
(* Places in a suite. *)

LEMMA Quotient ==
  ASSUME NEW m \in Int, NEW k \in Nat, k # 0
  PROVE  m \div k \in Int /\ k * (m \div k) <= m /\ m < k * (m \div k) + k
OBVIOUS

LEMMA Between ==
  ASSUME NEW k \in Nat, k # 0, NEW x \in Int, NEW y \in Int, k * x < k * y
  PROVE  x < y
<1>1. SUFFICES ASSUME x >= y PROVE FALSE
  OBVIOUS
<1>2. PICK d \in Nat : x = y + d
  <2>1. x - y \in Nat /\ x = y + (x - y)
    BY <1>1
  <2>. QED  BY <2>1
<1>3. k * d \in Nat
  OBVIOUS
<1>4. k * x = k * y + k * d
  BY <1>2
<1>5. k * x \in Int /\ k * y \in Int
  OBVIOUS
<1>. QED  BY <1>3, <1>4, <1>5

LEMMA PlaceIn ==
  ASSUME NEW n \in Nat, NEW k \in Nat, k # 0, NEW i \in 1..(n * k)
  PROVE  (i - 1) \div k + 1 \in 1..n
<1> DEFINE q == (i - 1) \div k
<1>1. n * k \in Nat /\ i \in Int /\ 1 <= i /\ i <= n * k
  OBVIOUS
<1>2. q \in Int /\ k * q <= i - 1 /\ i - 1 < k * q + k
  BY <1>1, Quotient, i - 1 \in Int
<1>. HIDE DEF q
<1>3. k * q < k * n
  BY <1>1, <1>2
<1>4. q < n
  BY <1>2, <1>3, Between
<1>5. k * (-1) < k * q
  BY <1>1, <1>2
<1>6. -1 < q
  BY <1>2, <1>5, Between, -1 \in Int
<1>7. q + 1 \in 1..n
  BY <1>2, <1>4, <1>6
<1>. QED  BY <1>7 DEF q

LEMMA PlaceOf ==
  ASSUME NEW n \in Nat, NEW k \in Nat, k # 0, NEW j \in 1..n
  PROVE  (j - 1) * k + 1 \in 1..(n * k) /\ (((j - 1) * k + 1) - 1) \div k + 1 = j
<1> DEFINE m == (j - 1) * k
           q == m \div k
<1>1. m \in Nat /\ j - 1 \in Int /\ n - j \in Nat
  OBVIOUS
<1>2. n * k = m + k + (n - j) * k /\ (n - j) * k \in Nat
  OBVIOUS
<1>3. m + 1 \in 1..(n * k)
  BY <1>1, <1>2
<1>4. q \in Int /\ k * q <= m /\ m < k * q + k
  BY <1>1, Quotient
<1>5. m = k * (j - 1)
  OBVIOUS
<1>6. (m + 1) - 1 = m
  BY <1>1
<1>. HIDE DEF m
<1>. HIDE DEF q
<1>7. k * (j - 1) < k * (q + 1)
  BY <1>4, <1>5
<1>8. k * q < k * j
  BY <1>4, <1>5
<1>9. j - 1 < q + 1
  BY <1>1, <1>4, <1>7, Between, q + 1 \in Int
<1>10. q < j
  BY <1>4, <1>8, Between
<1>11. q + 1 = j
  BY <1>4, <1>9, <1>10
<1>. QED  BY <1>3, <1>6, <1>11 DEF m, q

LEMMA SuiteIs ==
  ASSUME order \in Suites
  PROVE  /\ order.k \in Nat \ {0} /\ order.goals \in Seq(Goals) /\ NoDuplicates(order.goals)
         /\ Suite(order) \in Seq(Goals)
         /\ Range(order.goals) = {Suite(order)[i] : i \in 1..Len(Suite(order))}
<1> DEFINE k == order.k
           n == Len(order.goals)
           s == Suite(order)
<1>1. k \in Nat /\ k # 0 /\ order.goals \in Seq(Goals) /\ NoDuplicates(order.goals)
  BY BenchAssumption
<1>2. n \in Nat /\ n * k \in Nat /\ DOMAIN order.goals = 1..n
  BY <1>1
<1>3. s = [i \in 1..(n * k) |-> order.goals[(i - 1) \div k + 1]]
  BY DEF Suite
<1>. HIDE DEF k, n, s
<1>4. \A i \in 1..(n * k) : (i - 1) \div k + 1 \in 1..n
  BY <1>1, <1>2, PlaceIn
<1>5. \A i \in 1..(n * k) : order.goals[(i - 1) \div k + 1] \in Goals
  BY <1>1, <1>2, <1>4
<1>6. s \in Seq(Goals) /\ Len(s) = n * k
  BY <1>2, <1>3, <1>5
<1>7. ASSUME NEW g \in Range(order.goals) PROVE g \in {s[i] : i \in 1..Len(s)}
  <2>1. PICK j \in 1..n : g = order.goals[j]
    BY <1>2 DEF Range
  <2> DEFINE i == (j - 1) * k + 1
  <2>2. i \in 1..(n * k) /\ (i - 1) \div k + 1 = j
    BY <1>1, <1>2, PlaceOf
  <2>. HIDE DEF i
  <2>3. s[i] = g
    BY <1>3, <2>1, <2>2
  <2>. QED  BY <1>6, <2>2, <2>3
<1>8. ASSUME NEW i \in 1..Len(s) PROVE s[i] \in Range(order.goals)
  <2>1. s[i] = order.goals[(i - 1) \div k + 1]
    BY <1>3, <1>6
  <2>. QED  BY <1>2, <1>4, <1>6, <2>1 DEF Range
<1>. QED  BY <1>1, <1>6, <1>7, <1>8 DEF k, s

-----------------------------------------------------------------------------
(* Winners. *)

LEMMA SoleIs ==
  ASSUME NEW set \in SUBSET (1..3)
  PROVE  /\ \A a \in 1..3 : Sole(set) = a <=> set = {a}
         /\ Sole(set) \in 0..3
<1>1. IsFiniteSet(set)
  BY FS_Interval, FS_Subset, 1 \in Int /\ 3 \in Int
<1>2. Cardinality(set) = 1 <=> \E a : set = {a}
  BY <1>1, FS_Singleton
<1>3. \A a : set = {a} => Sole(set) = a
  BY <1>2 DEF Sole
<1>4. (\A a : set # {a}) => Sole(set) = 0
  BY <1>2 DEF Sole, Tie
<1>5. CASE \E b : set = {b}
  <2>1. PICK b : set = {b}
    BY <1>5
  <2>2. b \in 1..3 /\ Sole(set) = b
    BY <1>3, <2>1
  <2>3. \A a : set = {a} <=> b = a
    BY <2>1
  <2>. QED  BY <2>2, <2>3
<1>6. CASE ~ \E b : set = {b}
  <2>1. Sole(set) = 0 /\ \A a : set # {a}
    BY <1>4, <1>6
  <2>. QED  BY <2>1
<1>. QED  BY <1>5, <1>6

LEMMA LeaderIs ==
  ASSUME NEW w \in [1..3 -> Int],
         NEW v, v = Sole({a \in 1..3 : \A b \in 1..3 : w[b] <= w[a]})
  PROVE  /\ v # Tie => \A b \in (1..3) \ {v} : w[b] < w[v]
         /\ v = Tie => \E a, b \in 1..3 : a # b /\ w[a] = w[b]
<1> DEFINE top == {a \in 1..3 : \A b \in 1..3 : w[b] <= w[a]}
<1>1. v \in 0..3 /\ \A a \in 1..3 : v = a <=> top = {a}
  BY SoleIs, top \in SUBSET (1..3)
<1>2. ASSUME v # Tie, NEW b \in (1..3) \ {v} PROVE w[b] < w[v]
  <2>1. v \in 1..3 /\ top = {v}
    BY <1>1, <1>2 DEF Tie
  <2>2. v \in top /\ b \notin top
    BY <2>1
  <2>3. PICK d \in 1..3 : ~(w[d] <= w[b])
    BY <2>2
  <2>. QED  BY <2>1, <2>2, <2>3
<1>3. ASSUME v = Tie PROVE \E a, b \in 1..3 : a # b /\ w[a] = w[b]
  <2>1. top # {1} /\ top # {2} /\ top # {3}
    BY <1>1, <1>3 DEF Tie
  <2>2. SUFFICES ASSUME w[1] # w[2], w[1] # w[3], w[2] # w[3] PROVE FALSE
    OBVIOUS
  <2>3. w[1] \in Int /\ w[2] \in Int /\ w[3] \in Int /\ 1..3 = {1, 2, 3}
    OBVIOUS
  <2>4. 1 \in top <=> w[2] < w[1] /\ w[3] < w[1]
    BY <2>2, <2>3
  <2>5. 2 \in top <=> w[1] < w[2] /\ w[3] < w[2]
    BY <2>2, <2>3
  <2>6. 3 \in top <=> w[1] < w[3] /\ w[2] < w[3]
    BY <2>2, <2>3
  <2>7. top \subseteq {1, 2, 3}
    BY <2>3
  <2>. HIDE DEF top
  <2>8. (1 \in top => 2 \notin top) /\ (1 \in top => 3 \notin top) /\ (2 \in top => 3 \notin top)
    BY <2>3, <2>4, <2>5, <2>6
  <2>9. 1 \in top \/ 2 \in top \/ 3 \in top
    BY <2>2, <2>3, <2>4, <2>5, <2>6
  <2>. QED  BY <2>1, <2>7, <2>8, <2>9
<1>. QED  BY <1>2, <1>3

(* A difference of two that is beyond their spread is one of the same sign. *)
LEMMA SameSign ==
  ASSUME NEW p \in Int, NEW q \in Int, Significant(<<p, q>>)
  PROVE  (p > 0 /\ q > 0) \/ (p < 0 /\ q < 0)
<1>1. 1000 * Abs(p + q) > 12706 * Abs(p - q)
  BY DEF Significant
<1>2. /\ p + q \in Int /\ p - q \in Int
      /\ Abs(p + q) = p + q \/ Abs(p + q) = -(p + q)
      /\ Abs(p - q) >= p - q /\ Abs(p - q) >= q - p /\ Abs(p - q) \in Nat
  BY DEF Abs
<1>3. Abs(p + q) \in Int
  BY <1>2
<1>4. Abs(p + q) > Abs(p - q)
  BY <1>1, <1>2, <1>3
<1>. QED  BY <1>2, <1>4

LEMMA SignsMultiply ==
  ASSUME NEW p \in Int, NEW q \in Int, (p > 0 /\ q > 0) \/ (p < 0 /\ q < 0)
  PROVE  p * q > 0
OBVIOUS

-----------------------------------------------------------------------------
(* The invariant of a suite. *)

LEMMA UnmeasuredIs == Unmeasured \in [score : Nat, measured : BOOLEAN]
BY DEF Unmeasured

LEMMA GradeKeeps == ASSUME GradeInv, [Next]_vars PROVE GradeInv'
<1>1. CASE Quiet
  <2>1. grade' = grade
    BY <1>1 DEF Quiet, scorerVars
  <2>. QED  BY <2>1 DEF GradeInv
<1>2. ASSUME grade' = Unmeasured PROVE GradeInv'
  BY <1>2, UnmeasuredIs DEF GradeInv
<1>3. ASSUME ScoreStarts \/ GradeTaken PROVE GradeInv'
  <2>1. grade' = Unmeasured
    BY <1>3 DEF ScoreStarts, GradeTaken
  <2>. QED  BY <1>2, <2>1
<1>4. ASSUME ScorerStep PROVE GradeInv'
  <2>1. CASE grade' = grade
    BY <2>1 DEF GradeInv
  <2>2. CASE \E s \in Scores : grade' = [grade EXCEPT !.score = s]
    <3>1. PICK s \in Scores : grade' = [grade EXCEPT !.score = s]
      BY <2>2
    <3>2. s \in Nat
      BY ScoresAssumption
    <3>. QED  BY <3>1, <3>2 DEF GradeInv
  <2>3. CASE grade' = [grade EXCEPT !.measured = TRUE]
    BY <2>3 DEF GradeInv
  <2>4. RunnerReports => grade' = grade \/ \E s \in Scores : grade' = [grade EXCEPT !.score = s]
    BY DEF RunnerReports
  <2>5. ScoreEnds \/ ScoreTimesOut
          => grade' = [grade EXCEPT !.measured = TRUE] \/ grade' = Unmeasured
    BY DEF ScoreEnds, ScoreTimesOut
  <2>6. ProcessStep => RunnerReports \/ grade' = grade
    BY DEF ProcessStep, ServerStarts, ServerReady, SolutionForks, ServerDies, RunnerExits
  <2>. QED  BY <1>2, <1>4, <2>1, <2>2, <2>3, <2>4, <2>5, <2>6 DEF ScorerStep
<1>. QED  BY <1>1, <1>3, <1>4, ScorerShape

(* What an arm leaves, by what the code knows of it.                        *)
LEMMA LeftIs ==
  ASSUME NEW n \in 1..3, NEW goal, NEW left \in Left(Arms[n], goal)
  PROVE  left \in Arm
<1>1. /\ left.extras \in IF goal \in Repo THEN {0} ELSE 0..2
      /\ left.cost \in [baseline |-> {1}, orchestration |-> {2}, agentic |-> 1..2][Arms[n]]
      /\ left.error \in IF Arms[n] = "agentic" THEN BOOLEAN ELSE {FALSE}
      /\ left.code = Null /\ left.measured = FALSE
      /\ left = [extras |-> left.extras, cost |-> left.cost, error |-> left.error,
                 code |-> left.code, measured |-> left.measured]
  BY DEF Left
<1>2. Arms[n] \in {"baseline", "orchestration", "agentic"}
  BY DEF Arms
<1>3. left.cost \in Nat
  BY <1>1, <1>2
<1>4. left.extras \in Nat
  <2>1. left.extras \in {0} \/ left.extras \in 0..2
    BY <1>1
  <2>. QED  BY <2>1
<1>5. left.error \in BOOLEAN
  BY <1>1, Zenon
<1>. QED  BY <1>1, <1>3, <1>4, <1>5 DEF Arm

LEMMA SuiteStarts == Init => SuiteInv
<1>. SUFFICES ASSUME Init PROVE SuiteInv
  OBVIOUS
<1>1. GradeInv
  <2>1. grade = Unmeasured
    BY DEF Init, BenchInit, NoBench, ScorerInit
  <2>. QED  BY <2>1, UnmeasuredIs DEF GradeInv
<1>2. ASSUME job = "suite" PROVE RoundsInv /\ ArmsInv /\ MoneyInv
  <2>1. /\ order \in Suites /\ todo = Suite(order) /\ trial = <<>> /\ rows = <<>> /\ spent = 0
    BY <1>2 DEF Init, BenchInit, NoBench
  <2>2. Suite(order) \in Seq(Goals)
    BY <2>1, SuiteIs
  <2>3. RoundsInv /\ ArmsInv
    BY <2>1, <2>2 DEF RoundsInv, ArmsInv
  <2>4. 1..Len(rows) = {} /\ \A n \in 1..3 : CostAt(n) = 0
    BY <2>1 DEF CostAt
  <2>5. SumOver(1..Len(rows), RoundCost) = 0
    BY <2>4, SumEmpty
  <2>. QED  BY <2>1, <2>3, <2>4, <2>5 DEF MoneyInv
<1>. QED  BY <1>1, <1>2 DEF SuiteInv

(* Most steps leave the rounds alone.                                       *)
RoundsStay == UNCHANGED <<order, todo, rows>>
Calm == RoundsStay /\ UNCHANGED <<trial, spent>>

LEMMA RoundsStand ==
  ASSUME RoundsInv, RoundsStay
  PROVE  RoundsInv' /\ RoundCost' = RoundCost /\ Len(rows)' = Len(rows)
<1>1. order' = order /\ todo' = todo /\ rows' = rows
  BY DEF RoundsStay
<1>2. Suite(order)' = Suite(order) /\ RoundCost' = RoundCost
  BY <1>1 DEF Suite, RoundCost
<1>. QED  BY <1>1, <1>2 DEF RoundsInv

LEMMA CalmKeeps ==
  ASSUME RoundsInv, ArmsInv, MoneyInv, Calm
  PROVE  RoundsInv' /\ ArmsInv' /\ MoneyInv'
<1>1. RoundsInv' /\ RoundCost' = RoundCost /\ Len(rows)' = Len(rows)
  BY RoundsStand DEF Calm
<1>2. trial' = trial /\ spent' = spent /\ todo' = todo
  BY DEF Calm, RoundsStay
<1>3. ArmsInv'
  BY <1>2 DEF ArmsInv
<1>4. MoneyInv'
  BY <1>1, <1>2 DEF MoneyInv, CostAt
<1>. QED  BY <1>1, <1>3, <1>4

LEMMA CostsAre ==
  ASSUME RoundsInv
  PROVE  /\ IsFiniteSet(1..Len(rows)) /\ DOMAIN rows = 1..Len(rows)
         /\ \A i \in 1..Len(rows) : RoundCost[i] \in Int
         /\ SumOver(1..Len(rows), RoundCost) \in Int
<1>1. Len(rows) \in Nat /\ DOMAIN rows = 1..Len(rows) /\ \A i \in 1..Len(rows) : rows[i] \in Round
  BY DEF RoundsInv
<1>2. IsFiniteSet(1..Len(rows))
  BY <1>1, FS_Interval, 1 \in Int
<1>3. ASSUME NEW i \in 1..Len(rows) PROVE RoundCost[i] \in Int
  <2>1. rows[i].arms \in [1..3 -> GradedArm]
    BY <1>1 DEF Round
  <2>2. rows[i].arms[1] \in GradedArm /\ rows[i].arms[2] \in GradedArm /\ rows[i].arms[3] \in GradedArm
    BY <2>1
  <2>3. rows[i].arms[1].cost \in Nat /\ rows[i].arms[2].cost \in Nat /\ rows[i].arms[3].cost \in Nat
    BY <2>2 DEF GradedArm
  <2>. QED  BY <1>1, <2>3 DEF RoundCost
<1>. QED  BY <1>1, <1>2, <1>3, SumInt

LEMMA ArmKeeps ==
  ASSUME RoundsInv, ArmsInv, MoneyInv, ArmRuns
  PROVE  RoundsInv' /\ ArmsInv' /\ MoneyInv'
<1>1. PICK left \in Left(Arms[Len(trial) + 1], Head(todo)) :
        trial' = Append(trial, left) /\ spent' = spent + left.cost
  BY DEF ArmRuns
<1>. DEFINE n == Len(trial)
<1>2. RoundsStay
  BY DEF ArmRuns, RoundsStay
<1>3. trial \in Seq(Arm)
  BY DEF ArmsInv
<1>4. n < 3 /\ n \in Nat
  BY <1>3 DEF ArmRuns, Arms
<1>5. n = 0 \/ n = 1 \/ n = 2
  <2>. HIDE DEF n
  <2>. QED  BY <1>4
<1>6. todo' # <<>>
  BY <1>2 DEF ArmRuns, RoundsStay
<1>7. left \in Arm
  BY <1>1, <1>4, LeftIs, n + 1 \in 1..3
<1>8. left.cost \in Nat
  BY <1>7 DEF Arm
<1>9. /\ trial' \in Seq(Arm) /\ Len(trial') = n + 1
      /\ trial'[n + 1] = left
      /\ \A i \in 1..n : trial'[i] = trial[i]
  BY <1>1, <1>3, <1>7
<1>10. ArmsInv'
  BY <1>4, <1>6, <1>9 DEF ArmsInv
<1>11. \A i \in 1..n : trial[i].cost \in Nat
  <2>1. \A i \in 1..n : trial[i] \in Arm
    BY <1>3
  <2>. QED  BY <2>1 DEF Arm
<1>12. \A i \in 1..3 : CostAt(i) \in Nat
  BY <1>11 DEF CostAt
<1>13. CostAt(1)' + CostAt(2)' + CostAt(3)' = CostAt(1) + CostAt(2) + CostAt(3) + left.cost
  <2>1. CASE n = 0
    BY <1>8, <1>9, <2>1 DEF CostAt
  <2>2. CASE n = 1
    BY <1>8, <1>9, <1>11, <2>2 DEF CostAt
  <2>3. CASE n = 2
    BY <1>8, <1>9, <1>11, <2>3 DEF CostAt
  <2>. QED  BY <1>5, <2>1, <2>2, <2>3
<1>14. RoundsInv' /\ RoundCost' = RoundCost /\ Len(rows)' = Len(rows)
  BY <1>2, RoundsStand
<1>15. MoneyInv'
  <2>. DEFINE total == SumOver(1..Len(rows), RoundCost)
              here == CostAt(1) + CostAt(2) + CostAt(3)
  <2>1. total \in Int /\ here \in Int /\ spent = total + here
    BY <1>12, CostsAre DEF MoneyInv
  <2>2. total' = total /\ here' = here + left.cost
    BY <1>13, <1>14
  <2>3. MoneyInv' <=> spent' = total' + here'
    BY DEF MoneyInv
  <2>4. spent' = spent + left.cost
    BY <1>1
  <2>. HIDE DEF total, here
  <2>. QED  BY <1>8, <2>1, <2>2, <2>3, <2>4
<1>. QED  BY <1>10, <1>14, <1>15

LEMMA GradeTakenKeeps ==
  ASSUME RoundsInv, ArmsInv, MoneyInv, GradeInv, TakesArmGrade
  PROVE  RoundsInv' /\ ArmsInv' /\ MoneyInv'
<1>. DEFINE m == Min(Ungraded)
<1>1. trial' = [trial EXCEPT ![m].code = grade.score, ![m].measured = grade.measured]
  BY DEF TakesArmGrade
<1>2. RoundsStay /\ spent' = spent
  BY DEF TakesArmGrade, RoundsStay
<1>. HIDE DEF m
<1>3. grade.score \in Nat /\ grade.measured \in BOOLEAN
  BY DEF GradeInv
<1>4. trial \in Seq(Arm) /\ Len(trial) \in Nat /\ DOMAIN trial = 1..Len(trial) /\ Len(trial) <= 3
  BY DEF ArmsInv
<1>5. DOMAIN trial' = 1..Len(trial)
  BY <1>1, <1>4
<1>6. ASSUME NEW i \in 1..Len(trial) PROVE trial'[i] \in Arm /\ trial'[i].cost = trial[i].cost
  <2>0. trial[i] \in Arm
    BY <1>4
  <2>1. CASE i # m
    BY <1>1, <1>4, <2>0, <2>1
  <2>2. CASE i = m
    <3>1. trial'[i] = [trial[i] EXCEPT !.code = grade.score, !.measured = grade.measured]
      BY <1>1, <1>4, <2>2
    <3>. QED  BY <1>3, <2>0, <3>1 DEF Arm
  <2>. QED  BY <2>1, <2>2
<1>7. trial' = [i \in 1..Len(trial) |-> trial'[i]]
  BY <1>1, <1>4
<1>8. trial' \in Seq(Arm) /\ Len(trial') = Len(trial)
  BY <1>4, <1>6, <1>7
<1>9. ArmsInv'
  <2>1. todo' = <<>> => trial' = <<>>
    <3>1. todo' = todo
      BY <1>2 DEF RoundsStay
    <3>2. ASSUME trial = <<>> PROVE trial' = <<>>
      <4>1. Len(trial') = 0 /\ trial' \in Seq(Arm)
        BY <1>8, <3>2
      <4>. QED  BY <4>1, EmptySeq
    <3>3. todo = <<>> => trial = <<>>
      BY DEF ArmsInv
    <3>. QED  BY <3>1, <3>2, <3>3
  <2>. QED  BY <1>4, <1>8, <2>1 DEF ArmsInv
<1>10. \A n \in 1..3 : CostAt(n)' = CostAt(n)
  BY <1>4, <1>6, <1>8 DEF CostAt
<1>11. RoundsInv' /\ RoundCost' = RoundCost /\ Len(rows)' = Len(rows)
  BY <1>2, RoundsStand
<1>12. CostAt(1)' = CostAt(1) /\ CostAt(2)' = CostAt(2) /\ CostAt(3)' = CostAt(3)
  BY <1>10
<1>13. MoneyInv'
  BY <1>2, <1>11, <1>12 DEF MoneyInv
<1>. QED  BY <1>9, <1>11, <1>13

LEMMA RoundKeeps ==
  ASSUME RoundsInv, ArmsInv, MoneyInv, EndsRound
  PROVE  RoundsInv' /\ ArmsInv' /\ MoneyInv'
<1>. DEFINE row == [goal |-> Head(todo), arms |-> trial]
            n == Len(rows)
<1>1. /\ rows' = Append(rows, row) /\ trial' = <<>> /\ todo' = Tail(todo)
      /\ order' = order /\ spent' = spent
  BY DEF EndsRound
<1>2. Len(trial) = 3 /\ Ungraded = {}
  BY DEF EndsRound, Arms
<1>3. rows \in Seq(Round) /\ todo \in Seq(Goals) /\ n \in Nat /\ order \in Suites
  BY DEF RoundsInv
<1>4. trial \in Seq(Arm) /\ DOMAIN trial = 1..3 /\ todo # <<>>
  BY <1>2 DEF ArmsInv
<1>5. \A i \in 1..3 : trial[i] \in GradedArm
  <2>. TAKE i \in 1..3
  <2>1. trial[i] \in Arm
    BY <1>4
  <2>2. trial[i].code # Null
    BY <1>2, <1>4 DEF Ungraded
  <2>. QED  BY <2>1, <2>2 DEF Arm, GradedArm
<1>6. trial \in [1..3 -> GradedArm]
  BY <1>4, <1>5
<1>7. Head(todo) \in Goals
  BY <1>3, <1>4
<1>8. row \in Round
  BY <1>6, <1>7 DEF Round
<1>9. row.goal = todo[1] /\ row.arms = trial
  BY <1>3, <1>4
<1>. HIDE DEF row
<1>10. /\ rows' \in Seq(Round) /\ Len(rows') = n + 1 /\ rows'[n + 1] = row
       /\ \A i \in 1..n : rows'[i] = rows[i]
  BY <1>1, <1>3, <1>8
<1>11. /\ todo' \in Seq(Goals) /\ Len(todo) \in Nat /\ Len(todo) >= 1
       /\ Len(todo') = Len(todo) - 1
       /\ \A i \in 1..Len(todo') : todo'[i] = todo[i + 1]
  BY <1>1, <1>3, <1>4
<1>12. RoundsInv'
  <2>. DEFINE s == Suite(order)
  <2>1. Suite(order)' = s
    BY <1>1 DEF Suite
  <2>2. /\ n + Len(todo) = Len(s)
        /\ \A i \in 1..n : rows[i].goal = s[i]
        /\ \A i \in 1..Len(todo) : todo[i] = s[n + i]
    BY DEF RoundsInv
  <2>. HIDE DEF s
  <2>3. ASSUME NEW i \in 1..(n + 1) PROVE rows'[i].goal = s[i]
    <3>1. CASE i \in 1..n
      BY <1>10, <2>2, <3>1
    <3>2. CASE i = n + 1
      BY <1>9, <1>10, <1>11, <2>2, <3>2
    <3>. QED  BY <1>3, <3>1, <3>2
  <2>4. ASSUME NEW i \in 1..Len(todo') PROVE todo'[i] = s[(n + 1) + i]
    <3>1. i + 1 \in 1..Len(todo) /\ n + (i + 1) = (n + 1) + i
      BY <1>3, <1>11
    <3>. QED  BY <1>11, <2>2, <3>1
  <2>5. (n + 1) + Len(todo') = Len(s)
    <3>. DEFINE t == Len(todo)
    <3>1. t \in Nat /\ Len(todo') = t - 1 /\ n + t = Len(s)
      BY <1>11, <2>2
    <3>. HIDE DEF t, n
    <3>. QED  BY <1>3, <3>1
  <2>6. order' \in Suites
    BY <1>1, <1>3
  <2>. QED  BY <1>10, <1>11, <2>1, <2>3, <2>4, <2>5, <2>6 DEF RoundsInv
<1>13. ArmsInv'
  BY <1>1 DEF ArmsInv
<1>14. MoneyInv'
  <2>. DEFINE S == 1..n
              T == 1..(n + 1)
              f == RoundCost
              g == RoundCost'
  <2>1. IsFiniteSet(S) /\ DOMAIN rows = S /\ (\A i \in S : f[i] \in Int) /\ SumOver(S, f) \in Int
    BY CostsAre
  <2>2. IsFiniteSet(T) /\ DOMAIN rows' = T
    BY <1>3, <1>10, FS_Interval, 1 \in Int, n + 1 \in Int
  <2>3. n + 1 \in T /\ T \ {n + 1} = S
    BY <1>3
  <2>4. \A i \in S : g[i] = f[i]
    <3>1. \A i \in T : g[i] = rows'[i].arms[1].cost + rows'[i].arms[2].cost + rows'[i].arms[3].cost
      BY <2>2 DEF RoundCost
    <3>2. \A i \in S : f[i] = rows[i].arms[1].cost + rows[i].arms[2].cost + rows[i].arms[3].cost
      BY <2>1 DEF RoundCost
    <3>. QED  BY <1>10, <2>3, <3>1, <3>2
  <2>5. g[n + 1] = trial[1].cost + trial[2].cost + trial[3].cost
    BY <1>9, <1>10, <2>2, <2>3 DEF RoundCost
  <2>6. /\ trial[1].cost \in Nat /\ trial[2].cost \in Nat /\ trial[3].cost \in Nat
    BY <1>5 DEF GradedArm
  <2>7. CostAt(1) = trial[1].cost /\ CostAt(2) = trial[2].cost /\ CostAt(3) = trial[3].cost
    BY <1>2 DEF CostAt
  <2>8. CostAt(1)' = 0 /\ CostAt(2)' = 0 /\ CostAt(3)' = 0
    BY <1>1 DEF CostAt
  <2>9. spent = SumOver(S, f) + (CostAt(1) + CostAt(2) + CostAt(3))
    BY DEF MoneyInv
  <2>10. MoneyInv' <=> spent' = SumOver(T, g) + (CostAt(1)' + CostAt(2)' + CostAt(3)')
    BY <1>10 DEF MoneyInv
  <2>. HIDE DEF S, T, f, g, n
  <2>11. \A i \in T : g[i] \in Int
    <3>1. g[n + 1] \in Int
      BY <2>5, <2>6
    <3>. QED  BY <2>1, <2>3, <2>4, <3>1
  <2>12. SumOver(T, g) = g[n + 1] + SumOver(S, g)
    BY <2>2, <2>3, <2>11, SumWithout
  <2>13. SumOver(S, g) = SumOver(S, f)
    BY <2>1, <2>4, SumSame
  <2>14. spent' = SumOver(S, f) + (trial[1].cost + trial[2].cost + trial[3].cost)
    BY <1>1, <2>7, <2>9
  <2>15. SumOver(T, g) = (trial[1].cost + trial[2].cost + trial[3].cost) + SumOver(S, f)
    BY <2>5, <2>12, <2>13
  <2>. QED  BY <2>1, <2>6, <2>8, <2>10, <2>14, <2>15
<1>. QED  BY <1>12, <1>13, <1>14

LEMMA SuiteKeeps == SuiteInv /\ [Next]_vars => SuiteInv'
<1>. SUFFICES ASSUME SuiteInv, [Next]_vars PROVE SuiteInv'
  OBVIOUS
<1>1. GradeInv /\ GradeInv'
  BY GradeKeeps DEF SuiteInv
<1>2. SUFFICES ASSUME job' = "suite" PROVE RoundsInv' /\ ArmsInv' /\ MoneyInv'
  BY <1>1 DEF SuiteInv
<1>3. job' = job
  <2>1. CampaignStep => job' = job
    BY DEF CampaignStep, AsksModel, GradesProse, SendsToScorer, TakesGrade, WritesMeasurements,
           Calibrates
  <2>2. SuiteStep => job' = job
    BY DEF SuiteStep, ArmRuns, BaselineRaises, GradesArm, TakesArmGrade, EndsRound, Reports
  <2>. QED  BY <2>1, <2>2 DEF Next, BenchStep, SetupStep, vars, benchVars
<1>4. RoundsInv /\ ArmsInv /\ MoneyInv /\ job = "suite"
  BY <1>2, <1>3 DEF SuiteInv
<1>5. ArmRuns \/ TakesArmGrade \/ EndsRound \/ Calm
  <2>1. CampaignStep => Calm
    BY <1>4 DEF CampaignStep, AsksModel, GradesProse, SendsToScorer, TakesGrade,
                WritesMeasurements, Calibrates, Calm, RoundsStay
  <2>2. SuiteStep => ArmRuns \/ TakesArmGrade \/ EndsRound \/ Calm
    BY DEF SuiteStep, BaselineRaises, GradesArm, Reports, Calm, RoundsStay
  <2>. QED  BY <2>1, <2>2 DEF Next, BenchStep, SetupStep, vars, benchVars, Calm, RoundsStay
<1>. QED  BY <1>1, <1>4, <1>5, ArmKeeps, GradeTakenKeeps, RoundKeeps, CalmKeeps

-----------------------------------------------------------------------------
(* The report. *)

(* What the rounds show of a goal, in numbers. *)
LEMMA PointsAre ==
  ASSUME RoundsInv, NEW a \in 1..3, NEW goal
  PROVE  /\ IsFiniteSet(RoundsOf(goal)) /\ RoundsOf(goal) \subseteq 1..Len(rows)
         /\ \A i \in 1..Len(rows) : /\ Composite(goal, rows[i].arms[a]) \in Int
                                    /\ rows[i].arms[a].cost \in Int
         /\ Points(goal, a) \in Int /\ CostOf(goal, a) \in Int
<1>1. IsFiniteSet(1..Len(rows)) /\ DOMAIN rows = 1..Len(rows)
  BY CostsAre
<1>2. RoundsOf(goal) \subseteq 1..Len(rows) /\ IsFiniteSet(RoundsOf(goal))
  BY <1>1, FS_Subset DEF RoundsOf
<1>3. ASSUME NEW i \in 1..Len(rows)
      PROVE  Composite(goal, rows[i].arms[a]) \in Int /\ rows[i].arms[a].cost \in Int
  <2>1. rows[i] \in Round
    BY DEF RoundsInv
  <2>2. rows[i].arms[a] \in GradedArm
    BY <2>1 DEF Round
  <2>3. /\ rows[i].arms[a].code \in Nat /\ rows[i].arms[a].extras \in Nat
        /\ rows[i].arms[a].cost \in Nat
    BY <2>2 DEF GradedArm
  <2>. DEFINE arm == rows[i].arms[a]
  <2>4. arm.code \in Nat /\ arm.extras \in Nat
    BY <2>3
  <2>. HIDE DEF arm
  <2>5. 10 * arm.code \in Int /\ 7 * arm.code + 150 * arm.extras \in Int
    BY <2>4
  <2>6. Composite(goal, arm) \in Int
    BY <2>5, Zenon DEF Composite
  <2>. QED  BY <2>3, <2>6 DEF arm
<1>. DEFINE R == RoundsOf(goal)
            f == [i \in DOMAIN rows |-> Composite(goal, rows[i].arms[a])]
            c == [i \in DOMAIN rows |-> rows[i].arms[a].cost]
<1>4. \A i \in R : f[i] \in Int /\ c[i] \in Int
  BY <1>1, <1>2, <1>3
<1>5. SumOver(R, f) \in Int /\ SumOver(R, c) \in Int
  <2>. HIDE DEF f, c, R
  <2>1. IsFiniteSet(R)
    BY <1>2 DEF R
  <2>. QED  BY <1>4, <2>1, SumInt
<1>. QED  BY <1>2, <1>3, <1>5 DEF Points, CostOf

(* What Better adds up is what the report has added up.                     *)
LEMMA BetterIs ==
  ASSUME RoundsInv, NEW goal, NEW a \in 1..3, NEW b \in 1..3
  PROVE  Better(goal, a, b) <=>
           \/ Points(goal, a) > Points(goal, b)
           \/ Points(goal, a) = Points(goal, b) /\ CostOf(goal, a) < CostOf(goal, b)
<1>. DEFINE mine == {i \in DOMAIN rows : rows[i].goal = goal}
            points(x) == SumOver(mine, [i \in mine |-> Composite(goal, rows[i].arms[x])])
            paid(x) == SumOver(mine, [i \in mine |-> rows[i].arms[x].cost])
<1>1. mine = RoundsOf(goal) /\ mine \subseteq DOMAIN rows /\ DOMAIN rows = 1..Len(rows)
  BY CostsAre DEF RoundsOf
<1>2. ASSUME NEW x \in 1..3 PROVE points(x) = Points(goal, x) /\ paid(x) = CostOf(goal, x)
  <2>. DEFINE f == [i \in DOMAIN rows |-> Composite(goal, rows[i].arms[x])]
              c == [i \in DOMAIN rows |-> rows[i].arms[x].cost]
              g == [i \in mine |-> Composite(goal, rows[i].arms[x])]
              d == [i \in mine |-> rows[i].arms[x].cost]
  <2>1. \A i \in mine : /\ f[i] \in Int /\ g[i] = f[i]
                        /\ c[i] \in Int /\ d[i] = c[i]
    BY <1>1, PointsAre
  <2>2. IsFiniteSet(mine)
    BY <1>1, PointsAre
  <2>3. SumOver(mine, g) = SumOver(mine, f) /\ SumOver(mine, d) = SumOver(mine, c)
    <3>. HIDE DEF f, c, g, d, mine
    <3>. QED  BY <2>1, <2>2, SumSame
  <2>. QED  BY <1>1, <2>3 DEF Points, CostOf
<1>3. Better(goal, a, b) <=> points(a) > points(b) \/ (points(a) = points(b) /\ paid(a) < paid(b))
  BY DEF Better
<1>. HIDE DEF points, paid
<1>. QED  BY <1>2, <1>3

LEMMA WinnerIs ==
  ASSUME RoundsInv, NEW goal, NEW a \in 1..3
  PROVE  Winner(goal) = a <=> \A b \in (DOMAIN Arms) \ {a} : Better(goal, a, b)
<1>. DEFINE p == [x \in 1..3 |-> Points(goal, x)]
            c == [x \in 1..3 |-> CostOf(goal, x)]
            best == {x \in 1..3 : \A b \in 1..3 : p[b] <= p[x]}
            front == {x \in best : \A b \in best : c[x] <= c[b]}
<1>1. p \in [1..3 -> Int] /\ c \in [1..3 -> Int]
  BY PointsAre
<1>2. DOMAIN Arms = 1..3
  BY DEF Arms
<1>3. Winner(goal) = Sole(front)
  <2>1. best = {x \in DOMAIN Arms : \A b \in DOMAIN Arms : Points(goal, b) <= Points(goal, x)}
    BY <1>2
  <2>2. front = {x \in best : \A b \in best : CostOf(goal, x) <= CostOf(goal, b)}
    OBVIOUS
  <2>. QED  BY <2>1, <2>2 DEF Winner
<1>4. front \in SUBSET (1..3)
  OBVIOUS
<1>. HIDE DEF p, c
<1>5. front = {a} <=> \A b \in (1..3) \ {a} : p[a] > p[b] \/ (p[a] = p[b] /\ c[a] < c[b])
  <2>1. best \subseteq 1..3 /\ \A x \in 1..3 : x \in best <=> \A b \in 1..3 : p[b] <= p[x]
    OBVIOUS
  <2>2. front \subseteq best /\ \A x \in best : x \in front <=> \A b \in best : c[x] <= c[b]
    OBVIOUS
  <2>. HIDE DEF best, front
  <2>3. \A x \in 1..3 : p[x] \in Int /\ c[x] \in Int
    BY <1>1
  <2>4. ASSUME \A b \in (1..3) \ {a} : p[a] > p[b] \/ (p[a] = p[b] /\ c[a] < c[b])
        PROVE  front = {a}
    <3>1. \A b \in 1..3 : p[b] <= p[a]
      BY <2>3, <2>4
    <3>2. a \in best
      BY <2>1, <3>1
    <3>3. \A b \in best : b # a => c[a] < c[b]
      <4>. TAKE b \in best
      <4>1. SUFFICES ASSUME b # a PROVE c[a] < c[b]
        OBVIOUS
      <4>2. b \in 1..3 /\ p[a] <= p[b]
        BY <2>1
      <4>. QED  BY <2>3, <2>4, <4>1, <4>2
    <3>4. a \in front
      BY <2>1, <2>2, <2>3, <3>2, <3>3
    <3>5. \A b \in front : b = a
      <4>. TAKE b \in front
      <4>1. SUFFICES ASSUME b # a PROVE FALSE
        OBVIOUS
      <4>2. b \in best /\ b \in 1..3 /\ c[b] <= c[a]
        BY <2>1, <2>2, <3>2
      <4>. QED  BY <2>3, <3>3, <4>1, <4>2
    <3>. QED  BY <3>4, <3>5
  <2>5. ASSUME front = {a}, NEW b \in (1..3) \ {a}
        PROVE  p[a] > p[b] \/ (p[a] = p[b] /\ c[a] < c[b])
    <3>1. a \in best /\ b \notin front /\ p[b] <= p[a] /\ \A d \in best : c[a] <= c[d]
      BY <2>1, <2>2, <2>5
    <3>2. SUFFICES ASSUME p[a] = p[b] PROVE c[a] < c[b]
      BY <2>3, <3>1
    <3>3. b \in best
      BY <2>1, <3>1, <3>2
    <3>4. PICK d \in best : ~(c[b] <= c[d])
      BY <2>2, <3>1, <3>3
    <3>5. c[a] <= c[d] /\ d \in 1..3
      BY <2>1, <3>1
    <3>. QED  BY <2>3, <3>4, <3>5
  <2>. QED  BY <2>4, <2>5
<1>6. Winner(goal) = a <=> front = {a}
  <2>. HIDE DEF front
  <2>. QED  BY <1>3, <1>4, SoleIs
<1>7. \A b \in 1..3 : Better(goal, a, b) <=> p[a] > p[b] \/ (p[a] = p[b] /\ c[a] < c[b])
  BY BetterIs DEF p, c
<1>. QED  BY <1>2, <1>5, <1>6, <1>7

(* All rounds over, their goals are those of the suite.                     *)
Answered == {rows[i].goal : i \in DOMAIN rows}

LEMMA AllAnswered ==
  ASSUME RoundsInv, todo = <<>>
  PROVE  Answered = Range(order.goals)
<1>1. Len(rows) \in Nat /\ DOMAIN rows = 1..Len(rows) /\ Len(rows) + 0 = Len(Suite(order))
      /\ \A i \in 1..Len(rows) : rows[i].goal = Suite(order)[i]
  BY DEF RoundsInv
<1>2. order \in Suites
  BY DEF RoundsInv
<1>3. Range(order.goals) = {Suite(order)[i] : i \in 1..Len(Suite(order))}
  BY <1>2, SuiteIs
<1>4. Len(Suite(order)) = Len(rows)
  BY <1>1
<1>. QED  BY <1>1, <1>3, <1>4 DEF Answered

(* The report of the state.                                                 *)
Reported ==
  [wins |-> [a \in DOMAIN Arms |-> Wins(a)],
   cost |-> [a \in DOMAIN Arms |->
               SumOver(Range(order.goals), [g \in Goals |-> CostOf(g, a)])],
   errors |-> Cardinality({i \in DOMAIN rows : rows[i].arms[3].error}),
   unmeasured |-> {g \in Range(order.goals) :
                     \A i \in DOMAIN rows : rows[i].goal = g =>
                       \A a \in DOMAIN Arms : ~rows[i].arms[a].measured},
   claim |-> ClaimsDifference,
   verdict |-> Verdict]

Won(a) == {g \in Answered : \A b \in DOMAIN Arms \ {a} : Better(g, a, b)}

LEMMA VerdictTold ==
  ASSUME RoundsInv, todo = <<>>
  PROVE  /\ Verdict # Tie =>
              \A b \in DOMAIN Arms \ {Verdict} : Cardinality(Won(b)) < Cardinality(Won(Verdict))
         /\ Verdict = Tie =>
              \E a, b \in DOMAIN Arms : a # b /\ Cardinality(Won(a)) = Cardinality(Won(b))
<1>1. DOMAIN Arms = 1..3
  BY DEF Arms
<1>2. ASSUME NEW a \in 1..3 PROVE Wins(a) = Cardinality(Won(a)) /\ Wins(a) \in Int
  <2>1. Won(a) = {g \in Range(order.goals) : Winner(g) = a}
    BY AllAnswered, WinnerIs DEF Won
  <2>2. order.goals \in Seq(Goals)
    BY SuiteIs DEF RoundsInv
  <2>3. IsFiniteSet(Range(order.goals))
    <3>1. DOMAIN order.goals = 1..Len(order.goals) /\ Len(order.goals) \in Nat
      BY <2>2
    <3>2. IsFiniteSet(DOMAIN order.goals)
      BY <3>1, FS_Interval, 1 \in Int
    <3>3. order.goals \in Surjection(DOMAIN order.goals, Range(order.goals))
      BY <2>2 DEF Surjection, Range
    <3>. QED  BY <3>2, <3>3, FS_Surjection
  <2>4. IsFiniteSet(Won(a))
    BY <2>1, <2>3, FS_Subset
  <2>. QED  BY <2>1, <2>4, FS_CardinalityType DEF Wins
<1>. DEFINE w == [a \in 1..3 |-> Wins(a)]
<1>3. w \in [1..3 -> Int] /\ \A a \in 1..3 : w[a] = Cardinality(Won(a))
  BY <1>2
<1>4. Verdict = Sole({a \in 1..3 : \A b \in 1..3 : w[b] <= w[a]})
  BY <1>1 DEF Verdict
<1>5. Verdict \in 0..3
  BY <1>4, SoleIs
<1>. HIDE DEF w
<1>6. /\ Verdict # Tie => \A b \in (1..3) \ {Verdict} : w[b] < w[Verdict]
      /\ Verdict = Tie => \E a, b \in 1..3 : a # b /\ w[a] = w[b]
  BY <1>3, <1>4, LeaderIs
<1>7. Verdict # Tie => Verdict \in 1..3
  BY <1>5 DEF Tie
<1>. QED  BY <1>1, <1>3, <1>6, <1>7

(* What an arm cost goal by goal is what its rounds cost.                   *)
ArmCost(a) == [i \in DOMAIN rows |-> rows[i].arms[a].cost]

LEMMA GoalsAreFinite ==
  ASSUME RoundsInv
  PROVE  /\ order.goals \in Seq(Goals) /\ IsFiniteSet(Range(order.goals))
         /\ Range(order.goals) \subseteq Goals
<1>1. order.goals \in Seq(Goals)
  BY SuiteIs DEF RoundsInv
<1>2. DOMAIN order.goals = 1..Len(order.goals) /\ Len(order.goals) \in Nat
  BY <1>1
<1>3. IsFiniteSet(DOMAIN order.goals)
  BY <1>2, FS_Interval, 1 \in Int
<1>4. order.goals \in Surjection(DOMAIN order.goals, Range(order.goals))
  BY <1>1 DEF Surjection, Range
<1>5. IsFiniteSet(Range(order.goals))
  BY <1>3, <1>4, FS_Surjection
<1>6. Range(order.goals) \subseteq Goals
  BY <1>1, <1>2 DEF Range
<1>. QED  BY <1>1, <1>5, <1>6

LEMMA CostByGoal ==
  ASSUME RoundsInv, todo = <<>>, NEW a \in 1..3
  PROVE  /\ SumOver(Range(order.goals), [g \in Goals |-> CostOf(g, a)])
              = SumOver(1..Len(rows), ArmCost(a))
         /\ \A i \in 1..Len(rows) : ArmCost(a)[i] \in Int
<1>. DEFINE R == 1..Len(rows)
            G == Range(order.goals)
            f == ArmCost(a)
            key == [i \in DOMAIN rows |-> rows[i].goal]
            part == [g \in Goals |-> RoundsOf(g)]
            h == [g \in Goals |-> CostOf(g, a)]
<1>1. IsFiniteSet(R) /\ DOMAIN rows = R
  BY CostsAre
<1>2. \A i \in R : f[i] \in Int
  BY <1>1, PointsAre DEF ArmCost
<1>3. IsFiniteSet(G) /\ G \subseteq Goals
  BY GoalsAreFinite
<1>4. \A g \in G : /\ \A x : x \in part[g] <=> x \in R /\ key[x] = g
                   /\ h[g] = SumOver(part[g], f)
  <2>. TAKE g \in G
  <2>1. part[g] = RoundsOf(g) /\ h[g] = CostOf(g, a)
    BY <1>3
  <2>2. \A x : x \in RoundsOf(g) <=> x \in R /\ key[x] = g
    BY <1>1 DEF RoundsOf
  <2>3. CostOf(g, a) = SumOver(RoundsOf(g), f)
    BY DEF CostOf, ArmCost
  <2>. QED  BY <2>1, <2>2, <2>3
<1>5. \A i \in R : key[i] \in G
  BY <1>1, AllAnswered DEF Answered
<1>6. SumOver(G, h) = SumOver(R, f)
  <2>. HIDE DEF R, G, f, key, part, h
  <2>. QED  BY <1>1, <1>2, <1>3, <1>4, <1>5, SumGroups
<1>. QED  BY <1>2, <1>6

LEMMA CostTold ==
  ASSUME RoundsInv, ArmsInv, MoneyInv, todo = <<>>
  PROVE  spent = Reported.cost[1] + Reported.cost[2] + Reported.cost[3]
<1>. DEFINE R == 1..Len(rows)
            f1 == ArmCost(1)
            f2 == ArmCost(2)
            f3 == ArmCost(3)
            f12 == [i \in R |-> f1[i] + f2[i]]
            k == RoundCost
<1>1. /\ Reported.cost[1] = SumOver(R, f1)
      /\ Reported.cost[2] = SumOver(R, f2)
      /\ Reported.cost[3] = SumOver(R, f3)
  <2>1. \A a \in 1..3 :
          Reported.cost[a] = SumOver(Range(order.goals), [g \in Goals |-> CostOf(g, a)])
    BY DEF Reported, Arms
  <2>. QED  BY <2>1, CostByGoal
<1>2. /\ \A i \in R : f1[i] \in Int
      /\ \A i \in R : f2[i] \in Int
      /\ \A i \in R : f3[i] \in Int
  BY CostByGoal
<1>3. IsFiniteSet(R) /\ DOMAIN rows = R
  BY CostsAre
<1>4. \A i \in R : k[i] = f1[i] + f2[i] + f3[i]
  BY <1>3 DEF RoundCost, ArmCost
<1>5. spent = SumOver(R, k)
  <2>1. Len(trial) = 0
    BY DEF ArmsInv
  <2>2. CostAt(1) = 0 /\ CostAt(2) = 0 /\ CostAt(3) = 0
    BY <2>1 DEF CostAt
  <2>3. SumOver(R, k) \in Int
    BY CostsAre
  <2>. QED  BY <2>2, <2>3 DEF MoneyInv
<1>6. \A i \in R : f12[i] = f1[i] + f2[i] /\ f12[i] \in Int
  BY <1>2
<1>7. SumOver(R, k) = SumOver(R, f1) + SumOver(R, f2) + SumOver(R, f3)
  <2>. HIDE DEF R, f1, f2, f3, f12, k
  <2>1. SumOver(R, f12) = SumOver(R, f1) + SumOver(R, f2)
    BY <1>2, <1>3, <1>6, SumPlus
  <2>2. \A i \in R : k[i] = f12[i] + f3[i]
    BY <1>2, <1>4, <1>6
  <2>3. SumOver(R, k) = SumOver(R, f12) + SumOver(R, f3)
    BY <1>2, <1>3, <1>6, <2>2, SumPlus
  <2>. QED  BY <2>1, <2>3
<1>. QED  BY <1>1, <1>5, <1>7

(* The claim.                                                               *)
LEMMA TwoApart == ASSUME NEW x, NEW y, x # y PROVE Cardinality({x, y}) = 2
<1>1. IsFiniteSet({x}) /\ Cardinality({x}) = 1 /\ y \notin {x}
  BY FS_Singleton
<1>2. Cardinality({x} \cup {y}) = 2
  BY <1>1, FS_AddElement
<1>. QED  BY <1>2, {x, y} = {x} \cup {y}

LEMMA ClaimTold ==
  ASSUME RoundsInv, todo = <<>>, ClaimsDifference
  PROVE  /\ Cardinality(Answered) >= 2
         /\ \A g \in Answered, h \in Answered : Gap(g) * Gap(h) > 0
<1>. DEFINE goals == order.goals
            pairs == [i \in DOMAIN goals |-> Gap(goals[i])]
<1>1. goals \in Seq(Goals) /\ NoDuplicates(goals) /\ DOMAIN goals = 1..Len(goals)
  BY SuiteIs DEF RoundsInv
<1>2. Significant(pairs)
  BY DEF ClaimsDifference
<1>3. Len(goals) = 2
  <2>1. Len(pairs) = 2
    BY <1>2 DEF Significant
  <2>2. Len(pairs) = Len(goals)
    BY <1>1
  <2>. QED  BY <2>1, <2>2
<1>. DEFINE x == goals[1]
            y == goals[2]
<1>4. Answered = {x, y}
  <2>1. Answered = Range(goals)
    BY AllAnswered
  <2>2. DOMAIN goals = {1, 2}
    BY <1>1, <1>3
  <2>. QED  BY <2>1, <2>2 DEF Range
<1>5. x # y
  <2>. DEFINE image == {goals[i] : i \in DOMAIN goals}
  <2>1. Cardinality(image) = 2
    BY <1>1, <1>3 DEF NoDuplicates
  <2>2. image = {x, y}
    BY <1>1, <1>3
  <2>. HIDE DEF x, y, image
  <2>3. SUFFICES ASSUME x = y PROVE FALSE
    OBVIOUS
  <2>4. image = {x}
    BY <2>2, <2>3
  <2>5. Cardinality({x}) = 1
    BY FS_Singleton
  <2>. QED  BY <2>1, <2>4, <2>5
<1>6. Gap(x) \in Int /\ Gap(y) \in Int
  BY PointsAre DEF Gap
<1>7. Significant(<<Gap(x), Gap(y)>>)
  <2>1. pairs = <<Gap(x), Gap(y)>>
    BY <1>1, <1>3
  <2>. QED  BY <1>2, <2>1
<1>8. (Gap(x) > 0 /\ Gap(y) > 0) \/ (Gap(x) < 0 /\ Gap(y) < 0)
  BY <1>6, <1>7, SameSign
<1>9. \A g \in {x, y}, h \in {x, y} : Gap(g) * Gap(h) > 0
  <2>1. Gap(x) * Gap(x) > 0 /\ Gap(x) * Gap(y) > 0 /\ Gap(y) * Gap(x) > 0 /\ Gap(y) * Gap(y) > 0
    BY <1>6, <1>8, SignsMultiply
  <2>. HIDE DEF x, y
  <2>. QED  BY <2>1
<1>10. Cardinality({x, y}) >= 2
  <2>. HIDE DEF x, y
  <2>1. Cardinality({x, y}) = 2
    BY <1>5, TwoApart, Zenon
  <2>. QED  BY <2>1
<1>. HIDE DEF x, y
<1>11. Cardinality(Answered) >= 2
  BY <1>4, <1>10
<1>12. \A g \in Answered, h \in Answered : Gap(g) * Gap(h) > 0
  BY <1>4, <1>9, Zenon
<1>. QED  BY <1>11, <1>12

(* A report is the last thing a suite does. *)
VerdictInv == SuiteInv /\ (report # Null => bench = "finished") /\ VerdictIsEarned

LEMMA Earned ==
  RoundsInv /\ ArmsInv /\ MoneyInv /\ todo = <<>> /\ report = Reported => VerdictIsEarned
<1>. SUFFICES ASSUME RoundsInv, ArmsInv, MoneyInv, todo = <<>>, report = Reported
              PROVE  VerdictIsEarned
  OBVIOUS
<1>1. report.verdict = Verdict /\ report.claim = ClaimsDifference
  BY DEF Reported
<1>2. \A i \in DOMAIN rows : \A a \in DOMAIN Arms :
        rows[i].arms[a].measured => rows[i].goal \notin report.unmeasured
  BY DEF Reported
<1>3. spent = report.cost[1] + report.cost[2] + report.cost[3]
  BY CostTold
<1>4. /\ report.verdict # Tie =>
            \A b \in DOMAIN Arms \ {report.verdict} :
              Cardinality(Won(b)) < Cardinality(Won(report.verdict))
      /\ report.verdict = Tie =>
            \E a, b \in DOMAIN Arms : a # b /\ Cardinality(Won(a)) = Cardinality(Won(b))
  BY <1>1, VerdictTold
<1>5. report.claim =>
        /\ Cardinality(Answered) >= 2
        /\ \A g \in Answered, h \in Answered : Gap(g) * Gap(h) > 0
  BY <1>1, ClaimTold
<1>. QED  BY <1>2, <1>3, <1>4, <1>5 DEF VerdictIsEarned, Won, Answered

LEMMA ReportsEarns ==
  ASSUME RoundsInv, ArmsInv, MoneyInv, Reports
  PROVE  VerdictIsEarned'
<1>1. todo = <<>> /\ report' = Reported
  BY DEF Reports, Reported
<1>2. order' = order /\ rows' = rows /\ spent' = spent /\ todo' = todo /\ trial' = trial
  BY DEF Reports
<1>3. RoundsInv' /\ ArmsInv' /\ MoneyInv'
  BY <1>2, CalmKeeps DEF Calm, RoundsStay
<1>4. Reported' = Reported
  BY <1>2 DEF Reported, Wins, Winner, Verdict, ClaimsDifference, Gap, Points, CostOf, RoundsOf
<1>5. (RoundsInv /\ ArmsInv /\ MoneyInv /\ todo = <<>> /\ report = Reported => VerdictIsEarned)'
  BY Earned, PTL
<1>6. (todo = <<>>)' /\ (report = Reported)'
  BY <1>1, <1>2, <1>4
<1>. QED  BY <1>3, <1>5, <1>6

(* What the verdict is about stays as it was told.                          *)
EarnedFor ==
  /\ report.verdict # Tie =>
       \A b \in DOMAIN Arms \ {report.verdict} :
         Cardinality(Won(b)) < Cardinality(Won(report.verdict))
  /\ report.verdict = Tie =>
       \E a, b \in DOMAIN Arms : a # b /\ Cardinality(Won(a)) = Cardinality(Won(b))
  /\ spent = report.cost[1] + report.cost[2] + report.cost[3]
  /\ \A i \in DOMAIN rows : \A a \in DOMAIN Arms :
       rows[i].arms[a].measured => rows[i].goal \notin report.unmeasured
  /\ report.claim =>
       /\ Cardinality(Answered) >= 2
       /\ \A g \in Answered, h \in Answered : Gap(g) * Gap(h) > 0

LEMMA VerdictStands ==
  ASSUME VerdictIsEarned, UNCHANGED report,
         report # Null => UNCHANGED <<order, rows, spent>>
  PROVE  VerdictIsEarned'
<1>1. SUFFICES ASSUME report # Null PROVE VerdictIsEarned'
  BY DEF VerdictIsEarned
<1>2. report' = report /\ order' = order /\ rows' = rows /\ spent' = spent
  BY <1>1
<1>3. \A g : Gap(g)' = Gap(g)
  BY <1>2 DEF Gap, Points, RoundsOf
<1>4. \A g, a, b : Better(g, a, b)' <=> Better(g, a, b)
  BY <1>2 DEF Better
<1>5. Answered' = Answered
  BY <1>2 DEF Answered
<1>6. \A a : Won(a)' = Won(a)
  BY <1>4, <1>5 DEF Won
<1>7. EarnedFor /\ report # Null
  BY <1>1 DEF VerdictIsEarned, EarnedFor, Won, Answered
<1>8. EarnedFor'
  BY <1>2, <1>3, <1>5, <1>6, <1>7 DEF EarnedFor
<1>. QED  BY <1>8 DEF VerdictIsEarned, EarnedFor, Won, Answered

LEMMA VerdictKeeps == VerdictInv /\ [Next]_vars => VerdictInv'
<1>. SUFFICES ASSUME VerdictInv, [Next]_vars PROVE VerdictInv'
  OBVIOUS
<1>1. SuiteInv'
  BY SuiteKeeps DEF VerdictInv
<1>2. CASE SuiteStep /\ job = "suite"
  <2>1. bench # "finished" /\ report = Null
    BY <1>2 DEF SuiteStep, ArmRuns, BaselineRaises, GradesArm, TakesArmGrade, EndsRound, Reports,
                VerdictInv
  <2>2. CASE Reports
    <3>1. bench' = "finished"
      BY <2>2 DEF Reports
    <3>2. RoundsInv /\ ArmsInv /\ MoneyInv
      BY <1>2 DEF VerdictInv, SuiteInv
    <3>. QED  BY <1>1, <2>2, <3>1, <3>2, ReportsEarns DEF VerdictInv
  <2>3. CASE ~Reports
    <3>1. report' = report
      BY <1>2, <2>3 DEF SuiteStep, ArmRuns, BaselineRaises, GradesArm, TakesArmGrade, EndsRound
    <3>2. VerdictIsEarned'
      BY <2>1, <3>1, VerdictStands DEF VerdictInv
    <3>. QED  BY <1>1, <2>1, <3>1, <3>2 DEF VerdictInv
  <2>. QED  BY <2>2, <2>3
<1>3. CASE ~(SuiteStep /\ job = "suite")
  <2>1. /\ UNCHANGED <<order, rows, spent, report>>
        /\ bench = "finished" => bench' = "finished"
    <3>1. SuiteStep => job = "suite"
      BY DEF SuiteStep, ArmRuns, BaselineRaises, GradesArm, TakesArmGrade, EndsRound, Reports
    <3>2. CASE CampaignStep
      BY <3>2 DEF CampaignStep, AsksModel, GradesProse, SendsToScorer, TakesGrade,
                  WritesMeasurements, Calibrates
    <3>3. CASE UNCHANGED benchVars
      BY <3>3 DEF benchVars
    <3>4. SetupStep \/ UNCHANGED vars => UNCHANGED benchVars
      BY DEF SetupStep, vars
    <3>. QED  BY <1>3, <3>1, <3>2, <3>3, <3>4 DEF Next, BenchStep
  <2>2. VerdictIsEarned'
    BY <2>1, VerdictStands DEF VerdictInv
  <2>. QED  BY <1>1, <2>1, <2>2 DEF VerdictInv
<1>. QED  BY <1>2, <1>3

(* The arm a report names has won by the suite's own rounds, its totals are *)
(* what was spent, and what it claims every goal of two or more shows       *)
(* (run_suite, compare_arms and _pooled_delta of eval/).                    *)
THEOREM VerdictsAreEarned == Spec => []VerdictIsEarned
<1>1. Init => VerdictInv
  <2>1. Init => report = Null
    BY DEF Init, BenchInit, NoBench
  <2>. QED  BY <2>1, SuiteStarts DEF VerdictInv, VerdictIsEarned
<1>2. VerdictInv => VerdictIsEarned
  BY DEF VerdictInv
<1>. QED  BY <1>1, <1>2, VerdictKeeps, PTL DEF Spec

-----------------------------------------------------------------------------
(* The campaign. *)

(* What lies between two numbers is rounded to one between them. *)
LEMMA RoundedWithin ==
  ASSUME NEW d \in Nat \ {0}, NEW most \in Nat, NEW n \in 0..(most * d)
  PROVE  Rounded(n, d) \in 0..most
<1> DEFINE r == Rounded(n, d)
<1>1. n \in Int /\ 0 <= n /\ n <= most * d /\ most * d \in Nat
  OBVIOUS
<1>2. r \in Int /\ 2 * (d * r) <= 2 * n + d /\ 2 * (d * r) >= 2 * n - d
  BY <1>1, RoundedNear
<1>. HIDE DEF r
<1>3. d * r \in Int /\ most * d = d * most /\ d * (most + 1) = d * most + d /\ d * (-1) = -d
  BY <1>2
<1>4. d * r < d * (most + 1) /\ d * (-1) < d * r
  BY <1>1, <1>2, <1>3
<1>5. r < most + 1 /\ -1 < r
  BY <1>2, <1>4, Between, most + 1 \in Int, -1 \in Int
<1>. QED  BY <1>2, <1>5 DEF r

(* SetToSeq lists its set. *)
LEMMA SetToSeqIs ==
  ASSUME NEW S, IsFiniteSet(S)
  PROVE  SetToSeq(S) \in Seq(S)
<1>1. /\ Cardinality(S) \in Nat
      /\ \E f \in [1..Cardinality(S) -> S] : IsInjective(f)
  BY FS_CardinalityType DEF ExistsBijection, Bijection, Injection
<1>2. SetToSeq(S) \in [1..Cardinality(S) -> S]
  BY <1>1 DEF SetToSeq
<1>. QED  BY <1>1, <1>2

-----------------------------------------------------------------------------
(* What build_profiles makes of a list of runs. *)

LEMMA NearIs ==
  ASSUME NEW n \in Int, NEW d \in Nat \ {0}
  PROVE  Near(Rounded(n, d), n, d)
<1> DEFINE r == Rounded(n, d)
<1>1. r \in Int /\ 2 * (d * r) <= 2 * n + d /\ 2 * (d * r) >= 2 * n - d
  BY RoundedNear
<1>. HIDE DEF r
<1>2. d * r \in Int
  BY <1>1
<1>3. \A p \in Int : 2 * p <= 2 * n + d /\ 2 * p >= 2 * n - d => 2 * Abs(p - n) <= d
  BY DEF Abs
<1>4. 2 * Abs(d * r - n) <= d
  BY <1>1, <1>2, <1>3
<1>. QED  BY <1>4 DEF Near, r

Entered(e) == IsFiniteSet(DOMAIN e) /\ Gradable(e)
Marks(e) == SumOver(Graded(e), [i \in Graded(e) |-> e[i].score])

LEMMA GradedIs ==
  ASSUME NEW e, Entered(e)
  PROVE  /\ IsFiniteSet(Graded(e)) /\ Graded(e) # {} /\ Graded(e) \subseteq DOMAIN e
         /\ Cardinality(Graded(e)) \in Nat \ {0}
         /\ \A i \in Graded(e) : e[i].score \in 0..100
<1>1. Graded(e) \subseteq DOMAIN e /\ IsFiniteSet(DOMAIN e) /\ Graded(e) # {}
  BY DEF Graded, Entered, Gradable
<1>2. IsFiniteSet(Graded(e))
  BY <1>1, FS_Subset
<1>3. Cardinality(Graded(e)) \in Nat \ {0}
  BY <1>1, <1>2, FS_CardinalityType, FS_EmptySet
<1>4. \A i \in Graded(e) : e[i].score \in 0..100
  BY DEF Graded, Entered, Gradable, WellFormed
<1>. QED  BY <1>1, <1>2, <1>3, <1>4

(* A task score is the mean of what was graded, and a score.                *)
LEMMA TaskScoreIs ==
  ASSUME NEW e, Entered(e)
  PROVE  /\ TaskScore(e) \in 0..FullScore
         /\ Near(TaskScore(e), 100 * Marks(e), Cardinality(Graded(e)))
<1> DEFINE G == Graded(e)
           f == [i \in G |-> e[i].score]
           n == Cardinality(G)
           s == SumOver(G, f)
<1>1. IsFiniteSet(G) /\ n \in Nat \ {0} /\ \A i \in G : f[i] \in 0..100
  BY GradedIs
<1>2. s \in 0..(100 * n)
  <2>. HIDE DEF f, G
  <2>. QED  BY <1>1, SumBetween
<1>3. TaskScore(e) = Rounded(100 * s, n) /\ Marks(e) = s
  BY DEF TaskScore, Marks
<1>. HIDE DEF s, n
<1>4. 100 * s \in 0..(FullScore * n) /\ 100 * s \in Int
  <2>1. s \in Int /\ 0 <= s /\ s <= 100 * n /\ n \in Nat
    BY <1>1, <1>2
  <2>2. 100 * (100 * n) = (100 * 100) * n
    BY <2>1
  <2>3. 100 * s \in 0..((100 * 100) * n) /\ 100 * s \in Int
    BY <2>1, <2>2
  <2>. QED  BY <2>3, FullScoreIs
<1>5. Rounded(100 * s, n) \in 0..FullScore
  BY <1>1, <1>4, FullScoreIs, RoundedWithin
<1>6. Near(Rounded(100 * s, n), 100 * s, n)
  BY <1>1, <1>4, NearIs
<1>. QED  BY <1>3, <1>5, <1>6 DEF n

LEMMA BreadthIs ==
  ASSUME NEW e, Entered(e)
  PROVE  Breadth(e) \in Nat \ {0}
<1> DEFINE D == DOMAIN e
           goals == {e[i].goal : i \in D}
<1>1. IsFiniteSet(D) /\ D # {}
  BY GradedIs DEF Entered
<1>2. IsFiniteSet(goals) /\ goals # {}
  <2>1. goals # {}
    BY <1>1
  <2>2. IsFiniteSet(goals)
    <3> DEFINE f == [i \in D |-> e[i].goal]
    <3>1. f \in Surjection(D, goals)
      BY DEF Surjection
    <3>. HIDE DEF f, D, goals
    <3>. QED  BY <1>1, <3>1, FS_Surjection
  <2>. QED  BY <2>1, <2>2
<1>3. Breadth(e) = IF NoGoal \in goals THEN Cardinality(D) ELSE Cardinality(goals)
  BY DEF Breadth
<1>. HIDE DEF D, goals
<1>4. Cardinality(D) \in Nat \ {0} /\ Cardinality(goals) \in Nat \ {0}
  BY <1>1, <1>2, FS_CardinalityType, FS_EmptySet
<1>. QED  BY <1>3, <1>4

(* The confidence is that of the type with the fewest goals, and capped.    *)
LEMMA ConfidenceIs ==
  ASSUME NEW tasks, IsFiniteSet(DOMAIN tasks),
         \A t \in DOMAIN tasks : Breadth(tasks[t]) \in Nat \ {0}
  PROVE  /\ Confidence(tasks) \in 0..FullScore
         /\ \A t \in DOMAIN tasks : \A b \in Nat : b = Breadth(tasks[t]) =>
              2 * ((b + 3) * Confidence(tasks)) <= 2 * (FullScore * b) + (b + 3)
<1> DEFINE D == DOMAIN tasks
           b(t) == Breadth(tasks[t])
           r == [t \in D |-> Rounded(FullScore * b(t), b(t) + 3)]
           R == {r[t] : t \in D}
           S == {MaxConfidence} \cup R
<1>1. \A t \in D : /\ r[t] \in 0..FullScore
                    /\ 2 * ((b(t) + 3) * r[t]) <= 2 * (FullScore * b(t)) + (b(t) + 3)
  <2>. TAKE t \in D
  <2>. DEFINE k == b(t)
              d == k + 3
              n == FullScore * k
  <2>1. k \in Nat
    OBVIOUS
  <2>2. r[t] = Rounded(n, d)
    OBVIOUS
  <2>. HIDE DEF k, r
  <2>3. d \in Nat \ {0} /\ n \in 0..(FullScore * d) /\ n \in Int
    <3>1. FullScore * d = FullScore * k + 3 * FullScore /\ FullScore * k \in Nat /\ 3 * FullScore \in Nat
      BY <2>1, FullScoreIs
    <3>. QED  BY <2>1, <3>1
  <2>. HIDE DEF n, d
  <2>4. r[t] \in 0..FullScore
    BY <2>2, <2>3, FullScoreIs, RoundedWithin
  <2>5. 2 * (d * r[t]) <= 2 * n + d
    BY <2>2, <2>3, RoundedNear
  <2>. QED  BY <2>4, <2>5 DEF k, d, n
<1>2. IsFiniteSet(S)
  <2>1. IsFiniteSet(R)
    <3>1. r \in Surjection(D, R)
      BY DEF Surjection
    <3>. HIDE DEF r, R, D
    <3>. QED  BY <3>1, FS_Surjection DEF D
  <2>2. IsFiniteSet(R \cup {MaxConfidence})
    <3>. HIDE DEF R
    <3>. QED  BY <2>1, FS_AddElement
  <2>. QED  BY <2>2
<1>3. S # {} /\ \A x \in S : x \in 0..FullScore /\ x \in Int
  <2>. DEFINE scale == 0..FullScore
  <2>1. MaxConfidence \in scale
    BY FullScoreIs
  <2>2. \A x \in R : x \in scale
    <3>1. \A t \in D : r[t] \in scale
      BY <1>1
    <3>. HIDE DEF r, scale, D
    <3>. QED  BY <3>1
  <2>3. \A x \in scale : x \in Int
    BY FullScoreIs
  <2>. HIDE DEF R, scale
  <2>4. S # {} /\ \A x \in S : x \in scale /\ x \in Int
    BY <2>1, <2>2, <2>3
  <2>. HIDE DEF S
  <2>. QED  BY <2>4 DEF scale
<1>4. Confidence(tasks) = Min(S)
  <2>1. R = {Rounded(FullScore * Breadth(tasks[t]), Breadth(tasks[t]) + 3) : t \in DOMAIN tasks}
    OBVIOUS
  <2>. HIDE DEF R
  <2>. QED  BY <2>1 DEF Confidence
<1>. HIDE DEF S
<1>5. Min(S) \in S /\ \A x \in S : Min(S) <= x
  BY <1>2, <1>3, MinIs
<1>6. ASSUME NEW t \in D, NEW k \in Nat, k = b(t)
      PROVE  2 * ((k + 3) * Min(S)) <= 2 * (FullScore * k) + (k + 3)
  <2>1. r[t] \in S
    BY DEF S
  <2>. DEFINE c == Min(S)
              x == r[t]
  <2>2. c \in Int /\ x \in Int /\ c <= x
    BY <1>3, <1>5, <2>1
  <2>3. 2 * ((k + 3) * x) <= 2 * (FullScore * k) + (k + 3)
    BY <1>1, <1>6
  <2>. HIDE DEF c, x
  <2>4. (k + 3) * c <= (k + 3) * x
    BY <2>2
  <2>5. (k + 3) * c \in Int /\ (k + 3) * x \in Int /\ FullScore * k \in Int
    BY <2>2, FullScoreIs
  <2>6. 2 * ((k + 3) * c) <= 2 * (FullScore * k) + (k + 3)
    BY <2>3, <2>4, <2>5
  <2>. QED  BY <2>6 DEF c
<1>. QED  BY <1>3, <1>4, <1>5, <1>6

(* The runs of a model, by type, as build_profiles takes them.              *)
Fed(tasks) ==
  /\ DOMAIN tasks # {} /\ DOMAIN tasks \subseteq TaskTypes
  /\ \A t \in DOMAIN tasks : Entered(tasks[t])

LEMMA TypesAre == IsFiniteSet(TaskTypes) /\ Cardinality(TaskTypes) = 4
<1>1. IsFiniteSet({}) /\ Cardinality({}) = 0
  BY FS_EmptySet
<1>2. IsFiniteSet({} \cup {"code"}) /\ Cardinality({} \cup {"code"}) = 1
  BY <1>1, FS_AddElement
<1>3. {} \cup {"code"} = {"code"}
  OBVIOUS
<1>4. IsFiniteSet({"code"} \cup {"research"}) /\ Cardinality({"code"} \cup {"research"}) = 2
  BY <1>2, <1>3, FS_AddElement
<1>5. {"code"} \cup {"research"} = {"code", "research"}
  OBVIOUS
<1>6. /\ IsFiniteSet({"code", "research"} \cup {"write"})
      /\ Cardinality({"code", "research"} \cup {"write"}) = 3
  BY <1>4, <1>5, FS_AddElement
<1>7. {"code", "research"} \cup {"write"} = {"code", "research", "write"}
  OBVIOUS
<1>8. /\ IsFiniteSet({"code", "research", "write"} \cup {"analyze"})
      /\ Cardinality({"code", "research", "write"} \cup {"analyze"}) = 4
  BY <1>6, <1>7, FS_AddElement
<1>9. {"code", "research", "write"} \cup {"analyze"} = TaskTypes
  BY DEF TaskTypes
<1>. QED  BY <1>8, <1>9

LEMMA OverallIs ==
  ASSUME NEW tasks, Fed(tasks)
  PROVE  \/ Overall(tasks) = Unclaimed
         \/ DOMAIN tasks = TaskTypes /\ Overall(tasks) \in 0..FullScore
<1> DEFINE f == [t \in TaskTypes |-> TaskScore(tasks[t])]
           s == SumOver(TaskTypes, f)
<1>1. CASE DOMAIN tasks # TaskTypes
  BY <1>1 DEF Overall
<1>2. CASE DOMAIN tasks = TaskTypes
  <2>1. \A t \in TaskTypes : f[t] \in 0..FullScore
    <3>1. \A t \in TaskTypes : Entered(tasks[t])
      BY <1>2 DEF Fed
    <3>. QED  BY <3>1, TaskScoreIs
  <2>2. Overall(tasks) = Rounded(s, 4)
    BY <1>2 DEF Overall
  <2>. HIDE DEF f
  <2>3. s \in 0..(FullScore * 4)
    BY <2>1, FullScoreIs, TypesAre, SumBetween
  <2>. HIDE DEF s
  <2>4. 4 \in Nat \ {0}
    OBVIOUS
  <2>5. Rounded(s, 4) \in 0..FullScore
    BY <2>3, <2>4, FullScoreIs, RoundedWithin
  <2>. QED  BY <1>2, <2>2, <2>5
<1>. QED  BY <1>1, <1>2

Tried(tasks) == SumOver(DOMAIN tasks, [t \in DOMAIN tasks |-> Cardinality(DOMAIN tasks[t])])
Counted(tasks) == SumOver(DOMAIN tasks, [t \in DOMAIN tasks |-> Cardinality(Graded(tasks[t]))])

(* Runs nobody could grade count against the reliability alone.             *)
LEMMA ReliabilityIs ==
  ASSUME NEW tasks, Fed(tasks)
  PROVE  IF Counted(tasks) = Tried(tasks) THEN Reliability(tasks) = Unclaimed
         ELSE /\ Reliability(tasks) \in 0..FullScore
              /\ Near(Reliability(tasks), FullScore * Counted(tasks), Tried(tasks))
<1> DEFINE D == DOMAIN tasks
           a == [t \in D |-> Cardinality(DOMAIN tasks[t])]
           g == [t \in D |-> Cardinality(Graded(tasks[t]))]
           A == SumOver(D, a)
           G == SumOver(D, g)
           n == FullScore * G
<1>1. IsFiniteSet(D)
  BY TypesAre, FS_Subset DEF Fed
<1>2. \A t \in D : a[t] \in Int /\ g[t] \in Int /\ 0 <= g[t] /\ g[t] <= a[t]
  <2>. TAKE t \in D
  <2>1. Entered(tasks[t])
    BY DEF Fed
  <2>2. /\ IsFiniteSet(DOMAIN tasks[t]) /\ Graded(tasks[t]) \subseteq DOMAIN tasks[t]
        /\ Cardinality(Graded(tasks[t])) \in Nat
    BY <2>1, GradedIs DEF Entered
  <2>3. /\ Cardinality(DOMAIN tasks[t]) \in Nat
        /\ Cardinality(Graded(tasks[t])) <= Cardinality(DOMAIN tasks[t])
    BY <2>2, FS_Subset, FS_CardinalityType
  <2>. QED  BY <2>2, <2>3
<1>3. /\ Tried(tasks) = A /\ Counted(tasks) = G
      /\ Reliability(tasks) = IF G = A THEN Unclaimed ELSE Rounded(n, A)
  BY DEF Tried, Counted, Reliability
<1>4. A \in Int /\ G \in Int /\ 0 <= G /\ G <= A
  <2> DEFINE z == [t \in D |-> 0]
  <2>1. \A t \in D : z[t] \in Int /\ z[t] = 0 /\ z[t] <= g[t]
    BY <1>2
  <2>. HIDE DEF D, a, g, z
  <2>2. A \in Int /\ G \in Int /\ G <= A
    BY <1>1, <1>2, SumInt, SumBelow
  <2>3. SumOver(D, z) <= G
    BY <1>1, <1>2, <2>1, SumBelow
  <2>4. SumOver(D, z) = 0
    <3>1. {} \in SUBSET D /\ \A t \in D \ {} : z[t] = 0
      BY <2>1
    <3>2. \A t \in D : z[t] \in Int
      BY <2>1
    <3>. QED  BY <1>1, <3>1, <3>2, SumWithin, SumEmpty
  <2>. QED  BY <2>2, <2>3, <2>4
<1>. HIDE DEF A, G
<1>5. ASSUME G # A PROVE Rounded(n, A) \in 0..FullScore /\ Near(Rounded(n, A), n, A)
  <2>1. A \in Nat \ {0} /\ n \in Int /\ n \in 0..(FullScore * A)
    BY <1>4, <1>5, FullScoreIs
  <2>. HIDE DEF n
  <2>. QED  BY <2>1, FullScoreIs, RoundedWithin, NearIs
<1>. QED  BY <1>3, <1>5

(* The strict loader takes whatever build_profiles returns.                 *)
LEMMA ProfileIsValid ==
  ASSUME NEW tasks, Fed(tasks)
  PROVE  ValidProfile(Profile(tasks))
<1> DEFINE p == Profile(tasks)
<1>1. /\ DOMAIN p.taskScores = DOMAIN tasks
      /\ \A t \in DOMAIN tasks : p.taskScores[t] = TaskScore(tasks[t])
      /\ p.confidence = Confidence(tasks) /\ p.overall = Overall(tasks)
      /\ p.reliability = Reliability(tasks)
  BY DEF Profile
<1>2. \A t \in DOMAIN tasks : UnitScore(TaskScore(tasks[t])) /\ Breadth(tasks[t]) \in Nat \ {0}
  BY TaskScoreIs, BreadthIs DEF Fed, UnitScore
<1>3. IsFiniteSet(DOMAIN tasks)
  BY TypesAre, FS_Subset DEF Fed
<1>4. UnitScore(Confidence(tasks))
  BY <1>2, <1>3, ConfidenceIs DEF UnitScore
<1>5. Overall(tasks) = Unclaimed \/ UnitScore(Overall(tasks))
  BY OverallIs DEF UnitScore
<1>6. Reliability(tasks) = Unclaimed \/ UnitScore(Reliability(tasks))
  BY ReliabilityIs DEF UnitScore
<1>7. DOMAIN tasks \subseteq TaskTypes
  BY DEF Fed
<1>. HIDE DEF p
<1>8. ValidProfile(p)
  BY <1>1, <1>2, <1>4, <1>5, <1>6, <1>7 DEF ValidProfile
<1>. QED  BY <1>8 DEF p

(* A run of the campaign, and one yet to be made.                           *)
Ask == [wire : Nat, goal : Goals]
Run == [wire : Nat, goal : Goals, score : Nat \cup {Null}]

(* What build_profiles says of a wire is what its runs showed.              *)
LEMMA HonestIs ==
  ASSUME runs \in Seq(Run), NEW w, Fed(ByType(w))
  PROVE  Honest(Profile(ByType(w)), {i \in DOMAIN runs : runs[i].wire = w})
<1> DEFINE I == {i \in DOMAIN runs : runs[i].wire = w}
           tasks == ByType(w)
           p == Profile(tasks)
           of(t) == {i \in I : TypeOf[runs[i].goal] = t}
           goals(t) == {runs[i].goal : i \in of(t)}
           graded(t) == {i \in of(t) : runs[i].score # Null}
           usable == {i \in I : runs[i].score # Null}
           sum(t) == SumOver(graded(t), [i \in graded(t) |-> runs[i].score])
           D == DOMAIN tasks
<1>1. /\ IsFiniteSet(I) /\ I \subseteq DOMAIN runs
      /\ \A i \in I : runs[i].goal \in Goals /\ TypeOf[runs[i].goal] \in TaskTypes
  <2>1. DOMAIN runs = 1..Len(runs) /\ Len(runs) \in Nat
    OBVIOUS
  <2>2. IsFiniteSet(DOMAIN runs)
    BY <2>1, FS_Interval, 1 \in Int, Len(runs) \in Int
  <2>3. \A i \in DOMAIN runs : runs[i].goal \in Goals
    <3>. TAKE i \in DOMAIN runs
    <3>1. runs[i] \in Run
      BY <2>1
    <3>. QED  BY <3>1 DEF Run
  <2>. QED  BY <2>2, <2>3, FS_Subset, BenchAssumption
<1>2. /\ D = {TypeOf[runs[i].goal] : i \in I}
      /\ \A t \in D : tasks[t] = [i \in of(t) |-> [goal |-> runs[i].goal, score |-> runs[i].score]]
  BY DEF ByType
<1>3. D = {t \in TaskTypes : of(t) # {}}
  BY <1>1, <1>2
<1>4. \A t \in D : Entered(tasks[t])
  BY DEF Fed
<1>5. ASSUME NEW t \in D
      PROVE  /\ DOMAIN tasks[t] = of(t)
             /\ Graded(tasks[t]) = graded(t)
             /\ Marks(tasks[t]) = sum(t)
             /\ Breadth(tasks[t]) = Cardinality(goals(t))
  <2>1. DOMAIN tasks[t] = of(t)
    <3>1. tasks[t] = [i \in of(t) |-> [goal |-> runs[i].goal, score |-> runs[i].score]]
      BY <1>2
    <3>. HIDE DEF tasks, I
    <3>. QED  BY <3>1
  <2>2. \A i \in of(t) : tasks[t][i].goal = runs[i].goal /\ tasks[t][i].score = runs[i].score
    <3>. DEFINE T == tasks[t]
    <3>1. T = [i \in of(t) |-> [goal |-> runs[i].goal, score |-> runs[i].score]]
      BY <1>2
    <3>. HIDE DEF T
    <3>2. \A i \in of(t) : T[i] = [goal |-> runs[i].goal, score |-> runs[i].score]
      BY <3>1
    <3>3. ASSUME NEW i \in of(t) PROVE T[i].goal = runs[i].goal /\ T[i].score = runs[i].score
      <4>1. T[i] = [goal |-> runs[i].goal, score |-> runs[i].score]
        BY <3>2
      <4>. QED  BY <4>1
    <3>. QED  BY <3>3 DEF T
  <2>. HIDE DEF tasks, I
  <2>3. Graded(tasks[t]) = graded(t)
    BY <2>1, <2>2 DEF Graded
  <2>4. Marks(tasks[t]) = sum(t)
    <3>1. [i \in graded(t) |-> tasks[t][i].score] = [i \in graded(t) |-> runs[i].score]
      BY <2>2
    <3>. QED  BY <2>3, <3>1 DEF Marks
  <2>5. {tasks[t][i].goal : i \in DOMAIN tasks[t]} = goals(t)
    BY <2>1, <2>2
  <2>6. NoGoal \notin goals(t)
    BY <1>1, GoalsAssumption
  <2>7. Breadth(tasks[t]) = Cardinality(goals(t))
    BY <2>5, <2>6 DEF Breadth
  <2>. QED  BY <2>1, <2>3, <2>4, <2>7
<1>6. /\ p.taskScores = [t \in D |-> TaskScore(tasks[t])] /\ p.confidence = Confidence(tasks)
      /\ p.overall = Overall(tasks) /\ p.reliability = Reliability(tasks)
  BY DEF Profile
<1>7. IsFiniteSet(D)
  BY TypesAre, FS_Subset DEF Fed
<1>. HIDE DEF p, tasks, D, I
<1>8. ASSUME NEW t \in D PROVE HonestType(p, t, of(t))
  <2>1. Entered(tasks[t])
    BY <1>4
  <2>2. graded(t) # {} /\ Near(p.taskScores[t], 100 * sum(t), Cardinality(graded(t)))
    <3>. DEFINE G == graded(t)
                s == sum(t)
                e == tasks[t]
    <3>1. Graded(e) = G /\ Marks(e) = s /\ Entered(e)
      BY <1>5, <2>1
    <3>2. p.taskScores[t] = TaskScore(e)
      BY <1>6
    <3>. HIDE DEF G, s, e
    <3>3. G # {} /\ Near(TaskScore(e), 100 * s, Cardinality(G))
      BY <3>1, GradedIs, TaskScoreIs
    <3>. QED  BY <3>2, <3>3 DEF G, s
  <2>. DEFINE b == Cardinality(goals(t))
  <2>3. \A u \in D : Breadth(tasks[u]) \in Nat \ {0}
    BY <1>4, BreadthIs
  <2>4. b = Breadth(tasks[t]) /\ b \in Nat
    BY <1>5, <2>3
  <2>. HIDE DEF b
  <2>5. 2 * ((b + 3) * Confidence(tasks)) <= 2 * (FullScore * b) + (b + 3)
    BY <1>7, <2>3, <2>4, ConfidenceIs DEF D
  <2>6. 2 * ((b + 3) * p.confidence) <= 2 * (FullScore * b) + (b + 3)
    BY <1>6, <2>5
  <2>. DEFINE J == of(t)
  <2>. HIDE DEF J
  <2>. QED  BY <2>2, <2>6 DEF HonestType, b, J
<1>9. p.overall # Unclaimed => \A t \in TaskTypes : of(t) # {}
  <2>1. Overall(tasks) # Unclaimed => D = TaskTypes
    BY OverallIs DEF D, tasks
  <2>. QED  BY <1>3, <1>6, <2>1
<1>10. Tried(tasks) = Cardinality(I) /\ Counted(tasks) = Cardinality(usable)
  <2> DEFINE one == [i \in I |-> 1]
             key == [i \in I |-> TypeOf[runs[i].goal]]
             all == [t \in D |-> of(t)]
             some == [t \in D |-> graded(t)]
             a == [t \in D |-> Cardinality(DOMAIN tasks[t])]
             g == [t \in D |-> Cardinality(Graded(tasks[t]))]
  <2>1. /\ \A i \in I : one[i] \in Int /\ one[i] = 1 /\ key[i] \in D
        /\ \A t \in D : /\ \A i : i \in all[t] <=> i \in I /\ key[i] = t
                        /\ \A i : i \in some[t] <=> i \in usable /\ key[i] = t
        /\ \A t \in D : a[t] = Cardinality(all[t]) /\ g[t] = Cardinality(some[t])
    <3>1. \A i \in I : one[i] \in Int /\ one[i] = 1 /\ key[i] \in D
      BY <1>2
    <3>2. \A t \in D : /\ \A i : i \in all[t] <=> i \in I /\ key[i] = t
                       /\ \A i : i \in some[t] <=> i \in usable /\ key[i] = t
      OBVIOUS
    <3>3. \A t \in D : a[t] = Cardinality(all[t]) /\ g[t] = Cardinality(some[t])
      BY <1>5
    <3>. QED  BY <3>1, <3>2, <3>3
  <2>2. IsFiniteSet(usable) /\ usable \subseteq I
    BY <1>1, FS_Subset
  <2>3. Tried(tasks) = SumOver(D, a) /\ Counted(tasks) = SumOver(D, g)
    BY DEF Tried, Counted, D
  <2>. HIDE DEF usable, one, key, all, some, a, g
  <2>4. \A t \in D : a[t] = SumOver(all[t], one) /\ g[t] = SumOver(some[t], one)
    <3>. TAKE t \in D
    <3>1. all[t] \subseteq I /\ some[t] \subseteq I
      BY <2>1, <2>2
    <3>2. IsFiniteSet(all[t]) /\ IsFiniteSet(some[t])
      BY <1>1, <3>1, FS_Subset
    <3>3. (\A i \in all[t] : one[i] = 1) /\ \A i \in some[t] : one[i] = 1
      BY <2>1, <3>1
    <3>4. SumOver(all[t], one) = Cardinality(all[t])
      BY <3>2, <3>3, SumOnes
    <3>5. SumOver(some[t], one) = Cardinality(some[t])
      BY <3>2, <3>3, SumOnes
    <3>. QED  BY <2>1, <3>4, <3>5
  <2>5. SumOver(D, a) = SumOver(I, one)
    <3>1. /\ \A i \in I : one[i] \in Int
          /\ \A i \in I : key[i] \in D
          /\ \A t \in D : /\ \A i : i \in all[t] <=> i \in I /\ key[i] = t
                          /\ a[t] = SumOver(all[t], one)
      BY <2>1, <2>4
    <3>2. IsFiniteSet(I) /\ IsFiniteSet(D)
      BY <1>1, <1>7
    <3>. QED  BY <3>1, <3>2, SumGroups
  <2>6. SumOver(D, g) = SumOver(usable, one)
    <3>1. /\ \A i \in usable : one[i] \in Int
          /\ \A i \in usable : key[i] \in D
          /\ \A t \in D : /\ \A i : i \in some[t] <=> i \in usable /\ key[i] = t
                          /\ g[t] = SumOver(some[t], one)
      BY <2>1, <2>2, <2>4
    <3>. QED  BY <1>7, <2>2, <3>1, SumGroups
  <2>7. SumOver(I, one) = Cardinality(I) /\ SumOver(usable, one) = Cardinality(usable)
    <3>1. (\A i \in I : one[i] = 1) /\ \A i \in usable : one[i] = 1
      BY <2>1, <2>2
    <3>. QED  BY <1>1, <2>2, <3>1, SumOnes
  <2>. QED  BY <2>3, <2>5, <2>6, <2>7
<1>11. IF usable = I THEN p.reliability = Unclaimed
       ELSE Near(p.reliability, FullScore * Cardinality(usable), Cardinality(I))
  <2>1. usable \in SUBSET I
    OBVIOUS
  <2>. HIDE DEF usable
  <2>2. Cardinality(usable) = Cardinality(I) => usable = I
    BY <1>1, <2>1, FS_Subset
  <2>3. Fed(tasks)
    BY DEF tasks
  <2>. QED  BY <1>6, <1>10, <2>2, <2>3, ReliabilityIs
<1>12. DOMAIN p.taskScores = {t \in TaskTypes : of(t) # {}}
  BY <1>3, <1>6
<1>13. D = DOMAIN p.taskScores
  BY <1>6
<1>14. \A t \in DOMAIN p.taskScores : HonestType(p, t, of(t))
  BY <1>8, <1>13
<1>15. Honest(p, I)
  BY <1>9, <1>11, <1>12, <1>14 DEF Honest
<1>. QED  BY <1>15 DEF p, tasks, I

(* Tiers follow the scores, and only a gap makes a difference.              *)
LEMMA TiersAreHonest ==
  ASSUME NEW of, IsFiniteSet(DOMAIN of), DOMAIN of \subseteq Nat, NEW t,
         \A m \in DOMAIN of : t \in DOMAIN of[m].taskScores => of[m].taskScores[t] \in Int
  PROVE  HonestTiers(of, t)
<1> DEFINE S == {m \in DOMAIN of : t \in DOMAIN of[m].taskScores}
           score(m) == of[m].taskScores[t]
           key == [m \in S |-> <<-score(m), m>>]
           ranked == ByKey(S, key)
           place(m) == CHOOSE i \in DOMAIN ranked : ranked[i] = m
           gaps(m) == {i \in 2..place(m) : score(ranked[i - 1]) - score(ranked[i]) > TierSeparation}
           tiers == SuggestTiers(of, t)
<1>1. IsFiniteSet(S) /\ \A m \in S : score(m) \in Int /\ m \in Int
  BY FS_Subset
<1>2. tiers = [m \in S |-> Greater(1, 4 - Cardinality(gaps(m)))]
  BY DEF SuggestTiers
<1>. HIDE DEF S, score
<1>3. \A m \in S : key[m] \in Seq(Int) /\ Len(key[m]) = 2 /\ key[m][1] = -score(m) /\ key[m][2] = m
  BY <1>1
<1>. HIDE DEF key
<1>4. Sortable(S, key)
  <2>1. ASSUME NEW m \in S, NEW n \in S, m # n
        PROVE  Less(key[m], key[n]) \/ Less(key[n], key[m])
    <3>1. /\ key[m] \in Seq(Int) /\ key[n] \in Seq(Int) /\ 2 \in Nat \ {0}
          /\ 2 <= Len(key[m]) /\ 2 <= Len(key[n]) /\ key[m][2] # key[n][2]
      BY <1>3, <2>1
    <3>. QED  BY <3>1, LessIsTotal
  <2>. QED  BY <1>1, <1>3, <2>1 DEF Sortable
<1>5. Ordered(ranked, S, key)
  BY <1>4, KeysOrder
<1>. HIDE DEF ranked
<1>6. /\ DOMAIN ranked = 1..Len(ranked) /\ Len(ranked) \in Nat
      /\ \A i \in 1..Len(ranked) : ranked[i] \in S
      /\ \A m \in S : \E i \in 1..Len(ranked) : ranked[i] = m
  BY <1>5 DEF Ordered
<1>7. \A m \in S : place(m) \in 1..Len(ranked) /\ ranked[place(m)] = m
  BY <1>6
<1>. HIDE DEF place
<1>8. ASSUME NEW i \in 1..Len(ranked), NEW j \in 1..Len(ranked), i <= j
      PROVE  score(ranked[i]) >= score(ranked[j])
  <2>1. CASE i = j
    BY <1>1, <1>6, <2>1
  <2>2. CASE i < j
    <3> DEFINE m == ranked[i]
               n == ranked[j]
    <3>1. m \in S /\ n \in S /\ Less(key[m], key[n])
      BY <1>5, <1>6, <2>2 DEF Ordered
    <3>. HIDE DEF m, n
    <3>2. PICK k \in 1..2 : key[m][k] < key[n][k] /\ \A l \in 1..(k - 1) : key[m][l] = key[n][l]
      BY <1>3, <3>1 DEF Less, Lesser
    <3>3. key[m][1] <= key[n][1]
      <4>1. CASE k = 1
        BY <1>1, <1>3, <3>1, <3>2, <4>1
      <4>2. CASE k = 2
        <5>1. key[m][1] = key[n][1]
          BY <3>2, <4>2
        <5>. QED  BY <1>1, <1>3, <3>1, <5>1
      <4>. QED  BY <4>1, <4>2
    <3>4. score(m) >= score(n)
      BY <1>1, <1>3, <3>1, <3>3
    <3>. QED  BY <3>4 DEF m, n
  <2>3. i = j \/ i < j
    BY <1>6, <1>8
  <2>. QED  BY <2>1, <2>2, <2>3
<1>9. \A m \in S : IsFiniteSet(gaps(m)) /\ Cardinality(gaps(m)) \in Nat
  <2>. TAKE m \in S
  <2>1. IsFiniteSet(2..place(m))
    BY <1>6, <1>7, FS_Interval, 2 \in Int, place(m) \in Int
  <2>. DEFINE g == gaps(m)
  <2>2. g \in SUBSET (2..place(m))
    OBVIOUS
  <2>. HIDE DEF g
  <2>3. IsFiniteSet(g) /\ Cardinality(g) \in Nat
    BY <2>1, <2>2, FS_Subset, FS_CardinalityType
  <2>. QED  BY <2>3 DEF g
<1>10. ASSUME NEW m \in S, NEW n \in S, place(m) <= place(n)
       PROVE  gaps(m) \subseteq gaps(n) /\ Cardinality(gaps(m)) <= Cardinality(gaps(n))
  <2>1. place(m) \in Int /\ place(n) \in Int
    BY <1>6, <1>7
  <2>2. gaps(m) \subseteq gaps(n)
    BY <1>10, <2>1
  <2>. DEFINE g == gaps(m)
              h == gaps(n)
  <2>3. g \in SUBSET h /\ IsFiniteSet(h)
    BY <1>9, <2>2
  <2>. HIDE DEF g, h
  <2>4. Cardinality(g) <= Cardinality(h)
    BY <2>3, FS_Subset
  <2>. QED  BY <2>2, <2>4 DEF g, h
<1>11. ASSUME NEW m \in S, NEW n \in S
       PROVE  /\ tiers[m] > tiers[n] => score(m) > score(n) + TierSeparation
              /\ score(m) > score(n) => tiers[m] >= tiers[n]
  <2>. DEFINE g == Cardinality(gaps(m))
              h == Cardinality(gaps(n))
  <2>1. tiers[m] = Greater(1, 4 - g) /\ tiers[n] = Greater(1, 4 - h) /\ g \in Nat /\ h \in Nat
    BY <1>2, <1>9
  <2>2. place(m) \in 1..Len(ranked) /\ place(n) \in 1..Len(ranked)
        /\ ranked[place(m)] = m /\ ranked[place(n)] = n
    BY <1>7
  <2>3. place(m) \in Int /\ place(n) \in Int
    BY <1>6, <2>2
  <2>4. place(m) <= place(n) => g <= h
    BY <1>10
  <2>5. place(n) <= place(m) => h <= g
    BY <1>10
  <2>. HIDE DEF g, h
  <2>6. ASSUME score(m) > score(n) PROVE tiers[m] >= tiers[n]
    <3>1. ~(place(n) <= place(m))
      <4>1. place(n) <= place(m) => score(n) >= score(m)
        BY <1>8, <2>2
      <4>. QED  BY <1>1, <2>6, <4>1
    <3>2. g <= h
      BY <2>3, <2>4, <3>1
    <3>. QED  BY <2>1, <3>2 DEF Greater
  <2>7. ASSUME tiers[m] > tiers[n] PROVE score(m) > score(n) + TierSeparation
    <3>1. g < h
      BY <2>1, <2>7 DEF Greater
    <3>2. place(m) < place(n)
      BY <2>1, <2>3, <2>5, <3>1
    <3>3. PICK k \in gaps(n) : k \notin gaps(m)
      <4>1. gaps(n) \subseteq gaps(m) => h <= g
        <5> DEFINE x == gaps(m)
                   y == gaps(n)
        <5>1. IsFiniteSet(x)
          BY <1>9
        <5>. HIDE DEF x, y
        <5>2. y \subseteq x => Cardinality(y) <= Cardinality(x)
          BY <5>1, FS_Subset
        <5>. QED  BY <5>2 DEF x, y, g, h
      <4>. QED  BY <2>1, <3>1, <4>1
    <3>4. /\ k \in Int /\ 2 <= k /\ k <= place(n) /\ ~(k <= place(m))
          /\ score(ranked[k - 1]) - score(ranked[k]) > TierSeparation
      BY <2>3, <3>3
    <3>5. k \in 1..Len(ranked) /\ k - 1 \in 1..Len(ranked) /\ place(m) <= k - 1
      BY <1>6, <2>2, <2>3, <3>4
    <3>6. score(ranked[place(m)]) >= score(ranked[k - 1])
      BY <1>8, <2>2, <3>5
    <3>7. score(ranked[k]) >= score(ranked[place(n)])
      BY <1>8, <2>2, <3>4, <3>5
    <3>8. /\ score(ranked[k]) \in Int /\ score(ranked[k - 1]) \in Int
          /\ score(m) \in Int /\ score(n) \in Int
      BY <1>1, <1>6, <3>5
    <3>9. score(m) >= score(ranked[k - 1]) /\ score(ranked[k]) >= score(n)
      BY <2>2, <3>6, <3>7
    <3>. QED  BY <3>4, <3>8, <3>9 DEF TierSeparation
  <2>. QED  BY <2>6, <2>7
<1>12. DOMAIN tiers = S
  BY <1>2
<1>. HIDE DEF tiers
<1>. QED  BY <1>11, <1>12 DEF HonestTiers, tiers, score

-----------------------------------------------------------------------------
(* The campaign. *)

LEMMA OrderIs ==
  ASSUME NEW o \in CampaignOrders
  PROVE  /\ o.wires \in Seq(Nat) /\ Len(o.wires) \in 1..2 /\ o.name \in Nat \cup {Null}
         /\ o.k \in Nat \ {0} /\ Range(o.wires) \subseteq Nat
<1>1. /\ o.wires \in {<<w>> : w \in Wires} \cup {<<v, w>> : v, w \in Wires}
      /\ o.name \in Named \cup {Null} /\ o.k \in 1..2
  BY DEF CampaignOrders
<1>0. Wires \subseteq Nat /\ Named \subseteq Nat
  BY BenchAssumption
<1>2. o.wires \in Seq(Nat) /\ Len(o.wires) \in 1..2
  <2>1. ASSUME NEW w \in Wires, o.wires = <<w>>
        PROVE  o.wires \in Seq(Nat) /\ Len(o.wires) \in 1..2
    BY <1>0, <2>1
  <2>2. ASSUME NEW v \in Wires, NEW w \in Wires, o.wires = <<v, w>>
        PROVE  o.wires \in Seq(Nat) /\ Len(o.wires) \in 1..2
    BY <1>0, <2>2
  <2>3. \/ \E w \in Wires : o.wires = <<w>>
        \/ \E v, w \in Wires : o.wires = <<v, w>>
    BY <1>1
  <2>. QED  BY <2>1, <2>2, <2>3
<1>3. o.name \in Nat \cup {Null}
  <2>1. o.name \in Named \cup {Null}
    BY <1>1
  <2>2. Named \subseteq Nat
    BY <1>0
  <2>. QED  BY <2>1, <2>2
<1>4. Range(o.wires) \subseteq Nat
  BY <1>2 DEF Range
<1>. QED  BY <1>1, <1>2, <1>3, <1>4

(* Every wire is to answer every goal.                                      *)
LEMMA CampaignIs ==
  ASSUME NEW o \in CampaignOrders
  PROVE  Campaign(o) \in Seq(Ask)
<1> DEFINE G == {g \in Goals \ Repo : o.only \in {Null, TypeOf[g]}}
           goals == SetToSeq(G)
           n == Len(goals) * o.k
           m == Len(o.wires) * n
           c == Campaign(o)
<1>1. goals \in Seq(Goals)
  <2>1. IsFiniteSet(G)
    BY GoalsAssumption, FS_Subset
  <2>2. G \subseteq Goals
    OBVIOUS
  <2>. HIDE DEF G
  <2>3. SetToSeq(G) \in Seq(G)
    BY <2>1, SetToSeqIs
  <2>. QED  BY <2>2, <2>3
<1>2. /\ o.wires \in Seq(Nat) /\ Len(o.wires) \in Nat /\ o.k \in Nat \ {0} /\ o.k # 0
      /\ Len(goals) \in Nat
  BY <1>1, OrderIs
<1>3. c = [i \in 1..m |-> [wire |-> o.wires[(i - 1) \div n + 1],
                           goal |-> goals[((i - 1) % n) \div o.k + 1]]]
  BY DEF Campaign
<1>. HIDE DEF goals, c
<1>4. n \in Nat /\ m \in Nat
  BY <1>2
<1>5. ASSUME NEW i \in 1..m PROVE c[i] \in Ask
  <2>1. n # 0
    <3>1. n = 0 => m = 0
      BY <1>2
    <3>. HIDE DEF n, m
    <3>. QED  BY <1>4, <3>1
  <2>. DEFINE j == ((i - 1) % n) + 1
              w == ((i - 1) \div n) + 1
              g == ((i - 1) % n) \div o.k + 1
  <2>2. w \in 1..Len(o.wires)
    <3>. HIDE DEF n
    <3>. QED  BY <1>2, <1>4, <2>1, PlaceIn
  <2>3. j \in 1..n /\ (i - 1) % n = j - 1
    <3>. HIDE DEF n, m
    <3>1. i - 1 \in Int
      BY <1>4
    <3>2. (i - 1) % n \in 0..(n - 1)
      BY <1>4, <2>1, <3>1
    <3>. QED  BY <1>4, <3>2
  <2>4. g = (j - 1) \div o.k + 1
    BY <2>3
  <2>. HIDE DEF j, w, g
  <2>5. g \in 1..Len(goals)
    BY <1>2, <2>3, <2>4, PlaceIn
  <2>6. o.wires[w] \in Nat /\ goals[g] \in Goals
    BY <1>1, <1>2, <2>2, <2>5
  <2>7. c[i] = [wire |-> o.wires[w], goal |-> goals[g]]
    BY <1>3 DEF w, g
  <2>. QED  BY <2>6, <2>7 DEF Ask
<1>6. c = [i \in 1..m |-> c[i]]
  BY <1>3
<1>. HIDE DEF m
<1>7. c \in Seq(Ask)
  BY <1>4, <1>5, <1>6
<1>. QED  BY <1>7 DEF c

Written ==
  /\ Calibratable(Measurements)
  /\ profilesFile = [kind |-> "profiles", of |-> BuildProfiles(Measurements)]

(* Before the end there is no file; then it is the one the runs amount to.  *)
RunsInv ==
  /\ todo \in Seq(Ask) /\ runs \in Seq(Run)
  /\ bench \in {"grading", "scoring"} => todo # <<>>
FileInv == profilesFile = NoFile \/ (bench = "finished" /\ Written)
CampaignInv == GradeInv /\ (job = "campaign" => order \in CampaignOrders /\ RunsInv /\ FileInv)

LEMMA CampaignStarts == Init => CampaignInv
<1>. SUFFICES ASSUME Init PROVE CampaignInv
  OBVIOUS
<1>1. grade = Unmeasured
  BY DEF Init, BenchInit, NoBench, ScorerInit
<1>2. GradeInv
  BY <1>1, UnmeasuredIs DEF GradeInv
<1>3. ASSUME job = "campaign"
      PROVE  order \in CampaignOrders /\ RunsInv /\ FileInv
  <2>1. /\ order \in CampaignOrders /\ todo = Campaign(order) /\ bench = "running"
        /\ runs = <<>> /\ profilesFile = NoFile
    BY <1>3 DEF Init, BenchInit, NoBench
  <2>. QED  BY <2>1, CampaignIs DEF RunsInv, FileInv
<1>. QED  BY <1>2, <1>3 DEF CampaignInv

(* A score is a number, or there is none. *)
LEMMA ObservedKeeps ==
  ASSUME RunsInv, NEW score \in Nat \cup {Null}, Observed(score), todo # <<>>
  PROVE  RunsInv'
<1>1. Head(todo) \in Ask /\ Tail(todo) \in Seq(Ask) /\ runs \in Seq(Run)
  BY DEF RunsInv
<1>2. [wire |-> Head(todo).wire, goal |-> Head(todo).goal, score |-> score] \in Run
  BY <1>1 DEF Ask, Run
<1>3. runs' \in Seq(Run) /\ todo' \in Seq(Ask) /\ bench' = "running"
  BY <1>1, <1>2 DEF Observed
<1>. QED  BY <1>3 DEF RunsInv

LEMMA CampaignKeeps == CampaignInv /\ [Next]_vars => CampaignInv'
<1>. SUFFICES ASSUME CampaignInv, [Next]_vars PROVE CampaignInv'
  OBVIOUS
<1>1. GradeInv /\ GradeInv'
  BY GradeKeeps DEF CampaignInv
<1>. SUFFICES ASSUME job' = "campaign" PROVE order' \in CampaignOrders /\ RunsInv' /\ FileInv'
  BY <1>1 DEF CampaignInv
<1>2. CASE UNCHANGED benchVars
  <2>1. /\ job' = job /\ order' = order /\ todo' = todo /\ runs' = runs /\ bench' = bench
        /\ profilesFile' = profilesFile
    BY <1>2 DEF benchVars
  <2>2. Measurements' = Measurements
    BY <2>1 DEF Measurements, LastUnder, ByType
  <2>3. Written <=> Written'
    BY <2>1, <2>2 DEF Written
  <2>. QED  BY <2>1, <2>3 DEF CampaignInv, RunsInv, FileInv
<1>3. CASE CampaignStep
  <2>1. job' = job /\ order' = order
    BY <1>3 DEF CampaignStep, AsksModel, GradesProse, SendsToScorer, TakesGrade,
                WritesMeasurements, Calibrates
  <2>2. order \in CampaignOrders /\ RunsInv /\ FileInv
    BY <2>1 DEF CampaignInv
  <2>3. bench # "finished"
    BY <1>3 DEF CampaignStep, AsksModel, GradesProse, SendsToScorer, TakesGrade,
                WritesMeasurements, Calibrates
  <2>4. profilesFile = NoFile
    BY <2>2, <2>3 DEF FileInv
  <2>5. CASE Calibrates
    <3>1. todo' = todo /\ runs' = runs /\ bench' = "finished"
          /\ profilesFile' = IF Calibratable(Measurements)
               THEN [kind |-> "profiles", of |-> BuildProfiles(Measurements)]
               ELSE profilesFile
      BY <2>5 DEF Calibrates
    <3>2. Measurements' = Measurements
      BY <2>1, <3>1 DEF Measurements, LastUnder, ByType
    <3>. QED  BY <2>1, <2>2, <2>4, <3>1, <3>2 DEF RunsInv, FileInv, Written
  <2>6. CASE ~Calibrates
    <3>1. profilesFile' = profilesFile
      BY <1>3, <2>6 DEF CampaignStep, AsksModel, GradesProse, SendsToScorer, TakesGrade,
                        WritesMeasurements
    <3>2. CASE AsksModel
      <4>1. todo # <<>>
        BY <3>2 DEF AsksModel
      <4>2. CASE Observed(Null)
        <5>1. RunsInv'
          BY <2>2, <4>1, <4>2, ObservedKeeps
        <5>. QED  BY <2>1, <2>2, <2>4, <3>1, <5>1 DEF FileInv
      <4>3. CASE bench' = "grading" /\ UNCHANGED <<runs, todo>>
        BY <2>1, <2>2, <2>4, <3>1, <4>1, <4>3 DEF RunsInv, FileInv
      <4>. QED  BY <3>2, <4>2, <4>3 DEF AsksModel
    <3>3. CASE GradesProse
      <4>1. bench = "grading" /\ \E hits \in [DOMAIN Rubric -> {"hit", "miss", "raises"}] :
              Observed(ScoreText(hits))
        BY <3>3 DEF GradesProse
      <4>2. PICK hits : Observed(ScoreText(hits))
        BY <4>1
      <4>3. ScoreText(hits) \in Nat
        <5> DEFINE sat == {i \in DOMAIN Rubric :
                             hits[i] = IF Rubric[i] = "absent" THEN "miss" ELSE "hit"}
                   n == Cardinality(sat)
        <5>1. DOMAIN Rubric = 1..2 /\ Len(Rubric) = 2
          BY DEF Rubric
        <5>2. IsFiniteSet(sat)
          BY <5>1, FS_Interval, FS_Subset, 1 \in Int, 2 \in Int
        <5>3. n \in Nat
          <6>. HIDE DEF sat
          <6>. QED  BY <5>2, FS_CardinalityType
        <5>4. ScoreText(hits) = (100 * n) \div Len(Rubric)
          BY DEF ScoreText
        <5>. HIDE DEF n
        <5>. QED  BY <5>1, <5>3, <5>4
      <4>4. RunsInv'
        BY <2>2, <4>1, <4>2, <4>3, ObservedKeeps DEF RunsInv
      <4>. QED  BY <2>1, <2>2, <2>4, <3>1, <4>4 DEF FileInv
    <3>4. CASE SendsToScorer
      BY <2>1, <2>2, <2>4, <3>1, <3>4 DEF SendsToScorer, RunsInv, FileInv
    <3>5. CASE TakesGrade
      <4>1. bench = "scoring" /\ Observed(ScoreForCalibration(grade))
        BY <3>5 DEF TakesGrade
      <4>2. ScoreForCalibration(grade) \in Nat \cup {Null}
        BY <1>1 DEF ScoreForCalibration, GradeInv
      <4>3. RunsInv'
        BY <2>2, <4>1, <4>2, ObservedKeeps DEF RunsInv
      <4>. QED  BY <2>1, <2>2, <2>4, <3>1, <4>3 DEF FileInv
    <3>6. CASE WritesMeasurements
      BY <2>1, <2>2, <2>4, <3>1, <3>6 DEF WritesMeasurements, RunsInv, FileInv
    <3>. QED  BY <1>3, <2>6, <3>2, <3>3, <3>4, <3>5, <3>6 DEF CampaignStep
  <2>. QED  BY <2>5, <2>6
<1>4. ~SuiteStep
  <2>1. SuiteStep => job' = "suite"
    BY DEF SuiteStep, ArmRuns, BaselineRaises, GradesArm, TakesArmGrade, EndsRound, Reports
  <2>. QED  BY <2>1
<1>. QED  BY <1>2, <1>3, <1>4 DEF Next, BenchStep, SetupStep, vars

-----------------------------------------------------------------------------
(* What was written. *)

(* The last wire under an id is one of its wires. *)
LEMMA LastIs ==
  ASSUME order \in CampaignOrders
  PROVE  /\ DOMAIN Measurements = {FiledUnder(w) : w \in Range(order.wires)}
         /\ DOMAIN Measurements \subseteq Nat /\ IsFiniteSet(DOMAIN Measurements)
         /\ \A id \in DOMAIN Measurements :
              /\ LastUnder(id) \in WiresOf(id)
              /\ Measurements[id] = ByType(LastUnder(id))
<1> DEFINE n == Len(order.wires)
           at == [j \in 1..n |-> ModelIdFor(order.name, order.wires[j])]
<1>1. /\ order.wires \in Seq(Nat) /\ n \in Nat /\ DOMAIN order.wires = 1..n
      /\ order.name \in Nat \cup {Null}
  BY OrderIs
<1>2. \A j \in 1..n : /\ at[j] = FiledUnder(order.wires[j]) /\ at[j] \in Nat
                       /\ order.wires[j] \in Range(order.wires)
  <2>1. \A j \in 1..n : order.wires[j] \in Nat /\ order.wires[j] \in Range(order.wires)
    BY <1>1 DEF Range
  <2>2. \A w \in Nat : ModelIdFor(order.name, w) = FiledUnder(w) /\ FiledUnder(w) \in Nat
    BY <1>1 DEF ModelIdFor, FiledUnder, CompatId
  <2>. QED  BY <2>1, <2>2
<1>3. \A w \in Range(order.wires) : \E j \in 1..n : order.wires[j] = w
  BY <1>1 DEF Range
<1>4. DOMAIN Measurements = {at[j] : j \in 1..n}
  BY <1>1 DEF Measurements
<1>5. \A id \in DOMAIN Measurements : Measurements[id] = ByType(LastUnder(id))
  BY DEF Measurements
<1>. HIDE DEF at
<1>6. DOMAIN Measurements = {FiledUnder(w) : w \in Range(order.wires)}
  BY <1>2, <1>3, <1>4
<1>7. DOMAIN Measurements \subseteq Nat
  BY <1>2, <1>4
<1>8. IsFiniteSet(DOMAIN Measurements)
  <2> DEFINE f == [j \in 1..n |-> at[j]]
             M == {at[j] : j \in 1..n}
  <2>1. f \in Surjection(1..n, M)
    BY DEF Surjection
  <2>2. IsFiniteSet(1..n)
    BY <1>1, FS_Interval, 1 \in Int, n \in Int
  <2>. HIDE DEF f, M, n
  <2>3. IsFiniteSet(M)
    BY <2>1, <2>2, FS_Surjection
  <2>. QED  BY <1>4, <2>3 DEF M
<1>9. ASSUME NEW id \in DOMAIN Measurements PROVE LastUnder(id) \in WiresOf(id)
  <2> DEFINE J == {j \in DOMAIN order.wires : ModelIdFor(order.name, order.wires[j]) = id}
  <2>1. \A j : j \in J <=> j \in 1..n /\ at[j] = id
    BY <1>1 DEF at
  <2>2. LastUnder(id) = order.wires[Max(J)]
    BY DEF LastUnder
  <2>. HIDE DEF J
  <2>3. J # {} /\ (\A j \in J : j \in Int) /\ J \in SUBSET (1..n)
    BY <1>1, <1>4, <2>1
  <2>4. IsFiniteSet(J)
    BY <1>1, <2>3, FS_Interval, FS_Subset, 1 \in Int, n \in Int
  <2>5. Max(J) \in J
    BY <2>3, <2>4, MaxIs
  <2>. QED  BY <1>2, <2>1, <2>2, <2>5 DEF WiresOf
<1>. QED  BY <1>5, <1>6, <1>7, <1>8, <1>9

(* A file that was written is true, and the loader takes it.                *)
LEMMA WrittenIs ==
  ASSUME order \in CampaignOrders, runs \in Seq(Run), Written
  PROVE  /\ profilesFile.kind = "profiles"
         /\ DOMAIN profilesFile.of = {FiledUnder(w) : w \in Range(order.wires)}
         /\ \A id \in DOMAIN profilesFile.of :
              /\ ValidProfile(profilesFile.of[id])
              /\ LastUnder(id) \in WiresOf(id)
              /\ Honest(profilesFile.of[id], {i \in DOMAIN runs : runs[i].wire = LastUnder(id)})
         /\ \A t \in TaskTypes : HonestTiers(profilesFile.of, t)
<1> DEFINE of == profilesFile.of
           D == DOMAIN Measurements
<1>1. profilesFile.kind = "profiles" /\ of = [id \in D |-> Profile(Measurements[id])]
  BY DEF Written, BuildProfiles
<1>2. \A id \in D : Measurements[id] = ByType(LastUnder(id)) /\ LastUnder(id) \in WiresOf(id)
  BY LastIs
<1>3. ASSUME NEW id \in D PROVE Fed(ByType(LastUnder(id)))
  <2> DEFINE w == LastUnder(id)
             tasks == ByType(w)
  <2>1. /\ DOMAIN tasks # {} /\ DOMAIN tasks \subseteq TaskTypes
        /\ \A t \in DOMAIN tasks : Gradable(tasks[t])
    <3>1. Measurements[id] = tasks
      BY <1>2
    <3>. HIDE DEF tasks
    <3>. QED  BY <3>1 DEF Written, Calibratable
  <2>2. ASSUME NEW t \in DOMAIN tasks PROVE IsFiniteSet(DOMAIN tasks[t])
    <3>1. DOMAIN tasks[t] \in SUBSET DOMAIN runs
      BY DEF ByType
    <3>2. IsFiniteSet(DOMAIN runs)
      <4>1. DOMAIN runs = 1..Len(runs) /\ Len(runs) \in Nat
        OBVIOUS
      <4>. QED  BY <4>1, FS_Interval, 1 \in Int, Len(runs) \in Int
    <3>. HIDE DEF tasks
    <3>. QED  BY <3>1, <3>2, FS_Subset
  <2>. QED  BY <2>1, <2>2 DEF Fed, Entered
<1>4. \A id \in D : of[id] = Profile(ByType(LastUnder(id)))
  BY <1>1, <1>2
<1>5. DOMAIN of = D
  BY <1>1
<1>. HIDE DEF of
<1>6. ASSUME NEW id \in D
      PROVE  /\ ValidProfile(of[id])
             /\ Honest(of[id], {i \in DOMAIN runs : runs[i].wire = LastUnder(id)})
  BY <1>3, <1>4, ProfileIsValid, HonestIs
<1>7. ASSUME NEW t \in TaskTypes PROVE HonestTiers(of, t)
  <2>1. \A id \in D : t \in DOMAIN of[id].taskScores => of[id].taskScores[t] \in Int
    <3>. TAKE id \in D
    <3>1. t \in DOMAIN of[id].taskScores => UnitScore(of[id].taskScores[t])
      BY <1>6 DEF ValidProfile
    <3>. QED  BY <3>1, UnitIs
  <2>2. IsFiniteSet(D) /\ D \subseteq Nat
    BY LastIs
  <2>. HIDE DEF D
  <2>. QED  BY <1>5, <2>1, <2>2, TiersAreHonest
<1>8. D = {FiledUnder(w) : w \in Range(order.wires)}
  BY LastIs
<1>. QED  BY <1>1, <1>2, <1>5, <1>6, <1>7, <1>8 DEF of

-----------------------------------------------------------------------------
(* The start after the campaign. *)

(* The one slot of such a start. *)
SlotOf(w) == [base |-> TRUE, wire |-> w, name |-> order.name, tier |-> Null, price |-> Null]

(* A model of an endpoint is one the registry takes. *)
LEMMA CompatIsValid ==
  ASSUME NEW w \in Nat, NEW id \in Nat
  PROVE  ValidModel(ModelInfo("compat", w, id, SlotOf(w)))
<1> DEFINE m == ModelInfo("compat", w, id, SlotOf(w))
<1>1. Facts("compat", w) = CompatFacts
  BY DEF Facts
<1>2. /\ CompatFacts.context = 128000 /\ CompatFacts.maxOut = 8192
      /\ CompatFacts.costIn = 0 /\ CompatFacts.costOut = 0 /\ CompatFacts.tier = 3
  BY DEF CompatFacts, Rates
<1>3. SlotOf(w).tier = Null /\ SlotOf(w).price = Null
  BY DEF SlotOf
<1>4. \A x : MetadataValue(Null, x) = x
  BY DEF MetadataValue
<1>5. /\ m.strengths = {"coding", "reasoning"} \cup
                       (IF "compat" \in {"anthropic", "claude"} THEN {"long_context"} ELSE {})
      /\ m.context = 128000 /\ m.maxOut = 8192 /\ m.costIn = 0 /\ m.costOut = 0 /\ m.tier = 3
      /\ m.billing = "card"
  BY <1>1, <1>2, <1>3, <1>4 DEF ModelInfo
<1>. HIDE DEF m
<1>6. m.strengths # {}
  BY <1>5
<1>7. 128000 >= 1 /\ 8192 >= 1 /\ 8192 < 128000
  OBVIOUS
<1>8. ValidModel(m)
  BY <1>5, <1>6, <1>7 DEF ValidModel, Billing
<1>. QED  BY <1>8 DEF m

(* It asks for one of the wires measured, by the id the profiles have.      *)
AsksMeasured(request) ==
  /\ request.family = "compat" /\ request.wire \in Range(order.wires)
  /\ request.id = FiledUnder(request.wire)

LEMMA SlotRead ==
  ASSUME AskedInv, asked = <<>>, order \in CampaignOrders, NEW slots \in Measured,
         ReadsSlots(slots)
  PROVE  /\ stage' = "moonshot"
         /\ Len(asked') = 1 /\ AsksMeasured(asked'[1])
         /\ ValidModel(models'[1])
<1>1. PICK w \in Range(order.wires) : slots = [slot \in {0} |-> SlotOf(w)]
  BY DEF Measured, SlotOf
<1>2. w \in Nat /\ order.name \in Nat \cup {Null}
  BY OrderIs
<1>3. DOMAIN slots = {0} /\ slots[0] = SlotOf(w)
  BY <1>1
<1>4. slots[0].base /\ slots[0].wire = w /\ slots[0].name = order.name
  BY <1>3 DEF SlotOf
<1>. DEFINE inOrder(S) == ByKey(S, [n \in S |-> <<n>>])
            U == {n \in DOMAIN slots : slots[n].base}
            W == {n \in DOMAIN slots : slots[n].base \/ n # 0}
            used == inOrder(U)
            wanted == inOrder(W)
            wire(n) == slots[n].wire
            id(n) == SlotId(slots[n])
            wires == [i \in DOMAIN used |-> wire(used[i])]
            ids == [i \in DOMAIN used |-> id(used[i])]
            settings == [i \in DOMAIN used |-> slots[used[i]]]
            fits == SlotsFit(slots) /\ Fresh(ids)
            it == inOrder({0})
<1>5. U = {0} /\ W = {0}
  BY <1>3, <1>4
<1>6. used = it /\ wanted = it
  <2>. HIDE DEF U, W
  <2>. QED  BY <1>5
<1>7. DOMAIN it = 1..1 /\ it[1] = 0
  <2>1. IsFiniteSet({0}) /\ Cardinality({0}) = 1
    BY FS_Singleton
  <2>a. {0} \subseteq Nat
    OBVIOUS
  <2>2. Ordered(it, {0}, [n \in {0} |-> <<n>>])
    BY <2>1, <2>a, NumbersSort
  <2>. HIDE DEF it
  <2>. QED  BY <2>1, <2>2 DEF Ordered
<1>8. id(0) = FiledUnder(w) /\ FiledUnder(w) \in Nat
  BY <1>2, <1>4 DEF SlotId, FiledUnder, CompatId, Prefix
<1>. HIDE DEF it, U, W
<1>9. /\ wires = [i \in 1..1 |-> w] /\ ids = [i \in 1..1 |-> FiledUnder(w)]
      /\ settings = [i \in 1..1 |-> SlotOf(w)]
  BY <1>3, <1>4, <1>6, <1>7, <1>8
<1>10. SlotsFit(slots)
  <2>1. Numbered(slots) = {}
    BY <1>3 DEF Numbered
  <2>2. Max({1}) = 1
    <3> DEFINE S == {1}
    <3>1. IsFiniteSet(S)
      BY FS_Singleton
    <3>2. S # {} /\ \A x \in S : x \in Int
      OBVIOUS
    <3>. HIDE DEF S
    <3>3. Max(S) \in S
      BY <3>1, <3>2, MaxIs
    <3>. QED  BY <3>3 DEF S
  <2>3. {1} \cup Numbered(slots) = {1}
    BY <2>1
  <2>4. 2..Max({1} \cup Numbered(slots)) = {}
    <3>1. Max({1} \cup Numbered(slots)) = 1
      BY <2>2, <2>3
    <3>2. 2..1 = {}
      OBVIOUS
    <3>. QED  BY <3>1, <3>2
  <2>5. \A n \in DOMAIN slots : slots[n].base => slots[n].wire # Null
    BY <1>2, <1>3, <1>4, NullAssumption
  <2>. QED  BY <2>1, <2>4, <2>5 DEF SlotsFit
<1>11. Fresh(ids)
  <2>1. DOMAIN providers = {}
    BY DEF AskedInv
  <2>2. {ids[i] : i \in DOMAIN ids} = {FiledUnder(w)} /\ Len(ids) = 1
    BY SMTT(30), <1>9
  <2>. HIDE DEF ids
  <2>3. NoDuplicates(ids)
    BY <2>2, FS_Singleton DEF NoDuplicates
  <2>. QED  BY <2>1, <2>3 DEF Fresh
<1>12. /\ asked' = asked \o [i \in DOMAIN wanted |->
                      [family |-> "compat", wire |-> wire(wanted[i]), id |-> id(wanted[i])]]
       /\ Registers("compat", wires, ids, settings)
  BY <1>10, <1>11 DEF ReadsSlots, U, W
<1>13. asked' = <<[family |-> "compat", wire |-> w, id |-> FiledUnder(w)]>>
  <2>1. [i \in DOMAIN wanted |->
           [family |-> "compat", wire |-> wire(wanted[i]), id |-> id(wanted[i])]]
        = [i \in 1..1 |-> [family |-> "compat", wire |-> w, id |-> FiledUnder(w)]]
    BY <1>4, <1>6, <1>7, <1>8
  <2>. HIDE DEF wanted, id, wire
  <2>2. asked' = <<>> \o [i \in 1..1 |-> [family |-> "compat", wire |-> w, id |-> FiledUnder(w)]]
    BY <1>12, <2>1
  <2>. QED  BY <2>2
<1>. HIDE DEF wires, ids, settings
<1>14. stage' = "moonshot"
  BY <1>12 DEF Registers, After
<1>15. models'[1] = ModelInfo("compat", w, FiledUnder(w), SlotOf(w))
  <2>1. models = <<>>
    BY DEF AskedInv
  <2>2. models' = models \o [i \in DOMAIN wires |->
                               ModelInfo("compat", wires[i], ids[i], settings[i])]
    BY <1>12 DEF Registers
  <2>. DEFINE m == ModelInfo("compat", w, FiledUnder(w), SlotOf(w))
  <2>3. [i \in DOMAIN wires |-> ModelInfo("compat", wires[i], ids[i], settings[i])]
        = [i \in 1..1 |-> m]
    BY <1>9
  <2>. HIDE DEF m
  <2>4. models' = <<>> \o [i \in 1..1 |-> m]
    BY <2>1, <2>2, <2>3
  <2>5. models'[1] = m
    BY <2>4
  <2>. QED  BY <2>5 DEF m
<1>. QED  BY <1>2, <1>8, <1>13, <1>14, <1>15, CompatIsValid DEF AsksMeasured

(* A name no strict reader takes was measured. *)
Offending == \E w \in Range(order.wires) : FiledUnder(w) \in Unsafe

Later == {"moonshot", "ollama", "claude", "codex", "inventory"}
Found(request) ==
  profilesFile.kind = "profiles" =>
    request.id \in DOMAIN profiles /\ profiles[request.id] = profilesFile.of[request.id]

(* The start waits for the file, asks for a wire that was measured and has  *)
(* its profile; only a name is a reason to refuse it.                       *)
MeasuredStart ==
  /\ bench # "finished" => stage = "anthropic"
  /\ stage \in {"anthropic", "compat"} => asked = <<>>
  /\ stage \in Later \cup Live => Len(asked) = 1 /\ AsksMeasured(asked[1])
  /\ stage \in Later => ValidModel(models[1])
  /\ stage \in Live => Found(asked[1])
  /\ stage = "refused" => Offending
MeasuredInv == job = "campaign" => MeasuredStart

LEMMA MeasuredStarts == Init => MeasuredInv
BY DEF Init, SetupInit, MeasuredInv, MeasuredStart, Later, Live

(* What a start keeps of it at each of its stages.                          *)
LEMMA FamilyMeasured ==
  ASSUME AskedInv, MeasuredStart, order \in CampaignOrders, job = "campaign",
         bench = "finished", NEW family \in Family, FamilyReads(family, Offered(family)),
         UNCHANGED <<job, order, bench, profilesFile>>
  PROVE  MeasuredStart'
<1>1. stage = family
  BY DEF FamilyReads
<1>2. CASE family = "compat"
  <2>1. PICK slots \in Measured : ReadsSlots(slots)
    BY <1>2 DEF FamilyReads, Offered, Listed
  <2>2. asked = <<>>
    BY <1>1, <1>2 DEF MeasuredStart
  <2>3. /\ stage' = "moonshot" /\ Len(asked') = 1 /\ AsksMeasured(asked'[1])
        /\ ValidModel(models'[1])
    BY <2>1, <2>2, SlotRead
  <2>4. AsksMeasured(asked[1])'
    BY <2>3 DEF AsksMeasured, FiledUnder
  <2>. QED  BY <2>3, <2>4 DEF MeasuredStart, Later, Live
<1>3. CASE family # "compat"
  <2>1. PICK s \in Offered(family) :
          \/ family \in Listed /\ ReadsListed(family, s)
          \/ family \in {"claude", "codex"} /\ ReadsPlan(family, s)
    BY <1>3 DEF FamilyReads
  <2>2. s = Off /\ ~s.on
    BY <1>3, <2>1 DEF Offered, Off
  <2>3. Skips(family)
    BY <2>1, <2>2 DEF ReadsListed, ReadsPlan
  <2>4. stage' = After[family] /\ asked' = asked /\ models' = models
    BY <2>3 DEF Skips
  <2>5. \/ family = "anthropic" /\ stage' = "compat"
        \/ family \in Later /\ stage' \in Later
    BY <1>3, <2>4 DEF Family, After, Later
  <2>6. CASE family = "anthropic" /\ stage' = "compat"
    BY <1>1, <2>4, <2>6 DEF MeasuredStart, Later, Live
  <2>7. CASE family \in Later /\ stage' \in Later
    <3>1. Len(asked) = 1 /\ AsksMeasured(asked[1]) /\ ValidModel(models[1])
      BY <1>1, <2>7 DEF MeasuredStart
    <3>2. AsksMeasured(asked[1])'
      BY <2>4, <3>1 DEF AsksMeasured, FiledUnder
    <3>3. stage' \notin Live /\ stage' \notin {"anthropic", "compat", "refused"}
      BY <2>7 DEF Later, Live
    <3>. QED  BY <2>4, <2>7, <3>1, <3>2, <3>3 DEF MeasuredStart
  <2>. QED  BY <2>5, <2>6, <2>7
<1>. QED  BY <1>2, <1>3

LEMMA InventoryMeasured ==
  ASSUME AskedInv, MeasuredStart, order \in CampaignOrders, RunsInv, FileInv,
         job = "campaign", bench = "finished", InventoryReads(<< >>, profilesFile),
         UNCHANGED <<job, order, bench, profilesFile>>
  PROVE  MeasuredStart'
<1>. DEFINE final == [i \in DOMAIN models |-> Overridden(models[i], << >>)]
            fits == /\ DOMAIN providers # {}
                    /\ OverridesLoad(<< >>) /\ OverridesApply(models, << >>)
                    /\ ProfilesLoad(profilesFile)
                    /\ RegistryTakesProfiles(models, Profiles(profilesFile))
<1>1. stage = "inventory" /\ asked' = asked
  BY DEF InventoryReads
<1>2. Len(asked) = 1 /\ AsksMeasured(asked[1]) /\ ValidModel(models[1])
  BY <1>1 DEF MeasuredStart, Later
<1>3. AsksMeasured(asked[1])'
  BY <1>1, <1>2 DEF AsksMeasured, FiledUnder
<1>4. /\ models \in Seq(Served) /\ DOMAIN models = 1..1 /\ Len(models) = 1
      /\ models[1].id = asked[1].id /\ DOMAIN providers = {asked[1].id}
  BY <1>2 DEF AskedInv
<1>5. final = models
  <2>1. \A i \in DOMAIN models : Overridden(models[i], << >>) = models[i]
    BY DEF Overridden
  <2>2. models = [i \in DOMAIN models |-> models[i]]
    BY <1>4
  <2>. QED  BY <2>1, <2>2
<1>6. Ids(models) = {asked[1].id}
  BY <1>4 DEF Ids
<1>7. \/ profilesFile = NoFile
      \/ /\ profilesFile.kind = "profiles"
         /\ DOMAIN profilesFile.of = {FiledUnder(w) : w \in Range(order.wires)}
         /\ \A id \in DOMAIN profilesFile.of : ValidProfile(profilesFile.of[id])
  BY WrittenIs DEF FileInv, RunsInv
<1>8. profilesFile.kind = "profiles" => asked[1].id \in DOMAIN profilesFile.of
  BY <1>2, <1>7 DEF AsksMeasured, NoFile
<1>. HIDE DEF final
<1>9. fits \/ Offending
  <2>1. OverridesLoad(<< >>)
    BY DEF OverridesLoad
  <2>2. OverridesApply(models, << >>)
    <3>1. \A i \in DOMAIN models : ValidModel(models[i])
      BY <1>2, <1>4
    <3>2. Cardinality(Ids(models)) = 1
      BY <1>6, FS_Singleton
    <3>3. RegistryTakes(models)
      BY <1>4, <3>1, <3>2 DEF RegistryTakes
    <3>. QED  BY <1>5, <3>3 DEF OverridesApply, final
  <2>3. ProfilesLoad(profilesFile) \/ Offending
    BY <1>7 DEF ProfilesLoad, NoFile, Offending
  <2>4. RegistryTakesProfiles(models, Profiles(profilesFile))
    BY <1>6, <1>7, <1>8 DEF RegistryTakesProfiles, Profiles, NoFile
  <2>. QED  BY <1>4, <2>1, <2>2, <2>3, <2>4
<1>10. CASE fits
  <2>1. /\ stage' = "planner" /\ models' = final
        /\ profiles' = Kept(final, Profiles(profilesFile))
    BY <1>10 DEF InventoryReads, final
  <2>2. Found(asked[1])'
    <3>. SUFFICES ASSUME profilesFile.kind = "profiles"
                  PROVE  /\ asked[1].id \in DOMAIN profiles'
                         /\ profiles'[asked[1].id] = profilesFile.of[asked[1].id]
      BY <1>1 DEF Found
    <3>1. Profiles(profilesFile) = profilesFile.of
      BY DEF Profiles
    <3>. QED  BY <1>5, <1>6, <1>8, <2>1, <3>1 DEF Kept
  <2>. QED  BY <1>1, <1>2, <1>3, <2>1, <2>2 DEF MeasuredStart, Later, Live
<1>11. CASE ~fits
  <2>1. stage' = "refused" /\ Offending
    BY <1>9, <1>11 DEF InventoryReads, Refuses
  <2>2. Offending'
    BY <2>1 DEF Offending, FiledUnder
  <2>. QED  BY <2>1, <2>2 DEF MeasuredStart, Later, Live
<1>. QED  BY <1>10, <1>11

(* Past the registry nothing refuses this start: its model honours a        *)
(* temperature, and the rest is as it should be.                            *)
LEMMA LiveMeasured ==
  ASSUME MeasuredStart, stage \in Live, stage' \in Live, asked' = asked, profiles' = profiles,
         UNCHANGED <<job, order, bench, profilesFile>>, bench = "finished"
  PROVE  MeasuredStart'
<1>1. Len(asked) = 1 /\ AsksMeasured(asked[1]) /\ Found(asked[1])
  BY DEF MeasuredStart
<1>2. AsksMeasured(asked[1])' /\ Found(asked[1])'
  BY <1>1 DEF AsksMeasured, FiledUnder, Found
<1>3. stage' \notin Later \cup {"anthropic", "compat", "refused"}
  BY DEF Later, Live
<1>. QED  BY <1>1, <1>2, <1>3 DEF MeasuredStart

LEMMA PlannerMeasured ==
  ASSUME AskedInv, MeasuredStart, entry = "cli", bench = "finished", NEW passes,
         PicksPlanner(Null, Null, 16, passes), UNCHANGED <<job, order, bench, profilesFile>>
  PROVE  MeasuredStart'
<1>1. stage = "planner" /\ asked' = asked
  BY DEF PicksPlanner
<1>2. Len(asked) = 1 /\ AsksMeasured(asked[1])
  BY <1>1 DEF MeasuredStart, Live
<1>3. Chosen(Null, Null) = asked[1].id
  <2>1. Len(asked) = 1 /\ asked \in Seq(Request)
    BY <1>2 DEF AskedInv
  <2>2. asked # <<>>
    BY <2>1, EmptySeq
  <2>3. baseline = asked[1].id
    BY <2>2 DEF AskedInv
  <2>. QED  BY <2>3 DEF Chosen
<1>4. asked[1].id \in DOMAIN providers
  BY <1>2 DEF AskedInv
<1>5. models[1].billing = "card" /\ models[1].id = asked[1].id
  BY <1>2 DEF AskedInv, AsksMeasured, BillingOf
<1>6. Controllable(asked[1].id)
  <2>1. Model(models[1].id) = models[1]
    BY <1>2, ServedIs
  <2>. QED  BY <1>5, <2>1 DEF Controllable
<1>7. PlannerId(asked[1].id) = asked[1].id
  BY <1>6 DEF PlannerId
<1>8. stage' = "factory" /\ profiles' = profiles
  BY <1>3, <1>4, <1>6, <1>7 DEF PicksPlanner
<1>. QED  BY <1>1, <1>8, LiveMeasured DEF Live

LEMMA FactoryMeasured ==
  ASSUME MeasuredStart, bench = "finished", NEW allows, NEW reads,
         MakesFactory(8, Null, allows, reads), UNCHANGED <<job, order, bench, profilesFile>>
  PROVE  MeasuredStart'
<1>1. stage = "factory" /\ asked' = asked
  BY DEF MakesFactory
<1>2. 8 \in Nat \ {0} /\ Null \in {Null, "docker", "subprocess"}
  OBVIOUS
<1>3. stage' = "ready" /\ profiles' = profiles
  BY <1>2 DEF MakesFactory
<1>. QED  BY <1>1, <1>3, LiveMeasured DEF Live

LEMMA MeasuredKeeps == StartInv /\ CampaignInv /\ MeasuredInv /\ [Next]_vars => MeasuredInv'
<1>. SUFFICES ASSUME StartInv, CampaignInv, MeasuredInv, [Next]_vars, job' = "campaign"
              PROVE  MeasuredStart'
  BY DEF MeasuredInv
<1>1. CASE UNCHANGED vars
  <2>1. /\ job' = job /\ order' = order /\ bench' = bench /\ profilesFile' = profilesFile
        /\ stage' = stage /\ asked' = asked /\ models' = models /\ profiles' = profiles
    BY <1>1 DEF vars, benchVars, setupVars
  <2>. QED  BY <2>1 DEF MeasuredInv, MeasuredStart, AsksMeasured, FiledUnder, Found, Offending
<1>2. CASE BenchStep /\ UNCHANGED setupVars
  <2>1. job' = job /\ stage' = stage /\ asked' = asked
    BY <1>2, BenchKeepsOrder DEF setupVars
  <2>2. bench # "finished"
    BY <1>2, <2>1 DEF BenchStep, CampaignStep, AsksModel, GradesProse, SendsToScorer, TakesGrade,
                WritesMeasurements, Calibrates, SuiteStep, ArmRuns, BaselineRaises, GradesArm,
                TakesArmGrade, EndsRound, Reports
  <2>3. stage = "anthropic" /\ asked = <<>>
    BY <2>1, <2>2 DEF MeasuredInv, MeasuredStart
  <2>. QED  BY <2>1, <2>3 DEF MeasuredStart, Later, Live
<1>3. CASE SetupStep
  <2>1. UNCHANGED <<job, order, bench, profilesFile>> /\ bench = "finished"
    BY <1>3 DEF SetupStep, benchVars
  <2>2. /\ job = "campaign" /\ MeasuredStart /\ AskedInv /\ entry = "cli"
        /\ order \in CampaignOrders /\ RunsInv /\ FileInv
    BY <2>1 DEF MeasuredInv, StartInv, OrderInv, CampaignInv
  <2>3. ASSUME NEW family \in Family, FamilyReads(family, Offered(family)) PROVE MeasuredStart'
    BY <2>1, <2>2, <2>3, FamilyMeasured
  <2>4. ASSUME NEW overrides \in Choice(Overrides, << >>), InventoryReads(overrides, profilesFile)
        PROVE  MeasuredStart'
    <3>1. overrides = << >>
      BY <2>2 DEF Choice
    <3>. QED  BY <2>1, <2>2, <2>4, <3>1, InventoryMeasured
  <2>5. ASSUME NEW provider \in Choice({Null, "openai_compat", "ollama"}, Null),
               NEW model \in Choice(Asked \cup {Null}, Null), NEW cap \in Choice({0, 16}, 16),
               NEW passes \in BOOLEAN, PicksPlanner(provider, model, cap, passes)
        PROVE  MeasuredStart'
    <3>1. provider = Null /\ model = Null /\ cap = 16
      BY <2>2 DEF Choice
    <3>. QED  BY <2>1, <2>2, <2>5, <3>1, PlannerMeasured
  <2>6. ASSUME NEW iters \in Choice({Null, 0, 8}, 8),
               NEW raw \in Choice({Null, "docker", "subprocess", "other"}, Null),
               NEW allows \in BOOLEAN, NEW reads \in BOOLEAN,
               MakesFactory(iters, raw, allows, reads)
        PROVE  MeasuredStart'
    <3>1. iters = 8 /\ raw = Null
      BY <2>2 DEF Choice
    <3>. QED  BY <2>1, <2>2, <2>6, <3>1, FactoryMeasured
  <2>7. CASE DockerChanges \/ MakesTools
    <3>1. stage = "ready" /\ stage' = stage /\ asked' = asked /\ profiles' = profiles
      BY <2>7 DEF DockerChanges, MakesTools
    <3>. QED  BY <2>1, <2>2, <3>1, LiveMeasured DEF Live
  <2>. QED  BY <1>3, <2>3, <2>4, <2>5, <2>6, <2>7 DEF SetupStep
<1>. QED  BY <1>1, <1>2, <1>3 DEF Next

(* What a profile says of a model is what its own runs showed, and a start  *)
(* with a wire that was measured has its profile and is not refused, unless *)
(* for a name the loader does not take (calibrate_models.py:143).           *)
THEOREM ProfilesAreEarned == Spec => []EvidenceIsTrue
<1>1. StartInv /\ CampaignInv /\ MeasuredInv => EvidenceIsTrue
  <2>. SUFFICES ASSUME StartInv, CampaignInv, MeasuredInv,
                       job = "campaign", bench = "finished", profilesFile.kind = "profiles"
                PROVE  /\ \A id \in DOMAIN profilesFile.of :
                            \E w \in WiresOf(id) :
                              Honest(profilesFile.of[id], {i \in DOMAIN runs : runs[i].wire = w})
                       /\ \A t \in TaskTypes : HonestTiers(profilesFile.of, t)
                       /\ ~Offending =>
                            /\ stage # "refused"
                            /\ stage \in Live =>
                                 \A i \in DOMAIN asked :
                                   /\ asked[i].id \in DOMAIN profiles
                                   /\ Cardinality(WiresOf(asked[i].id)) = 1 =>
                                        Honest(profiles[asked[i].id],
                                               {j \in DOMAIN runs : runs[j].wire = asked[i].wire})
    BY DEF EvidenceIsTrue, Offending, Live
  <2>1. order \in CampaignOrders /\ runs \in Seq(Run) /\ Written /\ MeasuredStart
    BY DEF CampaignInv, RunsInv, FileInv, NoFile, MeasuredInv
  <2>2. /\ DOMAIN profilesFile.of = {FiledUnder(w) : w \in Range(order.wires)}
        /\ \A id \in DOMAIN profilesFile.of :
             /\ LastUnder(id) \in WiresOf(id)
             /\ Honest(profilesFile.of[id], {i \in DOMAIN runs : runs[i].wire = LastUnder(id)})
        /\ \A t \in TaskTypes : HonestTiers(profilesFile.of, t)
    BY <2>1, WrittenIs
  <2>3. ~Offending => stage # "refused"
    BY <2>1 DEF MeasuredStart
  <2>4. ASSUME stage \in Live, NEW i \in DOMAIN asked
        PROVE  /\ asked[i].id \in DOMAIN profiles
               /\ Cardinality(WiresOf(asked[i].id)) = 1 =>
                    Honest(profiles[asked[i].id],
                           {j \in DOMAIN runs : runs[j].wire = asked[i].wire})
    <3>1. Len(asked) = 1 /\ AsksMeasured(asked[1]) /\ Found(asked[1])
      BY <2>1, <2>4 DEF MeasuredStart
    <3>2. i = 1
      <4>1. asked \in Seq(Request)
        BY DEF StartInv, AskedInv
      <4>. QED  BY <3>1, <4>1
    <3>. DEFINE id == asked[i].id
                w == asked[i].wire
    <3>3. id \in DOMAIN profiles /\ profiles[id] = profilesFile.of[id]
      BY <3>1, <3>2 DEF Found
    <3>4. w \in WiresOf(id) /\ id \in DOMAIN profilesFile.of
      BY <2>2, <3>1, <3>2 DEF AsksMeasured, WiresOf
    <3>5. LastUnder(id) \in WiresOf(id)
      BY <2>2, <3>4
    <3>6. Cardinality(WiresOf(id)) = 1 => LastUnder(id) = w
      <4>1. IsFiniteSet(WiresOf(id))
        <5>1. WiresOf(id) \in SUBSET Range(order.wires)
          BY DEF WiresOf
        <5>2. order.wires \in Seq(Nat) /\ Len(order.wires) \in Nat
          BY <2>1, OrderIs
        <5>3. IsFiniteSet(Range(order.wires))
          <6>1. IsFiniteSet(DOMAIN order.wires)
            BY <5>2, FS_Interval, 1 \in Int, Len(order.wires) \in Int
          <6>2. order.wires \in Surjection(DOMAIN order.wires, Range(order.wires))
            BY <5>2 DEF Surjection, Range
          <6>. QED  BY <6>1, <6>2, FS_Surjection
        <5>. QED  BY <5>1, <5>3, FS_Subset
      <4>. HIDE DEF id, w
      <4>2. Cardinality(WiresOf(id)) = 1 => \E x : WiresOf(id) = {x}
        BY <4>1, FS_Singleton
      <4>. QED  BY <3>4, <3>5, <4>2
    <3>. QED  BY <2>2, <3>3, <3>4, <3>6
  <2>. QED  BY <2>2, <2>3, <2>4
<1>2. Init => StartInv /\ CampaignInv /\ MeasuredInv
  BY InitStart, CampaignStarts, MeasuredStarts
<1>3. StartInv /\ CampaignInv /\ MeasuredInv /\ [Next]_vars
        => (StartInv /\ CampaignInv /\ MeasuredInv)'
  BY StartStep, CampaignKeeps, MeasuredKeeps
<1>. QED  BY <1>1, <1>2, <1>3, PTL DEF Spec
=============================================================================
