------------------------------- MODULE Evidence -------------------------------
(***************************************************************************)
(* The programs around a run: what eval/ measures (Bench), and how a start *)
(* of Volante turns an environment, with the profiles file a campaign has  *)
(* left or one from elsewhere, into planner, phases and tools (Setup).     *)
(* After a campaign the start has one of the wires measured in its slot.   *)
(***************************************************************************)
EXTENDS Bench, Setup

CONSTANTS
  Settings,      \* what a family may be set to
  MaxModels,     \* bound: a family is left out once there are so many models
  Overrides,     \* overrides files
  ProfileFiles,  \* quality profiles files from elsewhere
  Asked          \* --model

(* A setting that is there is the names between its commas, or a number; a *)
(* family that is off has no others, and slots are numbered.               *)
Off == [on |-> FALSE]
Names == Seq(Nat) \cup {Null}
Metadata == Int \cup {Null}
FamilySettings ==
  {Off} \cup [on : BOOLEAN, plural : Names, singular : Names, names : Names, name : Names,
             tier : Metadata, price : Metadata]
SlotSettings ==
  [base : BOOLEAN, wire : Nat \cup {Null}, name : Nat \cup {Null},
   tier : Metadata, price : Metadata]

ASSUME EvidenceAssumption ==
  /\ MaxModels \in Nat
  /\ \A family \in Family \ {"compat"} : Settings[family] \subseteq FamilySettings
  /\ \A slots \in Settings["compat"] :
       /\ IsFiniteSet(DOMAIN slots) /\ DOMAIN slots \subseteq Nat
       /\ \A n \in DOMAIN slots : slots[n] \in SlotSettings
  /\ \A overrides \in Overrides : \A id \in DOMAIN overrides :
       "strengths" \in DOMAIN overrides[id] => overrides[id].strengths \subseteq STRING

vars == <<scorerVars, benchVars, setupVars>>

(* A start without a campaign before it. *)
NoBench ==
  /\ ScorerInit
  /\ job = "none" /\ order = Null /\ bench = "finished"
  /\ todo = <<>> /\ runs = <<>> /\ trial = <<>> /\ rows = <<>>
  /\ spent = 0 /\ report = Null
  /\ profilesFile \in ProfileFiles

Init ==
  /\ BenchInit \/ NoBench
  /\ SetupInit
  /\ job # "none" => entry = "cli" /\ ~daemon

Measured ==
  {[slot \in {0} |-> [base |-> TRUE, wire |-> w, name |-> order.name, tier |-> Null, price |-> Null]] :
     w \in Range(order.wires)}

Offered(family) ==
  IF job = "campaign" THEN (IF family = "compat" THEN Measured ELSE {Off})
  ELSE IF Len(models) < MaxModels THEN Settings[family]
  ELSE IF family = "compat" THEN {<< >>} ELSE {Off}

(* After a campaign everything else is left alone. *)
Choice(free, plain) == IF job = "campaign" THEN {plain} ELSE free

SetupStep ==
  /\ bench = "finished" /\ job # "suite"
  /\ \/ \E family \in Family : FamilyReads(family, Offered(family))
     \/ \E overrides \in Choice(Overrides, << >>) : InventoryReads(overrides, profilesFile)
     \/ \E provider \in Choice({Null, "openai_compat", "ollama"}, Null),
           model \in Choice(Asked \cup {Null}, Null),
           cap \in Choice({0, 16}, 16), passes \in BOOLEAN :
          PicksPlanner(provider, model, cap, passes)
     \/ \E iters \in Choice({Null, 0, 8}, 8),
           raw \in Choice({Null, "docker", "subprocess", "other"}, Null),
           allows, reads \in BOOLEAN :
          MakesFactory(iters, raw, allows, reads)
     \/ DockerChanges
     \/ MakesTools
  /\ UNCHANGED <<scorerVars, benchVars>>

Next ==
  \/ BenchStep /\ UNCHANGED setupVars
  \/ SetupStep

Spec == Init /\ [][Next]_vars

-----------------------------------------------------------------------------
(* The start.  A model that is asked for and silently not there, or served *)
(* by another's endpoint, would be noticed by nobody.                      *)

(* Whatever order the families come in and however their names collide, a  *)
(* start that is not refused has each model asked for, with the provider   *)
(* of its own wire, and the first of them as its baseline; build_providers *)
(* promises a model cannot silently go missing (bootstrap.py:239).         *)
EveryModelServed ==
  stage \in {"planner", "factory", "ready"} =>
    /\ Len(models) = Len(asked) /\ Cardinality(DOMAIN providers) = Len(asked)
    /\ \A i \in DOMAIN asked :
         /\ models[i].id = asked[i].id
         /\ models[i].provider = ProviderName[asked[i].family]
         /\ asked[i].id \in DOMAIN providers
         /\ providers[asked[i].id] = [family |-> asked[i].family, wire |-> asked[i].wire]
    /\ baseline = asked[1].id

(* Planning and synthesis stay with models that honour a temperature while *)
(* one is served, --model or not; a plan-backed planner has passed the     *)
(* live gate, and never has another plan-backed model behind it; eval sees *)
(* none (bootstrap.py:651).                                                *)
PhasesStayDeterministic ==
  stage = "ready" =>
    \A phase \in {factory.planning, factory.synthesis} :
      /\ NoDuplicates(phase)
      /\ Range(phase) \subseteq DOMAIN providers
      /\ \A i \in 2..Len(phase) : Model(phase[i]).billing = "card"
      /\ Model(phase[1]).billing # "card" =>
           /\ gated /\ entry = "cli"
           /\ \A i \in DOMAIN models : models[i].billing # "card"

(* A run's tools are those the planner was told of, although Docker may    *)
(* start or stop in between; code is executed only where a daemon answered *)
(* or the user has asked for no isolation, and a run that executes none,   *)
(* or executes it unisolated, says so, as it does of every model whose     *)
(* price is not known (bootstrap.py:803).                                  *)
ToolsAreReal ==
  stage = "ready" =>
    /\ built \in {Null, factory.told}
    /\ "run_python" \in factory.told => answered \/ factory.raw = "subprocess"
    /\ factory.notice.sandbox = "none" <=>
         "run_python" \in factory.told /\ factory.raw # "subprocess"
    /\ \A i \in DOMAIN asked :
         LET m == models[i] IN
         m.id \in factory.notice.unpriced <=>
           /\ asked[i].family \in {"anthropic", "compat", "moonshot"}
           /\ m.costIn + m.costOut = 0
           /\ m.id \notin 400..499    \* a slot the user calls ollama/

-----------------------------------------------------------------------------
(* The evidence. *)

(* Ids as a start will give them. *)
FiledUnder(w) == IF order.name = Null THEN CompatId(w) ELSE order.name
WiresOf(id) == {w \in Range(order.wires) : FiledUnder(w) = id}

(* x is n / d, rounded. *)
Near(x, n, d) == 2 * Abs(d * x - n) <= d

(* What a profile may say of a type, from the runs of it in I, ... *)
HonestType(p, t, I) ==
  LET graded == {i \in I : runs[i].score # Null}
      goals == Cardinality({runs[i].goal : i \in I})
  IN  /\ graded # {}
      /\ Near(p.taskScores[t], 100 * SumOver(graded, [i \in graded |-> runs[i].score]),
              Cardinality(graded))
      /\ 2 * ((goals + 3) * p.confidence) <= 2 * (FullScore * goals) + (goals + 3)

(* ... and from all the runs in I. *)
Honest(p, I) ==
  LET of(t) == {i \in I : TypeOf[runs[i].goal] = t}
      usable == {i \in I : runs[i].score # Null}
  IN  /\ DOMAIN p.taskScores = {t \in TaskTypes : of(t) # {}}
      /\ \A t \in DOMAIN p.taskScores : HonestType(p, t, of(t))
      /\ p.overall # Unclaimed => \A t \in TaskTypes : of(t) # {}
      /\ IF usable = I THEN p.reliability = Unclaimed
         ELSE Near(p.reliability, FullScore * Cardinality(usable), Cardinality(I))

(* Declared tiers follow the scores, and only a gap makes a difference. *)
HonestTiers(of, t) ==
  LET tiers == SuggestTiers(of, t)
      score(m) == of[m].taskScores[t]
  IN  \A m, n \in DOMAIN tiers :
        /\ tiers[m] > tiers[n] => score(m) > score(n) + TierSeparation
        /\ score(m) > score(n) => tiers[m] >= tiers[n]

(* From the runs to the registry, across three programs: a profile says of *)
(* a model what its own runs showed, repeats of a goal counted once, runs  *)
(* nobody could grade as failures and not as zeros; and a start with the   *)
(* measured wire finds it and is not stopped by the file, if the name is   *)
(* one the loader takes (calibrate_models.py:143).  With one name for      *)
(* several wires the file has the last of them.                            *)
EvidenceIsTrue ==
  job = "campaign" /\ bench = "finished" /\ profilesFile.kind = "profiles" =>
    /\ \A id \in DOMAIN profilesFile.of :
         \E w \in WiresOf(id) :
           Honest(profilesFile.of[id], {i \in DOMAIN runs : runs[i].wire = w})
    /\ \A t \in TaskTypes : HonestTiers(profilesFile.of, t)
    /\ (\A w \in Range(order.wires) : FiledUnder(w) \notin Unsafe) =>
         /\ stage # "refused"
         /\ stage \in {"planner", "factory", "ready"} =>
              \A i \in DOMAIN asked :
                /\ asked[i].id \in DOMAIN profiles
                /\ Cardinality(WiresOf(asked[i].id)) = 1 =>
                     Honest(profiles[asked[i].id],
                            {j \in DOMAIN runs : runs[j].wire = asked[i].wire})

-----------------------------------------------------------------------------
(* The comparison. *)

Better(goal, a, b) ==
  LET mine == {i \in DOMAIN rows : rows[i].goal = goal}
      points(x) == SumOver(mine, [i \in mine |-> Composite(goal, rows[i].arms[x])])
      paid(x) == SumOver(mine, [i \in mine |-> rows[i].arms[x].cost])
  IN  points(a) > points(b) \/ (points(a) = points(b) /\ paid(a) < paid(b))

(* A verdict names the arm that beats both others on more goals than any   *)
(* other arm does, dearer ties lost; every cent spent is in the totals;    *)
(* a goal nothing was measured on is named; and a difference is claimed    *)
(* only of two goals or more that all show it, however often each was      *)
(* repeated (run.py:38).                                                   *)
VerdictIsEarned ==
  report # Null =>
    LET goals == {rows[i].goal : i \in DOMAIN rows}
        won(a) == {g \in goals : \A b \in DOMAIN Arms \ {a} : Better(g, a, b)}
    IN  /\ report.verdict # Tie =>
             \A b \in DOMAIN Arms \ {report.verdict} :
               Cardinality(won(b)) < Cardinality(won(report.verdict))
        /\ report.verdict = Tie =>
             \E a, b \in DOMAIN Arms : a # b /\ Cardinality(won(a)) = Cardinality(won(b))
        /\ spent = report.cost[1] + report.cost[2] + report.cost[3]
        /\ \A i \in DOMAIN rows : \A a \in DOMAIN Arms :
             rows[i].arms[a].measured => rows[i].goal \notin report.unmeasured
        /\ report.claim =>
             /\ Cardinality(goals) >= 2
             /\ \A g \in goals, h \in goals : Gap(g) * Gap(h) > 0
=============================================================================
