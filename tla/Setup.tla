-------------------------------- MODULE Setup --------------------------------
(***************************************************************************)
(* bootstrap.py and what the entry points put around it: the environment   *)
(* becomes an inventory, its providers, a planner and a factory of         *)
(* runtimes, or is refused.  The settings of a family are read when its    *)
(* turn comes; a stage is named for what is read next.                     *)
(*   families[1] .. codex, inventory, planner, factory, ready, refused     *)
(* The settings of a family are a record                                   *)
(*   on, plural, singular, names, name, tier, price                        *)
(* and those of an OpenAI-compatible slot                                  *)
(*   base, wire, name, tier, price,                                        *)
(* each Null where it is not set; the slots are a function of numbers.     *)
(***************************************************************************)
EXTENDS Inventory

CONSTANT
  KnownWires      \* Anthropic wire names with a row in _ANTHROPIC_FACTS

ASSUME SetupAssumption == KnownWires \subseteq Nat

Family == {"anthropic", "compat", "moonshot", "ollama", "claude", "codex"}
Listed == {"anthropic", "moonshot", "ollama"}
After ==
  [anthropic |-> "compat", compat |-> "moonshot", moonshot |-> "ollama",
   ollama |-> "claude", claude |-> "codex", codex |-> "inventory"]

VARIABLES
  entry,       \* who starts: "cli", which admits plan-backed models, or "eval"
  stage,
  asked,       \* history: [family, wire, id] of every model asked for, in order
  models,      \* the inventory
  providers,   \* id to [family, wire] of its provider
  baseline,    \* model_id
  profiles,    \* the registry's quality profiles
  gated,       \* history: the live planner gate was passed
  factory,     \* what make_runtime has closed over, Null before
  daemon,      \* whether a Docker daemon answers
  answered,    \* history: whether one did when the sandbox was chosen
  built        \* the tools of a run, Null before

setupVars == <<entry, stage, asked, models, providers, baseline, profiles, gated,
               factory, daemon, answered, built>>
givenVars == <<entry, gated, factory, daemon, answered, built>>

SetupInit ==
  /\ entry \in {"cli", "eval"}
  /\ stage = "anthropic"
  /\ asked = <<>> /\ models = <<>> /\ providers = << >>
  /\ baseline = Null /\ profiles = << >>
  /\ gated = FALSE /\ factory = Null
  /\ daemon \in BOOLEAN /\ answered = FALSE
  /\ built = Null

-----------------------------------------------------------------------------
(* What is known of a model.  Costs are in thousandths per thousand tokens. *)

(* The ids are a prefix for the family, and the wire name. *)
Prefix == [anthropic |-> 100, compat |-> 200, moonshot |-> 300, ollama |-> 400,
           claude |-> 500, codex |-> 600]
DefaultWire == [anthropic |-> 1, moonshot |-> 1, ollama |-> 1, claude |-> 1]
ProviderName ==
  [anthropic |-> "anthropic", compat |-> "openai_compat", moonshot |-> "openai_compat",
   ollama |-> "ollama", claude |-> "claude_code", codex |-> "codex"]

(* That a word is a string no prover knows.                                 *)
ASSUME WordsAssumption ==
  {"coding", "reasoning", "long_context", "anthropic", "openai_compat", "ollama",
   "claude_code", "codex"} \subseteq STRING

(* _metadata_value: a blank one is not set. *)
MetadataValue(value, default) == IF value \in {Null, Blank} THEN default ELSE value

Rates(context, maxOut, tools, costIn, costOut, tier) ==
  [context |-> context, maxOut |-> maxOut, tools |-> tools,
   costIn |-> costIn, costOut |-> costOut, tier |-> tier]

(* Not known is dear and small, the safe side of both. *)
AnthropicFacts(wire) ==
  IF wire \in KnownWires THEN Rates(1000000, 128000, TRUE, 5, 25, 4)
  ELSE Rates(200000, 8192, TRUE, 10, 50, 4)
CompatFacts == Rates(128000, 8192, FALSE, 0, 0, 3)
MoonshotFacts == Rates(1048576, 131072, TRUE, 3, 15, 3)
OllamaFacts == Rates(4096, 1024, FALSE, 0, 0, 1)
ClaudeFacts == Rates(200000, 4096, FALSE, 5, 25, 4)
CodexFacts == Rates(256000, 4096, FALSE, 0, 0, 0)

Facts(family, wire) ==
  [anthropic |-> AnthropicFacts(wire), compat |-> CompatFacts, moonshot |-> MoonshotFacts,
   ollama |-> OllamaFacts, claude |-> ClaudeFacts, codex |-> CodexFacts][family]

(* Of the metadata a family's settings may override, two stand for all. *)
ModelInfo(family, wire, id, settings) ==
  LET facts == Facts(family, wire)
      plan == family \in {"claude", "codex"}
      price(rate) == IF plan THEN rate ELSE MetadataValue(settings.price, rate)
  IN  [id |-> id, provider |-> ProviderName[family],
       strengths |-> {"coding", "reasoning"} \cup
                     (IF family \in {"anthropic", "claude"} THEN {"long_context"} ELSE {}),
       context |-> facts.context, maxOut |-> facts.maxOut, tools |-> facts.tools,
       costIn |-> price(facts.costIn), costOut |-> price(facts.costOut),
       tier |-> MetadataValue(settings.tier, facts.tier),
       billing |-> IF plan THEN "plan_included" ELSE "card"]

-----------------------------------------------------------------------------
(* build_providers_from_env, a family at a time. *)

Refuses == stage' = "refused" /\ UNCHANGED <<models, providers, baseline, profiles>>

(* The models of a family, all or none: an error leaves nothing behind. *)
Registers(family, wires, ids, settings) ==
  LET new == [i \in DOMAIN wires |-> ModelInfo(family, wires[i], ids[i], settings[i])] IN
  /\ stage' = After[family]
  /\ models' = models \o new
  /\ providers' = [id \in DOMAIN providers \cup {ids[i] : i \in DOMAIN ids} |->
                     IF id \in DOMAIN providers THEN providers[id]
                     ELSE LET i == CHOOSE j \in DOMAIN ids : ids[j] = id IN
                          [family |-> family, wire |-> wires[i]]]
  /\ baseline' = IF baseline = Null /\ ids # <<>> THEN ids[1] ELSE baseline
  /\ UNCHANGED profiles

Asks(family, wires, ids) ==
  asked' = asked \o [i \in DOMAIN wires |-> [family |-> family, wire |-> wires[i], id |-> ids[i]]]

(* duplicate configured model_id *)
Fresh(ids) == NoDuplicates(ids) /\ \A i \in DOMAIN ids : ids[i] \notin DOMAIN providers

Skips(family) ==
  /\ stage' = After[family]
  /\ UNCHANGED <<asked, models, providers, baseline, profiles>>

Same(s, wires) == [i \in DOMAIN wires |-> s]

(* _canonical_names: the names given, or the convention. *)
Given(s) == IF s.names \notin {Null, <<Blank>>} THEN s.names ELSE s.name
GivesNames(s) == Given(s) \notin {Null, <<Blank>>}
IdsOf(family, s, wires) ==
  IF GivesNames(s) THEN Given(s) ELSE [i \in DOMAIN wires |-> Prefix[family] + wires[i]]
NamesFit(s, wires) == GivesNames(s) => Parsable(Given(s)) /\ Len(Given(s)) = Len(wires)

(* Anthropic, Moonshot, Ollama. *)
ReadsListed(family, s) ==
  LET wires == ModelList(s.plural, s.singular, <<DefaultWire[family]>>)
      ids == IdsOf(family, s, wires)
      fits == Parsable(wires) /\ NamesFit(s, wires) /\ Fresh(ids)
  IN  \/ ~s.on /\ Skips(family)
      \/ /\ s.on /\ fits
         /\ Asks(family, wires, ids)
         /\ Registers(family, wires, ids, Same(s, wires))
      \/ s.on /\ ~fits /\ Refuses /\ UNCHANGED asked

(* OPENAI_COMPAT_*, here slot 0, and the numbered slots, which start at 2. *)
SlotId(slot) == IF slot.name = Null THEN Prefix.compat + slot.wire ELSE slot.name
Numbered(slots) == DOMAIN slots \ {0}

(* Mutant: a numbered slot without an endpoint is passed over. *)
SlotsFitLenient(slots) ==
  /\ Numbered(slots) = 2..Max({1} \cup Numbered(slots))
  /\ \A n \in DOMAIN slots : slots[n].base => slots[n].wire # Null

(* _all_openai_compat_from_env *)
SlotsFit(slots) ==
  /\ Numbered(slots) = 2..Max({1} \cup Numbered(slots))
  /\ \A n \in DOMAIN slots : slots[n].base => slots[n].wire # Null
  /\ \A n \in Numbered(slots) : slots[n].base

(* Slot 0 counts only with its endpoint. *)
ReadsSlots(slots) ==
  LET inOrder(S) == ByKey(S, [n \in S |-> <<n>>])
      used == inOrder({n \in DOMAIN slots : slots[n].base})
      wanted == inOrder({n \in DOMAIN slots : slots[n].base \/ n # 0})
      wire(n) == slots[n].wire
      id(n) == SlotId(slots[n])
      settings == [i \in DOMAIN used |-> slots[used[i]]]
      fits == SlotsFit(slots) /\ Fresh([i \in DOMAIN used |-> id(used[i])])
  IN  \/ /\ fits
         /\ asked' = asked \o [i \in DOMAIN wanted |->
                      [family |-> "compat", wire |-> wire(wanted[i]), id |-> id(wanted[i])]]
         /\ Registers("compat", [i \in DOMAIN used |-> wire(used[i])],
                      [i \in DOMAIN used |-> id(used[i])], settings)
      \/ ~fits /\ Refuses /\ UNCHANGED asked

(* _register_subscription_providers, with the CLI or its login detected.   *)
(* Codex wants its tier, and is its own default without a model: wire 0.   *)
ReadsPlan(family, s) ==
  LET listed == family = "claude" \/ s.plural # Null \/ s.singular \notin {Null, <<Blank>>}
      wires == IF family = "claude" THEN ModelList(s.plural, s.singular, <<DefaultWire.claude>>)
               ELSE IF listed THEN ModelList(s.plural, s.singular, Null)
               ELSE <<0>>
      ids == [i \in DOMAIN wires |-> Prefix[family] + wires[i]]
      fits == /\ listed => Parsable(wires)
              /\ Fresh(ids)
              /\ family = "codex" => s.tier \notin {Null, Blank}
  IN  \/ (~s.on \/ entry = "eval") /\ Skips(family)
      \/ /\ s.on /\ entry = "cli" /\ fits
         /\ Asks(family, wires, ids)
         /\ Registers(family, wires, ids, Same(s, wires))
      \/ s.on /\ entry = "cli" /\ ~fits /\ Refuses /\ UNCHANGED asked

FamilyReads(family, S) ==
  /\ stage = family
  /\ \E s \in S :
       \/ family \in Listed /\ ReadsListed(family, s)
       \/ family = "compat" /\ ReadsSlots(s)
       \/ family \in {"claude", "codex"} /\ ReadsPlan(family, s)
  /\ UNCHANGED givenVars

(* The overrides file, the registry, and the profiles file it takes. *)
InventoryReads(overrides, file) ==
  LET final == [i \in DOMAIN models |-> Overridden(models[i], overrides)]
      fits == /\ DOMAIN providers # {}
              /\ OverridesLoad(overrides) /\ OverridesApply(models, overrides)
              /\ ProfilesLoad(file) /\ RegistryTakesProfiles(models, Profiles(file))
  IN  /\ stage = "inventory"
      /\ \/ /\ fits
            /\ stage' = "planner"
            /\ models' = final
            /\ profiles' = Kept(final, Profiles(file))
            /\ UNCHANGED <<providers, baseline>>
         \/ ~fits /\ Refuses
      /\ UNCHANGED <<asked, givenVars>>

-----------------------------------------------------------------------------
(* The planner and the phases. *)

Model(id) == models[CHOOSE i \in DOMAIN models : models[i].id = id]
Controllable(id) == Model(id).billing = "card"

(* _planner_model_id *)
PlannerId(id) ==
  LET card == {m \in Range(models) : m.id \in DOMAIN providers /\ m.billing = "card"}
      key(m) == <<-m.tier, m.costOut, m.id>>
  IN  IF Controllable(id) \/ card = {} THEN id
      ELSE (CHOOSE m \in card : \A n \in card \ {m} : Less(key(m), key(n))).id

(* _build: --provider takes the first model of it, --model beats it. *)
OfProvider(provider) ==
  {i \in DOMAIN models : models[i].provider = provider /\ models[i].id \in DOMAIN providers}
Chosen(provider, model) ==
  IF provider # Null /\ OfProvider(provider) = {} THEN Null
  ELSE IF model # Null THEN model
  ELSE IF provider # Null THEN models[Min(OfProvider(provider))].id
  ELSE baseline

(* make_verified_runtime_factory and make_runtime_factory: without a model *)
(* that honours a temperature the cli wants a live plan from the one there *)
(* is, which a cap of 0 forbids, and eval gives up.                        *)
PicksPlanner(provider, model, cap, passes) ==
  LET chosen == Chosen(provider, model)
      known == chosen \in DOMAIN providers
      card == known /\ Controllable(PlannerId(chosen))
      fits == known /\ (card \/ (entry = "cli" /\ cap > 0 /\ passes))
  IN  /\ stage = "planner"
      /\ \/ /\ fits
            /\ stage' = "factory"
            /\ factory' = [planner |-> PlannerId(chosen)]
            /\ gated' = ~card
            /\ UNCHANGED <<models, providers, baseline, profiles>>
         \/ ~fits /\ Refuses /\ UNCHANGED <<factory, gated>>
      /\ UNCHANGED <<entry, asked, daemon, answered, built>>

(* Ollama is known by its provider, or by its prefix. *)
Ollama(m) == m.provider = "ollama" \/ m.id \div 100 = Prefix.ollama \div 100

(* What the router sees of a model; scores to the hundredth. *)
Seen(m, type) ==
  LET has == m.id \in DOMAIN profiles
      p == profiles[m.id]
      hundredths(x) == IF x = Unclaimed THEN Unset ELSE x \div 100
  IN  [id |-> m.id, transport |-> m.provider, tier |-> m.tier, strengths |-> m.strengths,
       tools |-> m.tools, billing |-> m.billing, costIn |-> m.costIn, costOut |-> m.costOut,
       context |-> m.context, maxOut |-> m.maxOut, local |-> Ollama(m),
       confidence |-> IF has THEN p.confidence \div 100 ELSE 0,
       taskScore |-> IF has /\ type \in DOMAIN p.taskScores
                     THEN hundredths(p.taskScores[type]) ELSE Unset,
       overall |-> IF has THEN hundredths(p.overall) ELSE Unset,
       reliability |-> IF has THEN hundredths(p.reliability) ELSE Unset]

Ranking(type) ==
  LET ranked == Ranked({Seen(m, type) : m \in Range(models)},
                              [type |-> type, difficulty |-> "hard", agentic |-> FALSE,
                               estimate |-> 16], "quality")
  IN  [i \in DOMAIN ranked |-> ranked[i].id]

(* The planner, and who of the others may stand in, as they are ranked. *)
Phase(planner, ranked, others) ==
  LET phase[k \in 0..Len(ranked)] ==
        IF k = 0 THEN <<planner>>
        ELSE IF ranked[k] \in others THEN Append(phase[k - 1], ranked[k])
        ELSE phase[k - 1]
  IN  phase[Len(ranked)]

(* Mutant: whoever the router ranks may stand in. *)
PhaseModelsAny(planner, type) ==
  Phase(planner, Ranking(type), DOMAIN providers \ {planner})

(* _phase_model_ids *)
PhaseModels(planner, type) ==
  Phase(planner, Ranking(type), {id \in DOMAIN providers \ {planner} : Controllable(id)})

-----------------------------------------------------------------------------
(* Tools and notices. *)

(* resolve_sandbox_mode, where it does not raise. *)
SandboxMode(raw, up) ==
  IF raw = "subprocess" THEN "subprocess" ELSE IF up THEN "docker" ELSE "unavailable"

Unpriced ==
  {m.id : m \in {n \in Range(models) :
     n.billing = "card" /\ n.costIn = 0 /\ n.costOut = 0 /\ ~Ollama(n)}}

ToolNames(mode, allows, reads) ==
  (IF mode # "unavailable" THEN {"run_python"} ELSE {})
    \cup (IF allows THEN {"fetch_url"} ELSE {})
    \cup (IF reads THEN {"read_file"} ELSE {})

(* _runtime_factory: VOLANTE_AGENTIC_MAX_ITERS and VOLANTE_SANDBOX may be  *)
(* nonsense; the sandbox is chosen once, and the planner told of it.       *)
MakesFactory(iters, raw, allows, reads) ==
  LET planner == factory.planner
      mode == SandboxMode(raw, daemon)
      fits == iters \in Nat \ {0} /\ raw \in {Null, "docker", "subprocess"}
  IN  /\ stage = "factory"
      /\ \/ /\ fits
            /\ stage' = "ready"
            /\ factory' =
                 [planner |-> planner, mode |-> mode, iters |-> iters,
                  allows |-> allows, reads |-> reads,
                  raw |-> raw,
                  told |-> ToolNames(mode, allows, reads),
                  notice |-> [sandbox |-> IF mode = "docker" THEN "none" ELSE mode,
                              unpriced |-> Unpriced],
                  planning |-> PhaseModels(planner, "analyze"),
                  synthesis |-> PhaseModels(planner, "write")]
            /\ answered' = daemon
            /\ UNCHANGED <<models, providers, baseline, profiles>>
         \/ ~fits /\ Refuses /\ UNCHANGED <<factory, answered>>
      /\ UNCHANGED <<entry, asked, gated, daemon, built>>

DockerChanges ==
  /\ stage = "ready" /\ built = Null
  /\ daemon' = ~daemon
  /\ UNCHANGED <<entry, stage, asked, models, providers, baseline, profiles, gated,
                 factory, answered, built>>

(* Mutant: a run chooses its own sandbox. *)
RunToolsAnew == ToolNames(SandboxMode(factory.raw, daemon), factory.allows, factory.reads)

(* build_agentic_tools with what make_tools hands it. *)
RunTools == ToolNames(factory.mode, factory.allows, factory.reads)

MakesTools ==
  /\ stage = "ready" /\ built = Null
  /\ built' = RunTools
  /\ UNCHANGED <<entry, stage, asked, models, providers, baseline, profiles, gated,
                 factory, daemon, answered>>
=============================================================================
