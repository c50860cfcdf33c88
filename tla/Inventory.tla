------------------------------ MODULE Inventory ------------------------------
(***************************************************************************)
(* inventory.py and the checks of registry.py: what a user may declare     *)
(* about models, and what is refused.  Names and ids are numbers; a        *)
(* setting is Null where it is not set, else the names between its commas. *)
(* A model is a record                                                     *)
(*   id, provider, strengths, context, maxOut, tools, costIn, costOut,     *)
(*   tier, billing.                                                        *)
(* A profiles file is [kind |-> "none"], [kind |-> "broken"] where the     *)
(* strict JSON reader gives up, or [kind |-> "profiles", of |-> profiles   *)
(* by id]; an overrides file maps ids to the fields it sets.               *)
(***************************************************************************)
EXTENDS Calibration

CONSTANTS
  Unsafe,   \* names no strict reader takes: empty, too long, out of the alphabet
  Blank     \* the one that is empty

ASSUME NamesAssumption == Unsafe \subseteq Nat /\ Blank \in Unsafe

Billing == {"card", "plan_credit", "plan_included"}
OverrideFields ==
  {"strengths", "context", "maxOut", "tools", "costIn", "costOut", "tier"}

NoDuplicates(seq) == Cardinality({seq[i] : i \in DOMAIN seq}) = Len(seq)

(* parse_model_list *)
Parsable(names) ==
  /\ \A i \in DOMAIN names : names[i] \notin Unsafe
  /\ NoDuplicates(names)

(* model_list_from_env: the plural setting wins, even an empty one. *)
ModelList(plural, singular, default) ==
  IF plural # Null THEN plural ELSE IF singular # Null THEN singular ELSE default

-----------------------------------------------------------------------------
UnitScore(x) == x \in 0..FullScore

(* _profile_from_json and ModelQualityProfile. *)
ValidProfile(p) ==
  /\ DOMAIN p.taskScores \subseteq TaskTypes
  /\ \A t \in DOMAIN p.taskScores : UnitScore(p.taskScores[t])
  /\ p.overall = Unclaimed \/ UnitScore(p.overall)
  /\ p.reliability = Unclaimed \/ UnitScore(p.reliability)
  /\ UnitScore(p.confidence)

(* load_quality_profiles *)
ProfilesLoad(file) ==
  \/ file.kind = "none"
  \/ /\ file.kind = "profiles"
     /\ \A id \in DOMAIN file.of : id \notin Unsafe /\ ValidProfile(file.of[id])
Profiles(file) == IF file.kind = "profiles" THEN file.of ELSE << >>

(* load_model_overrides_file *)
OverridesLoad(overrides) ==
  \A id \in DOMAIN overrides :
    LET set == overrides[id]
        Sets(field, values) == field \in DOMAIN set => set[field] \in values
    IN  /\ id \notin Unsafe
        /\ DOMAIN set \subseteq OverrideFields
        /\ ("strengths" \in DOMAIN set => set.strengths # {})
        /\ \A field \in {"context", "maxOut"} : Sets(field, Nat \ {0})
        /\ \A field \in {"costIn", "costOut"} : Sets(field, Nat)
        /\ Sets("tier", 1..4)
        /\ Sets("tools", BOOLEAN)

Overridden(model, overrides) ==
  IF model.id \notin DOMAIN overrides THEN model
  ELSE [field \in DOMAIN model |->
          IF field \in DOMAIN overrides[model.id] THEN overrides[model.id][field]
          ELSE model[field]]

-----------------------------------------------------------------------------
(* _validate_model *)
ValidModel(m) ==
  /\ m.strengths # {}
  /\ m.context >= 1 /\ m.maxOut >= 1 /\ m.maxOut < m.context
  /\ m.tier \in 1..4 /\ m.billing \in Billing
  /\ m.costIn >= 0 /\ m.costOut >= 0

Ids(models) == {models[i].id : i \in DOMAIN models}

(* Registry.__init__ *)
RegistryTakes(models) ==
  /\ \A i \in DOMAIN models : ValidModel(models[i])
  /\ Cardinality(Ids(models)) = Len(models)

(* apply_model_overrides refuses one for a model that is not there. *)
OverridesApply(models, overrides) ==
  /\ DOMAIN overrides \subseteq Ids(models)
  /\ RegistryTakes([i \in DOMAIN models |-> Overridden(models[i], overrides)])

(* The registry also refuses profiles of which none is of a model it has;  *)
(* it drops the others.                                                    *)
RegistryTakesProfiles(models, profiles) ==
  DOMAIN profiles = {} \/ DOMAIN profiles \cap Ids(models) # {}
Kept(models, profiles) ==
  [id \in DOMAIN profiles \cap Ids(models) |-> profiles[id]]
=============================================================================
