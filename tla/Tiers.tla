--------------------------------- MODULE Tiers ---------------------------------
(***************************************************************************)
(* Which model runs what: the keyring and the tier bindings on disk        *)
(* (tiers/credentials.py, tiers/store.py), their resolution                *)
(* (tiers/resolve.py, harness/touchpoints.py), the harness the agent       *)
(* builds from them (agent.py), and the app that edits them: the /models   *)
(* grid commits keys, the /tier wizard walks through question screens and  *)
(* saves one binding (tui/app.py).                                         *)
(*                                                                         *)
(* The harness keeps the bindings it was built from; the app looks at the  *)
(* disk before every prompt.  One instance of the app is modelled.         *)
(***************************************************************************)
EXTENDS Integers, Sequences, FiniteSets

CONSTANTS
  Models,                   \* names in the code's model catalog
  Thinkers,                 \* those that can think
  Efforts,                  \* rungs of EFFORT_LADDER
  Offered,                  \* the efforts each model offers
  SequencerEffort,          \* the effort the sequencer's touchpoint asks for
  Tiers,                    \* TierName
  CORE,                     \* the tier that may think, the sequencer's
  SUPP,                     \* the tier of root, the specialists and the verifier
  FAST                      \* the tier of the estimator and the audit

ASSUME TiersAssumption ==
  /\ {CORE, SUPP, FAST} \subseteq Tiers /\ CORE \notin {SUPP, FAST}
  /\ Thinkers \subseteq Models
  /\ Offered \in [Models -> SUBSET Efforts]

(* Every model of the catalog offers the whole ladder.                     *)
ASSUME OfferedAssumption == \A m \in Models : SequencerEffort \in Offered[m]

NoBinding == [model |-> "none"]
TierBinding == [model : Models, effort : Efforts, thinking : BOOLEAN]
Unbound == [t \in Tiers |-> NoBinding]

VARIABLES
  keys,                     \* models with a key in the keyring
  bindings,                 \* settings.json, "tiers"
  root,                     \* the bindings _root was built from, if it was
  tierError,                \* _tier_error is set
  wizard,                   \* _run_tier_wizard: its step and its locals
  turn                      \* a turn runs

tierVars == <<keys, bindings, root, tierError, wizard, turn>>

-------------------------------------------------------------------------------
(* validate_binding                                                        *)
ValidBinding(t, b) ==
  /\ b.model \in Models
  /\ b.effort \in Offered[b.model]
  /\ b.thinking => t = CORE /\ b.model \in Thinkers

(* resolve_tier, with the touchpoint's own effort or the binding's.        *)
Inherit == "inherit"
ResolvesAt(t, effort, ks, bs) ==
  /\ bs[t] # NoBinding
  /\ ValidBinding(t, bs[t])
  /\ bs[t].model \in ks
  /\ (IF effort = Inherit THEN bs[t].effort ELSE effort) \in Offered[bs[t].model]

(* The touchpoints of a turn: the sequencer's at CORE, the others below.   *)
TouchpointsResolve(ks, bs) ==
  /\ ResolvesAt(CORE, SequencerEffort, ks, bs)
  /\ \A t \in Tiers \ {CORE} : ResolvesAt(t, Inherit, ks, bs)

(* scale, in the space every scaled touchpoint declares.                   *)
Allowed == <<SUPP, CORE>>
Scale(default, direction, retry) ==
  LET i == CHOOSE k \in DOMAIN Allowed : Allowed[k] = default
      desired == i + direction + retry
  IN Allowed[IF desired < 1 THEN 1
             ELSE IF desired > Len(Allowed) THEN Len(Allowed) ELSE desired]

(* The tiers a turn may ask for: a plainly easy request demotes the        *)
(* sequencer, a step that is verified or repaired promotes its dispatch, a *)
(* second look promotes the verifier.                                      *)
SequencerTiers == {Scale(CORE, direction, 0) : direction \in {-1, 0}}
DispatchTiers == {Scale(SUPP, direction, retry) : direction \in {0, 1}, retry \in {0, 1}}

(* Each dispatch of a turn resolves anew, at the tier that was scaled to.  *)
DispatchesResolve(ks, bs) ==
  /\ ResolvesAt(FAST, Inherit, ks, bs)
  /\ \A t \in SequencerTiers : ResolvesAt(t, SequencerEffort, ks, bs)
  /\ \A t \in DispatchTiers : ResolvesAt(t, Inherit, ks, bs)

(* tier_status, tiers_configured: what the gate in front of a prompt asks. *)
TierReady(t, ks, bs) ==
  bs[t] # NoBinding /\ ValidBinding(t, bs[t]) /\ bs[t].model \in ks
TiersConfigured(ks, bs) == \A t \in Tiers : TierReady(t, ks, bs)

(* Mutant: a harness that was built is not built again.                    *)
ConfigureOnce(ks, bs, old) ==
  /\ root' = IF old = Unbound /\ TouchpointsResolve(ks, bs) THEN bs ELSE old
  /\ tierError' = ~TouchpointsResolve(ks, bs)

(* _configure_touchpoints: build the harness anew, or note the error and   *)
(* keep the old one.                                                       *)
Configure(ks, bs, old) ==
  /\ root' = IF TouchpointsResolve(ks, bs) THEN bs ELSE old
  /\ tierError' = ~TouchpointsResolve(ks, bs)

Idle == [step |-> "idle", tier |-> CORE, model |-> "none", effort |-> "none",
         thinking |-> FALSE]

TiersTypeOK ==
  /\ keys \subseteq Models
  /\ bindings \in [Tiers -> TierBinding \cup {NoBinding}]
  /\ root \in [Tiers -> TierBinding \cup {NoBinding}]
  /\ tierError \in BOOLEAN /\ turn \in BOOLEAN
  /\ wizard \in [step : {"idle", "model", "effort", "thinking", "confirm"},
                 tier : Tiers, model : Models \cup {"none"},
                 effort : Efforts \cup {"none"}, thinking : BOOLEAN]

(* The app starts on what is on disk: any keys, no bindings or those of an *)
(* earlier run.                                                            *)
TiersInit ==
  /\ keys \in SUBSET Models
  /\ bindings = Unbound
  /\ root = Unbound
  /\ tierError = TRUE
  /\ wizard = Idle
  /\ turn = FALSE

-------------------------------------------------------------------------------
(* The prompt takes a command or a prompt: no turn runs, and Enter answers *)
(* no question of the wizard.                                              *)
PromptFree == ~turn /\ wizard.step = "idle"

(* [ok] in /models: some keys are stored, some are cleared.                *)
CommitKeys(stored, cleared) ==
  /\ PromptFree
  /\ stored \cup cleared # {} /\ stored \cap cleared = {}
  /\ keys' = (keys \cup stored) \ cleared
  /\ Configure(keys', bindings, root)
  /\ UNCHANGED <<bindings, wizard, turn>>

(* /tier X, which needs a model with a key to choose from.                 *)
StartWizard(t) ==
  /\ PromptFree /\ keys # {}
  /\ wizard' = [Idle EXCEPT !.step = "model", !.tier = t]
  /\ UNCHANGED <<keys, bindings, root, tierError, turn>>

Screen(w) == wizard' = w /\ UNCHANGED <<keys, bindings, root, tierError, turn>>

(* Mutant: the screen of the efforts is skipped.                           *)
PickModelOnly(m) ==
  /\ wizard.step = "model" /\ m \in keys
  /\ Screen([wizard EXCEPT !.step = "confirm", !.model = m])

PickModel(m) ==
  /\ wizard.step = "model" /\ m \in keys
  /\ Screen([wizard EXCEPT !.step = "effort", !.model = m])

AsksThinking(w) == w.tier = CORE /\ w.model \in Thinkers

(* Mutant: a choice made for another model survives a way back.            *)
PickEffortKeepsThinking(e) ==
  /\ wizard.step = "effort" /\ e \in Offered[wizard.model]
  /\ Screen([wizard EXCEPT !.step = IF AsksThinking(wizard) THEN "thinking" ELSE "confirm",
                           !.effort = e])

PickEffort(e) ==
  /\ wizard.step = "effort" /\ e \in Offered[wizard.model]
  /\ Screen([wizard EXCEPT !.step = IF AsksThinking(wizard) THEN "thinking" ELSE "confirm",
                           !.effort = e,
                           !.thinking = FALSE])

PickThinking(yes) ==
  /\ wizard.step = "thinking"
  /\ Screen([wizard EXCEPT !.step = "confirm", !.thinking = yes])

(* The back option: on every screen but the first.                         *)
GoBack ==
  \/ wizard.step = "effort" /\ Screen([wizard EXCEPT !.step = "model", !.model = "none"])
  \/ wizard.step = "thinking" /\ Screen([wizard EXCEPT !.step = "effort"])
  \/ /\ wizard.step = "confirm"
     /\ Screen([wizard EXCEPT !.step = IF AsksThinking(wizard) THEN "thinking" ELSE "effort"])

(* Esc on any screen, or "cancel" on the last.                             *)
CancelWizard == wizard.step # "idle" /\ Screen(Idle)

ShownBinding ==
  [model |-> wizard.model, effort |-> wizard.effort, thinking |-> wizard.thinking]

Confirm ==
  /\ wizard.step = "confirm"
  /\ bindings' = [bindings EXCEPT ![wizard.tier] = ShownBinding]
  /\ Configure(keys, bindings', root)
  /\ wizard' = Idle
  /\ UNCHANGED <<keys, turn>>

(* With all three tiers usable the session is begun anew, whether this     *)
(* binding completed them or changed one of them.                          *)
ConfirmClears == Confirm /\ TiersConfigured(keys, bindings')
ConfirmKeeps == Confirm /\ ~TiersConfigured(keys, bindings')

(* /clear is not among the commands that work unconfigured.                *)
Clear ==
  /\ PromptFree /\ TiersConfigured(keys, bindings)
  /\ UNCHANGED tierVars

(* A prompt: the gate asks the disk, process_stream the harness, which it  *)
(* builds only if there is none.                                           *)
StartTurn ==
  /\ PromptFree /\ TiersConfigured(keys, bindings)
  /\ IF root = Unbound THEN Configure(keys, bindings, root) ELSE UNCHANGED <<root, tierError>>
  /\ turn' = (root' # Unbound)
  /\ UNCHANGED <<keys, bindings, wizard>>

TurnEnds ==
  /\ turn
  /\ turn' = FALSE
  /\ UNCHANGED <<keys, bindings, root, tierError, wizard>>

(* The process ends, in whatever it does, and is started again.            *)
Restart ==
  /\ Configure(keys, bindings, Unbound)
  /\ wizard' = Idle /\ turn' = FALSE
  /\ UNCHANGED <<keys, bindings>>

Submits == StartTurn \/ \E t \in Tiers : StartWizard(t)

(* What neither starts a session nor is a submission of the prompt.        *)
WizardStep ==
  \/ \E m \in Models : PickModel(m)
  \/ \E e \in Efforts : PickEffort(e)
  \/ \E yes \in BOOLEAN : PickThinking(yes)
  \/ GoBack \/ CancelWizard \/ ConfirmKeeps

CommitStep ==
  \E stored \in SUBSET Models, cleared \in SUBSET Models : CommitKeys(stored, cleared)

-------------------------------------------------------------------------------
(* A binding on disk is one the catalog allows for its tier, however the   *)
(* user went back and forth through the screens: else the tier would be    *)
(* stale as soon as it is saved, and no prompt would pass the gate.        *)
SavedBindingsAreValid ==
  \A t \in Tiers : bindings[t] # NoBinding => ValidBinding(t, bindings[t])

(* The gate asks the disk before a turn, the turn runs on the harness and  *)
(* reads the keyring at each dispatch: as long as a turn runs, the harness *)
(* is the one of the saved bindings and every dispatch, at whatever tier   *)
(* it is scaled to, resolves.                                              *)
TurnsRunOnTheSavedTiers ==
  turn => root = bindings /\ DispatchesResolve(keys, root)
===============================================================================
