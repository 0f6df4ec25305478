------------------------------ MODULE TiersProofs ------------------------------
(***************************************************************************)
(* Lemmas about Tiers for every catalog and every set of tiers: what the   *)
(* scaling of a dispatch can reach, what the wizard can save, and how the  *)
(* harness that was built follows what is on disk.                         *)
(***************************************************************************)
EXTENDS Tiers, TLAPS

USE TiersAssumption, OfferedAssumption

-------------------------------------------------------------------------------
(* Scaling *)

(* The scaled tier is the default moved by the sum, held within the two.   *)
LEMMA ScaleClamps ==
  ASSUME NEW direction \in Int, NEW retry \in Int
  PROVE  /\ Scale(SUPP, direction, retry) = IF direction + retry < 1 THEN SUPP ELSE CORE
         /\ Scale(CORE, direction, retry) = IF direction + retry < 0 THEN SUPP ELSE CORE
<1> DEFINE at(default) == CHOOSE k \in DOMAIN Allowed : Allowed[k] = default
<1>1. DOMAIN Allowed = {1, 2} /\ Len(Allowed) = 2 /\ Allowed[1] = SUPP /\ Allowed[2] = CORE
  BY DEF Allowed
<1>2. SUPP # CORE
  OBVIOUS
<1>3. at(SUPP) = 1 /\ at(CORE) = 2
  BY <1>1, <1>2
<1> HIDE DEF at
<1>4. \A default : Scale(default, direction, retry) =
        LET desired == at(default) + direction + retry
        IN Allowed[IF desired < 1 THEN 1 ELSE IF desired > 2 THEN 2 ELSE desired]
  BY <1>1 DEF Scale, at
<1>5. Scale(SUPP, direction, retry) = IF direction + retry < 1 THEN SUPP ELSE CORE
  <2>1. CASE direction + retry < 1
    BY <1>1, <1>3, <1>4, <2>1
  <2>2. CASE direction + retry >= 1
    BY <1>1, <1>3, <1>4, <2>2
  <2> QED
    BY <2>1, <2>2
<1>6. Scale(CORE, direction, retry) = IF direction + retry < 0 THEN SUPP ELSE CORE
  <2>1. CASE direction + retry < 0
    BY <1>1, <1>3, <1>4, <2>1
  <2>2. CASE direction + retry >= 0
    BY <1>1, <1>3, <1>4, <2>2
  <2> QED
    BY <2>1, <2>2
<1> QED
  BY <1>5, <1>6

(* A dispatch runs at one of the two tiers, and so does the sequencer.     *)
LEMMA ScaledTiers == SequencerTiers = {SUPP, CORE} /\ DispatchTiers = {SUPP, CORE}
<1>1. Scale(CORE, -1, 0) = SUPP /\ Scale(CORE, 0, 0) = CORE
  BY ScaleClamps
<1>2. /\ Scale(SUPP, 0, 0) = SUPP /\ Scale(SUPP, 1, 0) = CORE
      /\ Scale(SUPP, 0, 1) = CORE /\ Scale(SUPP, 1, 1) = CORE
  BY ScaleClamps
<1> QED
  BY <1>1, <1>2 DEF SequencerTiers, DispatchTiers

-------------------------------------------------------------------------------
(* Readiness *)

(* Where the gate in front of a prompt is open, every touchpoint and every *)
(* dispatch resolves: the effort the sequencer asks for is one that every  *)
(* model offers, and a scaled tier is one of the two the gate looked at.   *)
LEMMA ReadyResolves ==
  ASSUME NEW ks, NEW bs \in [Tiers -> TierBinding \cup {NoBinding}], TiersConfigured(ks, bs)
  PROVE  TouchpointsResolve(ks, bs) /\ DispatchesResolve(ks, bs)
<1>1. ASSUME NEW t \in Tiers PROVE ResolvesAt(t, Inherit, ks, bs) /\ ResolvesAt(t, SequencerEffort, ks, bs)
  <2>1. bs[t] # NoBinding /\ ValidBinding(t, bs[t]) /\ bs[t].model \in ks
    BY DEF TiersConfigured, TierReady
  <2>2. SequencerEffort \in Offered[bs[t].model] /\ bs[t].effort \in Offered[bs[t].model]
    BY <2>1 DEF ValidBinding
  <2> QED
    BY <2>1, <2>2 DEF ResolvesAt
<1>2. {CORE, SUPP, FAST} \subseteq Tiers
  OBVIOUS
<1> QED
  BY <1>1, <1>2, ScaledTiers DEF TouchpointsResolve, DispatchesResolve

(* No tier resolves before its binding is saved.                           *)
LEMMA UnboundUnresolved ==
  ASSUME NEW ks PROVE ~TouchpointsResolve(ks, Unbound)
  BY DEF TouchpointsResolve, ResolvesAt, Unbound

-------------------------------------------------------------------------------
(* The inductive invariant *)

(* The wizard's locals are those of the screens behind it; the answer on   *)
(* thinking is a yes only where it was asked.                              *)
WizardValid ==
  /\ wizard.step \in {"effort", "thinking", "confirm"} => wizard.model \in Models
  /\ wizard.step \in {"thinking", "confirm"} =>
       /\ wizard.effort \in Offered[wizard.model]
       /\ wizard.thinking => AsksThinking(wizard)
  /\ wizard.step = "thinking" => AsksThinking(wizard)

(* The harness is that of the saved bindings whenever they resolve.        *)
Synced == TouchpointsResolve(keys, bindings) => root = bindings

(* Neither the keys nor the bindings change under a turn.                  *)
Steady == turn => wizard.step = "idle" /\ TiersConfigured(keys, bindings)

TiersInv == TiersTypeOK /\ WizardValid /\ Synced /\ Steady /\ SavedBindingsAreValid

(* The first state.                                                        *)
LEMMA InitTiersInv == TiersInit => TiersInv
<1> SUFFICES ASSUME TiersInit PROVE TiersInv
  OBVIOUS
<1>1. CORE \in Tiers
  OBVIOUS
<1>2. TiersTypeOK
  BY <1>1 DEF TiersInit, TiersTypeOK, Unbound, Idle
<1>3. WizardValid /\ Steady
  BY DEF TiersInit, WizardValid, Steady, Idle
<1>4. Synced
  BY UnboundUnresolved DEF TiersInit, Synced
<1>5. SavedBindingsAreValid
  BY DEF TiersInit, SavedBindingsAreValid, Unbound
<1> QED
  BY <1>2, <1>3, <1>4, <1>5 DEF TiersInv

(* What _configure_touchpoints leaves behind.                              *)
LEMMA ConfigureSyncs ==
  ASSUME NEW old \in [Tiers -> TierBinding \cup {NoBinding}],
         bindings' \in [Tiers -> TierBinding \cup {NoBinding}],
         Configure(keys', bindings', old)
  PROVE  Synced' /\ root' \in [Tiers -> TierBinding \cup {NoBinding}] /\ tierError' \in BOOLEAN
<1>1. tierError' = ~TouchpointsResolve(keys', bindings')
  BY DEF Configure
<1>2. tierError' \in BOOLEAN
  BY <1>1 DEF TouchpointsResolve
<1> QED
  BY <1>2 DEF Configure, Synced

(* With nothing saved the bindings have their type.                        *)
LEMMA UnboundType == Unbound \in [Tiers -> TierBinding \cup {NoBinding}]
  BY DEF Unbound

(* A screen after another keeps the invariant if its locals are valid.     *)
LEMMA ScreenInv ==
  ASSUME TiersInv, ~turn \/ wizard.step # "idle", NEW w, Screen(w),
         w \in [step : {"idle", "model", "effort", "thinking", "confirm"},
                tier : Tiers, model : Models \cup {"none"},
                effort : Efforts \cup {"none"}, thinking : BOOLEAN],
         WizardValid'
  PROVE  TiersInv'
<1>1. ~turn
  BY DEF TiersInv, Steady
<1> QED
  BY <1>1 DEF TiersInv, Screen, TiersTypeOK, Synced, Steady, SavedBindingsAreValid

(* Every step of the tiers, the keyring and the wizard.                    *)
TiersStep ==
  \/ CommitStep \/ WizardStep \/ ConfirmClears \/ Clear \/ Submits \/ TurnEnds \/ Restart
  \/ UNCHANGED tierVars

(* Every screen of the wizard, forth and back, keeps what its locals       *)
(* promise.                                                                *)
LEMMA WizardInv ==
  ASSUME TiersInv, WizardStep \/ ConfirmClears \/ \E t \in Tiers : StartWizard(t)
  PROVE  TiersInv'
<1> USE DEF TiersInv
<1> DEFINE Locals == [step : {"idle", "model", "effort", "thinking", "confirm"},
                      tier : Tiers, model : Models \cup {"none"},
                      effort : Efforts \cup {"none"}, thinking : BOOLEAN]
<1>1. wizard \in Locals /\ Idle \in Locals
  BY DEF TiersTypeOK, Idle
<1>2. \A m \in Models : Offered[m] \subseteq Efforts
  OBVIOUS
<1>3. ASSUME NEW m \in Models, PickModel(m) PROVE TiersInv'
  <2> DEFINE w == [wizard EXCEPT !.step = "effort", !.model = m]
  <2>1. Screen(w) /\ w \in Locals
    BY <1>1, <1>3 DEF PickModel
  <2>2. WizardValid'
    BY <1>1, <2>1 DEF Screen, WizardValid
  <2> QED
    BY <1>3, <2>1, <2>2, ScreenInv DEF PickModel
<1>4. ASSUME NEW e \in Efforts, PickEffort(e) PROVE TiersInv'
  <2> DEFINE w == [wizard EXCEPT !.step = IF AsksThinking(wizard) THEN "thinking" ELSE "confirm",
                                 !.effort = e, !.thinking = FALSE]
  <2>1. Screen(w) /\ w \in Locals
    BY <1>1, <1>4 DEF PickEffort
  <2>2. WizardValid'
    BY <1>1, <1>4, <2>1 DEF PickEffort, Screen, WizardValid, AsksThinking
  <2> QED
    BY <1>4, <2>1, <2>2, ScreenInv DEF PickEffort
<1>5. ASSUME NEW yes \in BOOLEAN, PickThinking(yes) PROVE TiersInv'
  <2> DEFINE w == [wizard EXCEPT !.step = "confirm", !.thinking = yes]
  <2>1. Screen(w) /\ w \in Locals
    BY <1>1, <1>5 DEF PickThinking
  <2>2. WizardValid'
    BY <1>1, <1>5, <2>1 DEF PickThinking, Screen, WizardValid, AsksThinking
  <2> QED
    BY <1>5, <2>1, <2>2, ScreenInv DEF PickThinking
<1>6. CASE GoBack
  <2>1. CASE wizard.step = "effort" /\ Screen([wizard EXCEPT !.step = "model", !.model = "none"])
    <3>1. [wizard EXCEPT !.step = "model", !.model = "none"] \in Locals
      BY <1>1
    <3>2. WizardValid'
      BY <1>1, <2>1 DEF Screen, WizardValid
    <3> QED
      BY <2>1, <3>1, <3>2, ScreenInv
  <2>2. CASE wizard.step = "thinking" /\ Screen([wizard EXCEPT !.step = "effort"])
    <3>1. [wizard EXCEPT !.step = "effort"] \in Locals
      BY <1>1
    <3>2. WizardValid'
      BY <1>1, <2>2 DEF Screen, WizardValid
    <3> QED
      BY <2>2, <3>1, <3>2, ScreenInv
  <2>3. CASE /\ wizard.step = "confirm"
             /\ Screen([wizard EXCEPT !.step = IF AsksThinking(wizard) THEN "thinking" ELSE "effort"])
    <3>1. [wizard EXCEPT !.step = IF AsksThinking(wizard) THEN "thinking" ELSE "effort"] \in Locals
      BY <1>1
    <3>2. WizardValid'
      BY <1>1, <2>3 DEF Screen, WizardValid, AsksThinking
    <3> QED
      BY <2>3, <3>1, <3>2, ScreenInv
  <2> QED
    BY <1>6, <2>1, <2>2, <2>3 DEF GoBack
<1>7. CASE CancelWizard
  <2>1. WizardValid'
    BY <1>7 DEF CancelWizard, Screen, WizardValid, Idle
  <2> QED
    BY <1>1, <1>7, <2>1, ScreenInv DEF CancelWizard
<1>8. ASSUME NEW t \in Tiers, StartWizard(t) PROVE TiersInv'
  <2> DEFINE w == [Idle EXCEPT !.step = "model", !.tier = t]
  <2>1. Screen(w) /\ w \in Locals /\ ~turn
    BY <1>1, <1>8 DEF StartWizard, Screen, PromptFree
  <2>2. WizardValid'
    BY <1>1, <1>8 DEF StartWizard, WizardValid, Idle
  <2> QED
    BY <2>1, <2>2, ScreenInv
<1>9. CASE Confirm
  <2>1. /\ wizard.step = "confirm" /\ wizard' = Idle /\ ~turn /\ UNCHANGED <<keys, turn>>
        /\ bindings' = [bindings EXCEPT ![wizard.tier] = ShownBinding]
        /\ Configure(keys', bindings', root)
    BY <1>9 DEF Confirm, Steady
  <2>2. ShownBinding \in TierBinding /\ ValidBinding(wizard.tier, ShownBinding) /\ wizard.tier \in Tiers
    BY <1>1, <1>2, <2>1 DEF ShownBinding, TierBinding, WizardValid, ValidBinding, AsksThinking
  <2>3. bindings' \in [Tiers -> TierBinding \cup {NoBinding}]
    BY <2>1, <2>2 DEF TiersTypeOK
  <2>4. /\ Synced' /\ root' \in [Tiers -> TierBinding \cup {NoBinding}]
        /\ tierError' \in BOOLEAN
    BY <2>1, <2>3, ConfigureSyncs DEF TiersTypeOK
  <2>5. TiersTypeOK'
    BY <1>1, <2>1, <2>3, <2>4 DEF TiersTypeOK
  <2>6. WizardValid' /\ Steady'
    BY <2>1 DEF WizardValid, Steady, Idle
  <2>7. SavedBindingsAreValid'
    BY <2>1, <2>2 DEF SavedBindingsAreValid, TiersTypeOK
  <2> QED
    BY <2>4, <2>5, <2>6, <2>7
<1> QED
  BY <1>3, <1>4, <1>5, <1>6, <1>7, <1>8, <1>9 DEF WizardStep, ConfirmKeeps, ConfirmClears

(* Every step of the tiers.                                                *)
LEMMA NextTiersInv == TiersInv /\ TiersStep => TiersInv'
<1> SUFFICES ASSUME TiersInv, TiersStep PROVE TiersInv'
  OBVIOUS
<1> USE DEF TiersInv
<1>1. CASE CommitStep
  <2>1. PICK stored \in SUBSET Models, cleared \in SUBSET Models : CommitKeys(stored, cleared)
    BY <1>1 DEF CommitStep
  <2>2. /\ ~turn /\ keys' \subseteq Models /\ Configure(keys', bindings', root)
        /\ UNCHANGED <<bindings, wizard, turn>>
    BY <2>1 DEF CommitKeys, PromptFree, TiersTypeOK
  <2>3. /\ Synced' /\ root' \in [Tiers -> TierBinding \cup {NoBinding}]
        /\ tierError' \in BOOLEAN
    BY <2>2, ConfigureSyncs DEF TiersTypeOK
  <2> QED
    BY <2>2, <2>3 DEF TiersTypeOK, WizardValid, AsksThinking, Steady, SavedBindingsAreValid
<1>2. CASE WizardStep \/ ConfirmClears \/ \E t \in Tiers : StartWizard(t)
  BY <1>2, WizardInv
<1>3. CASE Clear \/ UNCHANGED tierVars
  BY <1>3 DEF Clear, tierVars, TiersTypeOK, WizardValid, AsksThinking, Synced, Steady,
     SavedBindingsAreValid
<1>4. CASE StartTurn
  <2>1. /\ TiersConfigured(keys, bindings) /\ wizard.step = "idle" /\ turn' = (root' # Unbound)
        /\ UNCHANGED <<keys, bindings, wizard>>
    BY <1>4 DEF StartTurn, PromptFree
  <2>2. /\ Synced' /\ root' \in [Tiers -> TierBinding \cup {NoBinding}]
        /\ tierError' \in BOOLEAN
    <3>1. CASE root = Unbound
      BY <1>4, <2>1, <3>1, ConfigureSyncs DEF StartTurn, TiersTypeOK
    <3>2. CASE root # Unbound
      BY <1>4, <2>1, <3>2 DEF StartTurn, TiersTypeOK, Synced
    <3> QED
      BY <3>1, <3>2
  <2> QED
    BY <2>1, <2>2 DEF TiersTypeOK, WizardValid, AsksThinking, Steady, SavedBindingsAreValid
<1>5. CASE TurnEnds
  BY <1>5 DEF TurnEnds, TiersTypeOK, WizardValid, AsksThinking, Synced, Steady,
     SavedBindingsAreValid
<1>6. CASE Restart
  <2>1. /\ Synced' /\ root' \in [Tiers -> TierBinding \cup {NoBinding}]
        /\ tierError' \in BOOLEAN
    BY <1>6, ConfigureSyncs, UnboundType DEF Restart, TiersTypeOK
  <2>2. TiersTypeOK'
    BY <1>6, <2>1 DEF Restart, TiersTypeOK, Idle
  <2> QED
    BY <1>6, <2>1, <2>2 DEF Restart, WizardValid, Idle, Steady, SavedBindingsAreValid
<1> QED
  BY <1>1, <1>2, <1>3, <1>4, <1>5, <1>6 DEF TiersStep, Submits

(* What is ready resolves for a turn, at whatever tier.                    *)
LEMMA InvRunsOnSaved == TiersInv => TurnsRunOnTheSavedTiers
<1> SUFFICES ASSUME TiersInv, turn PROVE root = bindings /\ DispatchesResolve(keys, root)
  BY DEF TurnsRunOnTheSavedTiers
<1>1. TouchpointsResolve(keys, bindings) /\ DispatchesResolve(keys, bindings)
  BY ReadyResolves DEF TiersInv, TiersTypeOK, Steady
<1> QED
  BY <1>1 DEF TiersInv, Synced
===============================================================================
