------------------------ MODULE SettingsDialogProofs ------------------------
(***************************************************************************)
(* Theorems about the settings dialog, for any slots, kinds of camera and  *)
(* settings: no edit is lost to the debounced save, the camera kept awake  *)
(* is the one shown, and no more messages wait than cameras came or went.  *)
(***************************************************************************)
EXTENDS SettingsDialog, FiniteSetTheorems, WellFoundedInduction, TLAPS

-----------------------------------------------------------------------------
(* The inductive invariant. *)

\* The stores have the slots for domain, and the selection is one of them.
SlotsInv ==
    /\ DOMAIN saved = Slots /\ DOMAIN applied = Slots
    /\ selected \in Slots /\ present \subseteq Slots

\* A handler under way, and a pending save, are the open dialog's.
OpenInv ==
    /\ ui # "idle" => open
    /\ timer => open /\ ui # "join"

\* A reset has saved what it is about to apply.  Of any other slot that is not
\* astray: while a save is pending it is the selected camera that was handed what
\* the controls show; this is what the flush will save.
DebounceInv ==
    /\ ui = "reset" => saved[selected] = resetTo
    /\ \A s \in Slots \ astray :
          (s = selected => ui # "reset") =>
             applied[s] \in {IF timer /\ s = selected THEN controls ELSE saved[s], None}

IInv == SlotsInv /\ OpenInv /\ DebounceInv /\ HoldsWhatItShows

-----------------------------------------------------------------------------
(* The pieces of the handlers. *)

\* The lowest of some slots is one of them.
LEMMA LowestSlot ==
  ASSUME TargetAssumption, NEW S, S \subseteq Slots, S # {}
  PROVE  Min(S) \in S
<1> DEFINE Less == {p \in Nat \X Nat : p[1] < p[2]}
<1>1. IsWellFoundedOn(Less, Nat)
  BY NatLessThanWellFounded, Zenon DEF OpToRel
<1>2. S \subseteq Nat
  BY DEF TargetAssumption
<1>3. \A i, j \in Nat : i < j => <<i, j>> \in Less
  OBVIOUS
<1> HIDE DEF Less
<1>4. PICK x \in S : \A y \in S : ~ (<<y, x>> \in Less)
  BY <1>1, <1>2, WFMin
<1>5. ASSUME NEW y \in S PROVE x =< y
  <2>1. x \in Nat /\ y \in Nat
    BY <1>2
  <2>2. ~ (y < x)
    BY <1>3, <1>4, <2>1
  <2> QED BY <2>1, <2>2
<1> QED BY <1>5 DEF Min

LEMMA ReachableSlot ==
  ASSUME TargetAssumption, NEW s \in Slots, present \subseteq Slots
  PROVE  Reachable(s) \in Slots
  BY LowestSlot DEF Reachable, Connected

\* The view is loaded for the slot that gets selected, whose settings it shows.
LEMMA LoadedView ==
  ASSUME TargetAssumption, NEW s \in Slots, present \subseteq Slots, LoadControls(s)
  PROVE  /\ selected' \in Slots /\ selected' = Reachable(s) /\ shownFor' = selected'
         /\ controls' = Shown(saved'[selected'], device[selected'])
  BY ReachableSlot DEF LoadControls, PopulateCameraCombo

\* A flush saves what the selected camera was handed.
LEMMA Flushed ==
  ASSUME SlotsInv, DebounceInv, Flush, ui # "reset"
  PROVE  /\ DOMAIN saved' = Slots /\ ~timer'
         /\ \A s \in Slots \ astray : applied[s] \in {saved'[s], None}
<1>1. CASE timer
  BY <1>1 DEF SlotsInv, DebounceInv, Flush, Save
<1>2. CASE ~timer
  BY <1>2 DEF SlotsInv, DebounceInv, Flush
<1> QED BY <1>1, <1>2

\* Once the target is set, its camera is the only one held.
LEMMA OnlyHold ==
  ASSUME HoldsWhatItShows, open, ui # "join", NEW s, SetCamera(s)
  PROVE  \A t \in Slots : hold'[t] <=> t = cameraIndex'
  BY DEF HoldsWhatItShows, SetCamera

-----------------------------------------------------------------------------
(* The steps. *)

LEMMA SlotsStep == TargetAssumption /\ IInv /\ [Next]_vars => SlotsInv'
<1> SUFFICES ASSUME TargetAssumption, SlotsInv, [Next]_vars PROVE SlotsInv'
  BY DEF IInv
<1> USE DEF SlotsInv, vars, targetVars, slotVars, viewVars, storeVars, history
<1>1. CASE UNCHANGED vars \/ PersistTimer \/ Closed \/ RefreshCameraList \/ Destroy
  BY <1>1 DEF PersistTimer, Flush, Save, Closed, RefreshCameraList, Destroy
<1>2. CASE Controllers
  BY <1>2 DEF Controllers, PlugChanges, SetState, PostsState
<1>3. CASE Show \/ ReloadView \/ \E s \in Slots : CameraPicked(s)
  BY <1>3, LoadedView DEF Show, View, ReloadView, CameraPicked, Flush, Save
<1>4. CASE RebuildList
  BY <1>4, ReachableSlot DEF RebuildList, PopulateCameraCombo
<1>5. CASE ResetToDefaults \/ ResetApplied
  BY <1>5, LoadedView DEF ResetToDefaults, ResetApplied, Save, ApplySettings
<1>6. CASE (\E l \in Levels : SliderMoves(l)) \/ \E m \in Modes : ModePicked(m) \/ TrayCommand(m)
  BY <1>6 DEF SliderMoves, ModePicked, TrayCommand, Save, ApplySettings
<1> QED BY <1>1, <1>2, <1>3, <1>4, <1>5, <1>6 DEF Next, Commands

LEMMA OpenStep == IInv /\ [Next]_vars => OpenInv'
<1> SUFFICES ASSUME OpenInv, [Next]_vars PROVE OpenInv'
  BY DEF IInv
<1> USE DEF OpenInv, InDialog, vars, targetVars, slotVars, viewVars, storeVars, history
<1>1. CASE UNCHANGED vars \/ PersistTimer \/ Closed \/ RefreshCameraList \/ Destroy
  BY <1>1 DEF PersistTimer, Flush, Closed, RefreshCameraList, Destroy
<1>2. CASE Controllers
  BY <1>2 DEF Controllers
<1>3. CASE Show \/ ReloadView \/ RebuildList \/ \E s \in Slots : CameraPicked(s)
  BY <1>3 DEF Show, ReloadView, RebuildList, CameraPicked, Flush
<1>4. CASE ResetToDefaults \/ ResetApplied
  BY <1>4 DEF ResetToDefaults, ResetApplied
<1>5. CASE \E l \in Levels : SliderMoves(l)
  BY <1>5 DEF SliderMoves
<1>6. CASE \E m \in Modes : ModePicked(m) \/ TrayCommand(m)
  BY <1>6 DEF ModePicked, TrayCommand
<1> QED BY <1>1, <1>2, <1>3, <1>4, <1>5, <1>6 DEF Next, Commands

\* A command hands the camera what it saves or leaves pending, and whatever moves
\* the selection either has flushed before or sets the slots concerned astray.
LEMMA DebounceStep == DialogAssumption /\ TargetAssumption /\ IInv /\ [Next]_vars => DebounceInv'
<1> SUFFICES ASSUME DialogAssumption, TargetAssumption, SlotsInv, OpenInv, DebounceInv,
                    [Next]_vars
             PROVE  DebounceInv'
  BY DEF IInv
<1> USE DEF SlotsInv, DebounceInv, InDialog, vars, targetVars, slotVars, viewVars, storeVars,
            history
<1>1. CASE UNCHANGED vars \/ Closed \/ RefreshCameraList
  BY <1>1 DEF Closed, RefreshCameraList
<1>2. CASE PersistTimer \/ Destroy
  BY <1>2, Flushed DEF PersistTimer, Destroy
<1>3. CASE Controllers
  BY <1>3 DEF Controllers
<1>4. CASE Show
  BY <1>4 DEF Show, OpenInv
<1>5. CASE ReloadView \/ \E s \in Slots : CameraPicked(s)
  BY <1>5, Flushed DEF ReloadView, CameraPicked
<1>6. CASE RebuildList
  BY <1>6 DEF RebuildList
<1>7. CASE ResetToDefaults
  <2>1. /\ saved' = [saved EXCEPT ![selected] = resetTo'] /\ ui' = "reset"
        /\ ui = "idle" /\ UNCHANGED <<selected, controls, timer, applied, astray>>
    BY <1>7 DEF ResetToDefaults, Save
  <2> QED BY <2>1
<1>8. CASE ResetApplied
  <2>1. /\ applied' = [applied EXCEPT ![selected'] = resetTo] /\ ui' = "idle"
        /\ saved[selected] = resetTo /\ UNCHANGED <<timer, saved>>
    BY <1>8 DEF ResetApplied, ApplySettings
  <2>2. CASE selected' = selected /\ ~Hijacked
    <3>1. astray' = astray \ {selected}
      BY <1>8, <2>2 DEF ResetApplied
    <3>2. timer => controls' = resetTo
      <4> SUFFICES ASSUME timer PROVE controls' = resetTo
        OBVIOUS
      <4>1. resetTo = Defaults(device[selected])
        BY <2>2 DEF Hijacked
      <4>2. controls' = Shown(resetTo, device[selected])
        BY <1>8, <2>1, <2>2, LoadedView DEF ResetApplied
      <4>3. Shown(resetTo, device[selected]) = resetTo
        BY <4>1 DEF Shown, Fallback, Defaults, ListedModes, DialogAssumption
      <4> QED BY <4>2, <4>3
    <3> QED BY <2>1, <2>2, <3>1, <3>2
  <2>3. CASE selected' # selected \/ Hijacked
    <3>1. astray' = astray \cup {selected, selected'}
      BY <1>8, <2>3 DEF ResetApplied
    <3> QED BY <2>1, <3>1
  <2> QED BY <2>2, <2>3
<1>9. CASE (\E l \in Levels : SliderMoves(l)) \/ \E m \in Modes : ModePicked(m)
  BY <1>9 DEF SliderMoves, ModePicked, ApplySettings, Save
<1>10. CASE \E m \in Modes : TrayCommand(m)
  <2>1. PICK m \in Modes : TrayCommand(m)
    BY <1>10
  <2> DEFINE d == [saved[0] EXCEPT !.mode = m]
  <2>2. saved' = [saved EXCEPT ![0] = d] /\ applied' = [applied EXCEPT ![0] = d]
    BY <2>1 DEF TrayCommand, Save, ApplySettings
  <2>3. /\ ui = "idle" /\ UNCHANGED <<ui, selected, controls, timer>>
        /\ astray' = IF timer /\ selected = 0 THEN astray \cup {0} ELSE astray \ {0}
    BY <2>1 DEF TrayCommand
  <2> HIDE DEF d
  <2> QED BY <2>2, <2>3
<1> QED
  BY <1>1, <1>2, <1>3, <1>4, <1>5, <1>6, <1>7, <1>8, <1>9, <1>10 DEF Next, Commands

\* Every handler that loads a view points the preview at it; only the preview's
\* own handlers touch a hold.
LEMMA HoldStep == TargetAssumption /\ IInv /\ [Next]_vars => HoldsWhatItShows'
<1> SUFFICES ASSUME TargetAssumption, SlotsInv, OpenInv, HoldsWhatItShows, [Next]_vars
             PROVE  HoldsWhatItShows'
  BY DEF IInv
<1> USE DEF HoldsWhatItShows, InDialog, vars, targetVars, slotVars, viewVars, storeVars, history
<1>1. CASE UNCHANGED vars \/ PersistTimer \/ RefreshCameraList
  BY <1>1 DEF PersistTimer, RefreshCameraList
<1>2. CASE Destroy \/ Closed
  BY <1>2 DEF Destroy, ReleaseHold, Closed, Forget
<1>3. CASE Controllers
  BY <1>3 DEF Controllers
<1>4. CASE Show
  <2>1. \A s \in Slots : hold'[s] <=> s = cameraIndex'
    BY <1>4 DEF Show, View, SetCamera
  <2> QED BY <1>4, <2>1, LoadedView DEF Show, View, SetCamera, SlotsInv
<1>5. CASE ReloadView \/ \E s \in Slots : CameraPicked(s)
  <2>1. open /\ ui # "join" /\ open' /\ ui' = "idle" /\ shownFor' = selected'
        /\ SetCamera(selected')
    BY <1>5, LoadedView DEF ReloadView, CameraPicked, View, OpenInv, SlotsInv
  <2> QED BY <2>1, OnlyHold DEF SetCamera
<1>6. CASE RebuildList
  BY <1>6 DEF RebuildList, Repoint, OpenInv
<1>7. CASE ResetToDefaults \/ ResetApplied
  BY <1>7, LoadedView DEF ResetToDefaults, ResetApplied, Repoint, OpenInv, SlotsInv
<1>8. CASE \E l \in Levels : SliderMoves(l)
  BY <1>8 DEF SliderMoves
<1>9. CASE \E m \in Modes : ModePicked(m)
  BY <1>9 DEF ModePicked
<1>10. CASE \E m \in Modes : TrayCommand(m)
  BY <1>10 DEF TrayCommand
<1> QED BY <1>1, <1>2, <1>3, <1>4, <1>5, <1>6, <1>7, <1>8, <1>9, <1>10 DEF Next, Commands

-----------------------------------------------------------------------------
(* The inductive invariant of the types. *)

\* The types of what the handlers work on.
ViewTypes ==
    /\ selected \in Slots /\ comboMask \subseteq Slots
    /\ modes \in {ModesOf[k] : k \in Kinds}
    /\ controls \in Settings /\ controls.mode \in modes
    /\ shownFor \in Slots \cup {None}
StoreTypes ==
    /\ saved \in [Slots -> Settings] /\ applied \in [Slots -> Settings \cup {None}]
    /\ timer \in BOOLEAN
ResetTypes == resetTo \in IF ui = "reset" THEN Settings ELSE {None}
SlotTypes ==
    /\ device \in [Slots -> Kinds \cup {None}]
    /\ present \subseteq Slots /\ owed \subseteq Slots
UiTypes ==
    /\ open \in BOOLEAN /\ ui \in {"idle", "reset", "list", "reload", "join"}
    /\ cameraIndex \in Slots \cup {None} /\ hold \in [Slots -> BOOLEAN]
    /\ edits \in 0 .. MaxEdits /\ shows \in 0 .. MaxShows
    /\ repointed \in BOOLEAN /\ astray \subseteq Slots

\* The cameras a controller has still to notice.
Unnoticed == {s \in Slots : (s \in present) # (device[s] # None)}

\* Every message posted, or owed, or to come goes back to one plug of its own.
MessagesInv ==
    /\ plugs \in 0 .. MaxPlugs /\ posted \in Nat
    /\ IsFiniteSet(owed) /\ IsFiniteSet(Unnoticed)
    /\ posted + Cardinality(owed) + Cardinality(Unnoticed) <= plugs

\* What ListCatchesUp needs besides fairness: as long as the dropdown of an open
\* dialog differs from the cameras there are, a controller is about to post, a
\* message is waiting, or a handler is on its way to rebuild the list.
ChangeIsAnnounced ==
    open /\ comboMask # Connected => owed # {} \/ posted > 0 \/ ui # "idle"

TypesInv == ViewTypes /\ StoreTypes /\ ResetTypes /\ SlotTypes /\ UiTypes /\ MessagesInv

-----------------------------------------------------------------------------
(* Settings. *)

LEMMA DefaultSettings ==
  ASSUME DialogAssumption, NEW kind \in Kinds \cup {None}
  PROVE  /\ ListedModes(kind) \in {ModesOf[k] : k \in Kinds}
         /\ Defaults(kind) \in Settings /\ Defaults(kind).mode \in ListedModes(kind)
<1> DEFINE k == IF kind = None THEN Ps3 ELSE kind
<1>1. k \in Kinds
  BY DEF DialogAssumption
<1>2. DefaultOf[k] \in ModesOf[k] /\ DefaultOf[k] \in Modes /\ DefaultLevel \in Levels
  BY <1>1 DEF DialogAssumption, Modes
<1> HIDE DEF k
<1>3. ListedModes(kind) = ModesOf[k]
      /\ Defaults(kind) = [mode |-> DefaultOf[k], level |-> DefaultLevel]
  BY DEF ListedModes, Defaults, k
<1> QED BY <1>1, <1>2, <1>3 DEF Settings

LEMMA ModeChosen ==
  ASSUME NEW s \in Settings, NEW m \in Modes
  PROVE  [s EXCEPT !.mode = m] \in Settings /\ [s EXCEPT !.mode = m].mode = m
  BY DEF Settings

LEMMA ShownSettings ==
  ASSUME DialogAssumption, NEW s \in Settings, NEW kind \in Kinds \cup {None}
  PROVE  Shown(s, kind) \in Settings /\ Shown(s, kind).mode \in ListedModes(kind)
<1>1. Fallback(kind) \in Modes /\ Fallback(kind) \in ListedModes(kind)
  BY DEF Fallback, ListedModes, Modes, DialogAssumption
<1> QED BY <1>1, ModeChosen DEF Shown

\* The view that is loaded has the types of a view.
LEMMA LoadedTypes ==
  ASSUME DialogAssumption, TargetAssumption, SlotTypes, NEW s \in Slots,
         saved' \in [Slots -> Settings], LoadControls(s)
  PROVE  ViewTypes'
<1> DEFINE r == Reachable(s)
<1>1. r \in Slots
  BY ReachableSlot DEF SlotTypes
<1>2. device[r] \in Kinds \cup {None} /\ saved'[r] \in Settings
  BY <1>1 DEF SlotTypes
<1>3. /\ comboMask' = present /\ selected' = r /\ modes' = ListedModes(device[r])
      /\ controls' = Shown(saved'[r], device[r]) /\ shownFor' = r
  BY DEF LoadControls, PopulateCameraCombo, Connected
<1> HIDE DEF r
<1> DEFINE old == saved'[r]
<1>4. Shown(old, device[r]) \in Settings
      /\ Shown(old, device[r]).mode \in ListedModes(device[r])
  <2> HIDE DEF old
  <2>1. old \in Settings
    BY <1>2 DEF old
  <2> QED BY <1>2, <2>1, ShownSettings
<1> QED BY <1>1, <1>2, <1>3, <1>4, DefaultSettings DEF ViewTypes, SlotTypes

LEMMA FlushedTypes ==
  ASSUME ViewTypes, StoreTypes, Flush
  PROVE  saved' \in [Slots -> Settings] /\ timer' = FALSE
  BY DEF ViewTypes, StoreTypes, Flush, Save

-----------------------------------------------------------------------------
(* The steps, as far as the types. *)

LEMMA StoreStep ==
  ASSUME DialogAssumption, TargetAssumption, ViewTypes, StoreTypes, ResetTypes, SlotTypes,
         [Next]_vars
  PROVE  ViewTypes' /\ StoreTypes'
<1> USE DEF vars, viewVars, storeVars, slotVars, targetVars, history
<1>1. CASE UNCHANGED <<viewVars, storeVars>>
  BY <1>1 DEF ViewTypes, StoreTypes
<1>2. CASE PersistTimer \/ Destroy
  BY <1>2, FlushedTypes DEF PersistTimer, Destroy, ViewTypes, StoreTypes
<1>3. CASE Show
  <2>1. LoadControls(selected) /\ UNCHANGED storeVars
    BY <1>3 DEF Show, View
  <2> QED BY <2>1, LoadedTypes DEF ViewTypes, StoreTypes
<1>4. ASSUME NEW s \in Slots, Flush, LoadControls(s), UNCHANGED applied
      PROVE  ViewTypes' /\ StoreTypes'
  BY <1>4, FlushedTypes, LoadedTypes DEF StoreTypes
<1>5. CASE ReloadView
  BY <1>4, <1>5 DEF ReloadView, View, ViewTypes
<1>6. CASE \E s \in Slots : CameraPicked(s)
  BY <1>4, <1>6 DEF CameraPicked, View
<1>7. CASE RebuildList
  <2>1. selected' \in Slots /\ comboMask' \subseteq Slots
    BY <1>7, ReachableSlot DEF RebuildList, PopulateCameraCombo, Connected, ViewTypes, SlotTypes
  <2> QED BY <1>7, <2>1 DEF RebuildList, ViewTypes, StoreTypes
<1>8. CASE ResetToDefaults
  <2>1. resetTo' \in Settings
    BY <1>8, DefaultSettings DEF ResetToDefaults, ViewTypes, SlotTypes
  <2>2. saved' = [saved EXCEPT ![selected] = resetTo'] /\ UNCHANGED <<viewVars, timer, applied>>
    BY <1>8 DEF ResetToDefaults, Save
  <2>3. saved' \in [Slots -> Settings]
    BY <2>1, <2>2 DEF StoreTypes
  <2> QED BY <2>2, <2>3 DEF ViewTypes, StoreTypes
<1>a. CASE ResetApplied
  <2>1. /\ resetTo \in Settings /\ LoadControls(selected) /\ UNCHANGED <<timer, saved>>
        /\ applied' = [applied EXCEPT ![selected'] = resetTo]
    BY <1>a DEF ResetApplied, ApplySettings, ResetTypes
  <2>2. applied' \in [Slots -> Settings \cup {None}] /\ saved' \in [Slots -> Settings]
    BY <2>1 DEF StoreTypes
  <2> QED BY <2>1, <2>2, LoadedTypes DEF ViewTypes, StoreTypes
<1>9. ASSUME NEW l \in Levels, SliderMoves(l) PROVE ViewTypes' /\ StoreTypes'
  <2>1. /\ controls' = [controls EXCEPT !.level = l]
        /\ applied' = [applied EXCEPT ![selected] = controls']
        /\ timer' = TRUE /\ UNCHANGED <<selected, comboMask, modes, shownFor, saved>>
    BY <1>9 DEF SliderMoves, ApplySettings
  <2>2. controls' \in Settings /\ controls'.mode = controls.mode
    BY <2>1 DEF ViewTypes, Settings
  <2>3. applied' \in [Slots -> Settings \cup {None}]
    BY <2>1, <2>2 DEF StoreTypes
  <2> QED BY <2>1, <2>2, <2>3 DEF ViewTypes, StoreTypes
<1>10. ASSUME NEW m \in Modes, ModePicked(m) PROVE ViewTypes' /\ StoreTypes'
  <2>1. /\ controls' = [controls EXCEPT !.mode = m] /\ m \in modes
        /\ applied' = [applied EXCEPT ![selected] = controls']
        /\ saved' = [saved EXCEPT ![selected] = controls']
        /\ UNCHANGED <<selected, comboMask, modes, shownFor, timer>>
    BY <1>10 DEF ModePicked, ApplySettings, Save
  <2>2. controls' \in Settings /\ controls'.mode = m
    BY <2>1, ModeChosen DEF ViewTypes
  <2>3. applied' \in [Slots -> Settings \cup {None}] /\ saved' \in [Slots -> Settings]
    BY <2>1, <2>2 DEF StoreTypes
  <2> QED BY <2>1, <2>2, <2>3 DEF ViewTypes, StoreTypes
<1>11. ASSUME NEW m \in Modes, TrayCommand(m) PROVE ViewTypes' /\ StoreTypes'
  <2> DEFINE d == [saved[0] EXCEPT !.mode = m]
  <2>1. applied' = [applied EXCEPT ![0] = d] /\ saved' = [saved EXCEPT ![0] = d]
        /\ UNCHANGED <<viewVars, timer>>
    BY <1>11 DEF TrayCommand, Save, ApplySettings
  <2>2. d \in Settings
    BY ModeChosen DEF StoreTypes, DialogAssumption
  <2> HIDE DEF d
  <2>3. applied' \in [Slots -> Settings \cup {None}] /\ saved' \in [Slots -> Settings]
    BY <2>1, <2>2 DEF StoreTypes
  <2> QED BY <2>1, <2>3 DEF ViewTypes, StoreTypes
<1>12. CASE UNCHANGED vars \/ Closed \/ RefreshCameraList \/ Controllers
  BY <1>1, <1>12 DEF Closed, RefreshCameraList, Controllers
<1> QED
  BY <1>2, <1>3, <1>5, <1>6, <1>7, <1>8, <1>a, <1>9, <1>10, <1>11, <1>12 DEF Next, Commands

\* Only a reset under way keeps defaults.
LEMMA ResetStep ==
  ASSUME DialogAssumption, ViewTypes, SlotTypes, ResetTypes, [Next]_vars
  PROVE  ResetTypes'
<1> USE DEF ResetTypes, InDialog, vars, targetVars, slotVars, viewVars, storeVars, history
<1>1. CASE ResetToDefaults
  <2>1. resetTo' \in Settings
    BY <1>1, DefaultSettings DEF ResetToDefaults, ViewTypes, SlotTypes
  <2> QED BY <1>1, <2>1 DEF ResetToDefaults
<1>2. CASE UNCHANGED vars \/ PersistTimer \/ Closed \/ RefreshCameraList \/ Destroy
  BY <1>2 DEF PersistTimer, Closed, RefreshCameraList, Destroy
<1>3. CASE Show \/ ReloadView \/ RebuildList \/ \E s \in Slots : CameraPicked(s)
  BY <1>3 DEF Show, ReloadView, RebuildList, CameraPicked
<1>4. CASE ResetApplied
  BY <1>4 DEF ResetApplied
<1>5. CASE Controllers
  BY <1>5 DEF Controllers
<1>6. CASE \/ \E l \in Levels : SliderMoves(l)
           \/ \E m \in Modes : ModePicked(m) \/ TrayCommand(m)
  BY <1>6 DEF SliderMoves, ModePicked, TrayCommand
<1> QED BY <1>1, <1>2, <1>3, <1>4, <1>5, <1>6 DEF Next, Commands

LEMMA UiStep ==
  ASSUME DialogAssumption, TargetAssumption, ViewTypes, ViewTypes', UiTypes, [Next]_vars
  PROVE  UiTypes'
<1> USE DEF UiTypes, vars, targetVars, slotVars, viewVars, storeVars, history
<1>1. CASE UNCHANGED vars \/ PersistTimer \/ RefreshCameraList \/ Controllers
  BY <1>1 DEF PersistTimer, RefreshCameraList, Controllers
<1>2. CASE Closed
  BY <1>2 DEF Closed, Forget
<1>3. CASE Destroy
  <2>1. hold' \in [Slots -> BOOLEAN]
    BY <1>3 DEF Destroy, ReleaseHold
  <2> QED BY <1>3, <2>1 DEF Destroy
<1>4. ASSUME SetCamera(selected')
      PROVE  cameraIndex' \in Slots \cup {None} /\ hold' \in [Slots -> BOOLEAN]
  BY <1>4 DEF SetCamera, ViewTypes
<1>5. CASE Show
  <2>1. shows' \in 0 .. MaxShows
    BY <1>5 DEF Show, DialogAssumption
  <2> QED BY <1>4, <1>5, <2>1 DEF Show, View
<1>6. CASE ReloadView
  BY <1>4, <1>6 DEF ReloadView, View
<1>7. CASE \E s \in Slots : CameraPicked(s)
  BY <1>4, <1>7 DEF CameraPicked, View
<1>8. CASE RebuildList
  BY <1>8 DEF RebuildList, Repoint, ViewTypes
<1>9. ASSUME Edit PROVE edits' \in 0 .. MaxEdits
  BY <1>9 DEF Edit, DialogAssumption
<1>10. CASE ResetToDefaults
  BY <1>9, <1>10 DEF ResetToDefaults
<1>a. CASE ResetApplied
  BY <1>a DEF ResetApplied, Repoint, ViewTypes
<1>11. CASE \E l \in Levels : SliderMoves(l)
  BY <1>9, <1>11 DEF SliderMoves, ViewTypes
<1>12. CASE \E m \in Modes : ModePicked(m) \/ TrayCommand(m)
  BY <1>9, <1>12, DialogAssumption DEF ModePicked, TrayCommand, ViewTypes, DialogAssumption
<1> QED
  BY <1>1, <1>2, <1>3, <1>5, <1>6, <1>7, <1>8, <1>10, <1>a, <1>11, <1>12 DEF Next, Commands

\* One element more.
LEMMA OneAtMost ==
  ASSUME NEW S, NEW x, IsFiniteSet(S)
  PROVE  IsFiniteSet(S \cup {x}) /\ Cardinality(S \cup {x}) <= Cardinality(S) + 1
<1>1. Cardinality(S) \in Nat
  BY FS_CardinalityType
<1>2. /\ IsFiniteSet(S \cup {x})
      /\ Cardinality(S \cup {x}) = IF x \in S THEN Cardinality(S) ELSE Cardinality(S) + 1
  BY FS_AddElement
<1> QED BY <1>1, <1>2

\* A message is posted once for each time a controller noticed a change, and it
\* notices one only once.
LEMMA MessagesStep ==
  ASSUME DialogAssumption, SlotTypes, MessagesInv, [Next]_vars
  PROVE  SlotTypes' /\ MessagesInv'
<1> USE DEF vars, slotVars
<1>0. /\ Cardinality(owed) \in Nat /\ Cardinality(Unnoticed) \in Nat /\ plugs \in Nat
      /\ MaxPlugs \in Nat
  BY FS_CardinalityType DEF MessagesInv, DialogAssumption
<1>1. CASE UNCHANGED slotVars
  <2>1. Unnoticed' = Unnoticed
    BY <1>1 DEF Unnoticed
  <2> QED BY <1>1, <2>1 DEF SlotTypes, MessagesInv
<1>2. CASE RefreshCameraList
  <2>1. posted' = posted - 1 /\ posted > 0 /\ UNCHANGED <<device, present, owed, plugs>>
    BY <1>2 DEF RefreshCameraList
  <2>2. Unnoticed' = Unnoticed
    BY <2>1 DEF Unnoticed
  <2> QED BY <1>0, <2>1, <2>2 DEF SlotTypes, MessagesInv
<1>3. ASSUME NEW s \in Slots, NEW kind \in Kinds \cup {None}, PlugChanges(s, kind)
      PROVE  SlotTypes' /\ MessagesInv'
  <2>1. /\ plugs' = plugs + 1 /\ plugs' \in 0 .. MaxPlugs /\ UNCHANGED <<present, owed, posted>>
        /\ (device[s] = None) # (kind = None) /\ device' = [device EXCEPT ![s] = kind]
    BY <1>0, <1>3 DEF PlugChanges
  <2>2. SlotTypes'
    BY <2>1 DEF SlotTypes
  <2>3. Unnoticed' \subseteq Unnoticed \cup {s}
    BY <2>1 DEF Unnoticed, SlotTypes
  <2>4. /\ IsFiniteSet(Unnoticed \cup {s})
        /\ Cardinality(Unnoticed \cup {s}) <= Cardinality(Unnoticed) + 1
    BY OneAtMost DEF MessagesInv
  <2> DEFINE U == Unnoticed \cup {s}
             V == {t \in Slots : (t \in present) # ([device EXCEPT ![s] = kind][t] # None)}
  <2>5. Unnoticed' = V
    BY <2>1 DEF Unnoticed
  <2>6. IsFiniteSet(V) /\ Cardinality(V) \in Nat /\ Cardinality(V) <= Cardinality(Unnoticed) + 1
    <3>1. V \subseteq U /\ IsFiniteSet(U)
      BY <2>3, <2>4, <2>5
    <3> HIDE DEF V
    <3>2. IsFiniteSet(V) /\ Cardinality(V) <= Cardinality(U)
      BY <3>1, FS_Subset
    <3>3. Cardinality(U) \in Nat /\ Cardinality(V) \in Nat
      BY <3>1, <3>2, FS_CardinalityType
    <3> QED BY <1>0, <2>4, <3>2, <3>3
  <2> HIDE DEF V
  <2> QED BY <1>0, <2>1, <2>2, <2>5, <2>6 DEF MessagesInv
<1>4. ASSUME NEW s \in Slots, SetState(s) PROVE SlotTypes' /\ MessagesInv'
  <2>1. /\ s \notin owed /\ s \in Unnoticed /\ owed' = owed \cup {s}
        /\ UNCHANGED <<device, posted, plugs>>
        /\ present' = IF device[s] = None THEN present \ {s} ELSE present \cup {s}
    BY <1>4 DEF SetState, Unnoticed
  <2>2. SlotTypes'
    BY <2>1 DEF SlotTypes
  <2>3. Unnoticed' = Unnoticed \ {s}
    BY <2>1 DEF Unnoticed
  <2>4. /\ IsFiniteSet(owed \cup {s}) /\ Cardinality(owed \cup {s}) = Cardinality(owed) + 1
    BY <2>1, FS_AddElement DEF MessagesInv
  <2>5. /\ IsFiniteSet(Unnoticed \ {s})
        /\ Cardinality(Unnoticed \ {s}) = Cardinality(Unnoticed) - 1
    BY <2>1, FS_RemoveElement DEF MessagesInv
  <2> QED BY <1>0, <2>1, <2>2, <2>3, <2>4, <2>5 DEF MessagesInv
<1>5. ASSUME NEW s \in Slots, PostsState(s) PROVE SlotTypes' /\ MessagesInv'
  <2>1. /\ s \in owed /\ owed' = owed \ {s} /\ posted' = posted + 1
        /\ UNCHANGED <<device, present, plugs>>
    BY <1>5 DEF PostsState
  <2>2. Unnoticed' = Unnoticed
    BY <2>1 DEF Unnoticed
  <2>3. IsFiniteSet(owed \ {s}) /\ Cardinality(owed \ {s}) = Cardinality(owed) - 1
    BY <2>1, FS_RemoveElement DEF MessagesInv
  <2> QED BY <1>0, <2>1, <2>2, <2>3 DEF SlotTypes, MessagesInv
<1>6. CASE Controllers
  BY <1>3, <1>4, <1>5, <1>6 DEF Controllers
<1>7. CASE \/ UNCHANGED vars \/ PersistTimer \/ Closed \/ RebuildList \/ ReloadView \/ Show
           \/ ResetToDefaults \/ ResetApplied \/ Destroy
  BY <1>1, <1>7 DEF PersistTimer, Closed, RebuildList, ReloadView, Show, ResetToDefaults,
                    ResetApplied, Destroy
<1>8. CASE \/ \E l \in Levels : SliderMoves(l)
           \/ \E m \in Modes : ModePicked(m) \/ TrayCommand(m)
           \/ \E s \in Slots : CameraPicked(s)
  BY <1>1, <1>8 DEF SliderMoves, ModePicked, TrayCommand, CameraPicked
<1> QED BY <1>2, <1>6, <1>7, <1>8 DEF Next, Commands

\* Whoever changes the slots that are present owes a message; the handler of one
\* rebuilds the list or finds it as it should be.
LEMMA AnnouncedStep == MessagesInv /\ ChangeIsAnnounced /\ [Next]_vars => ChangeIsAnnounced'
<1> SUFFICES ASSUME MessagesInv, ChangeIsAnnounced, [Next]_vars PROVE ChangeIsAnnounced'
  OBVIOUS
<1> USE DEF ChangeIsAnnounced, Connected, InDialog, vars, targetVars, slotVars, viewVars
<1>1. CASE UNCHANGED vars \/ PersistTimer \/ Closed \/ Destroy
  BY <1>1 DEF PersistTimer, Closed, Destroy
<1>2. CASE Show \/ ResetToDefaults \/ ResetApplied \/ ReloadView \/ RebuildList
           \/ \E s \in Slots : CameraPicked(s)
  BY <1>2 DEF Show, ResetToDefaults, ResetApplied, ReloadView, RebuildList, CameraPicked, View,
              LoadControls, PopulateCameraCombo
<1>3. CASE \/ \E l \in Levels : SliderMoves(l)
           \/ \E m \in Modes : ModePicked(m) \/ TrayCommand(m)
  BY <1>3 DEF SliderMoves, ModePicked, TrayCommand
<1>4. CASE RefreshCameraList
  BY <1>4 DEF RefreshCameraList, Unchanged
<1>5. CASE Controllers
  <2>1. ASSUME NEW s \in Slots, PostsState(s) PROVE posted' > 0
    BY <2>1 DEF PostsState, MessagesInv
  <2>2. ASSUME NEW s \in Slots, SetState(s) PROVE owed' # {}
    BY <2>2 DEF SetState
  <2>3. ASSUME NEW s \in Slots, NEW kind \in Kinds \cup {None}, PlugChanges(s, kind)
        PROVE  UNCHANGED <<present, owed, posted>>
    BY <2>3 DEF PlugChanges
  <2> QED BY <1>5, <2>1, <2>2, <2>3 DEF Controllers
<1> QED BY <1>1, <1>2, <1>3, <1>4, <1>5 DEF Next, Commands

-----------------------------------------------------------------------------
(* The theorems. *)

\* The inductive invariant holds in every reachable state.
THEOREM Invariant == Spec => []IInv
<1>1. Init => IInv
  BY DialogAssumption, TargetAssumption
     DEF Init, TargetInit, DialogAssumption, IInv, SlotsInv, OpenInv, DebounceInv,
         HoldsWhatItShows
<1>2. IInv /\ [Next]_vars => IInv'
  BY SlotsStep, OpenStep, DebounceStep, HoldStep, DialogAssumption, TargetAssumption DEF IInv
<1> QED BY <1>1, <1>2, PTL DEF Spec

\* No edit is lost to the debounced save (SettingsDialog.cpp), also when a reset sees
\* another camera in the slot the second time it looks.
THEOREM NoEditLost == Spec => []SavedIsApplied
<1>1. IInv => SavedIsApplied
  BY DEF IInv, DebounceInv, SavedIsApplied, Pending
<1> QED BY <1>1, Invariant, PTL

\* The camera kept awake is the one shown, none once the dialog goes.
THEOREM HoldFollowsView == Spec => []HoldsWhatItShows
  BY Invariant, PTL DEF IInv

\* Types, and the messages behind each plug, hold in every reachable state.
THEOREM TypesHold == Spec => []TypesInv
<1>1. Init => TypesInv
  <2> SUFFICES ASSUME Init PROVE TypesInv
    OBVIOUS
  <2>1. Defaults(None) \in Settings /\ Defaults(None).mode \in ModesOf[Ps3] /\ Ps3 \in Kinds
    BY DefaultSettings, DialogAssumption DEF ListedModes, DialogAssumption
  <2>2. ViewTypes /\ StoreTypes
    BY <2>1, DialogAssumption DEF Init, ViewTypes, StoreTypes, DialogAssumption
  <2>3. SlotTypes
    BY DEF Init, SlotTypes
  <2>a. 0 \in 0 .. MaxEdits /\ 0 \in 0 .. MaxShows
    BY DialogAssumption DEF DialogAssumption
  <2>b. UiTypes /\ ResetTypes
    BY <2>a DEF Init, TargetInit, UiTypes, ResetTypes
  <2>4. Unnoticed = {} /\ owed = {}
    BY DEF Init, Unnoticed
  <2>5. MessagesInv
    BY <2>4, FS_EmptySet, DialogAssumption DEF Init, MessagesInv, DialogAssumption
  <2> QED BY <2>2, <2>3, <2>b, <2>5 DEF TypesInv
<1>2. TypesInv /\ [Next]_vars => TypesInv'
  <2> SUFFICES ASSUME TypesInv, [Next]_vars PROVE TypesInv'
    OBVIOUS
  <2>1. ViewTypes' /\ StoreTypes' /\ ResetTypes' /\ SlotTypes' /\ MessagesInv'
    BY StoreStep, ResetStep, MessagesStep, DialogAssumption, TargetAssumption DEF TypesInv
  <2>2. UiTypes'
    BY <2>1, UiStep, DialogAssumption, TargetAssumption DEF TypesInv
  <2> QED BY <2>1, <2>2 DEF TypesInv
<1> QED BY <1>1, <1>2, PTL DEF Spec

\* The variables have their types; of the controllers' messages there are never
\* more waiting than cameras were plugged in or out.
THEOREM TypeCorrect == Spec => []TypeOK
<1>1. IInv /\ TypesInv => TypeOK
  <2> SUFFICES ASSUME IInv, TypesInv PROVE TypeOK
    OBVIOUS
  <2>1. Cardinality(owed) \in Nat /\ Cardinality(Unnoticed) \in Nat /\ MaxPlugs \in Nat
    BY FS_CardinalityType, DialogAssumption DEF TypesInv, MessagesInv, DialogAssumption
  <2>2. posted \in 0 .. MaxPlugs /\ plugs \in 0 .. MaxPlugs
    BY <2>1 DEF TypesInv, MessagesInv
  <2>3. timer => open
    BY DEF IInv, OpenInv
  <2>4. resetTo \in Settings \cup {None}
    BY DEF TypesInv, ResetTypes
  <2> QED BY <2>2, <2>3, <2>4 DEF TypesInv, ViewTypes, StoreTypes, SlotTypes, UiTypes, TypeOK
<1> QED BY <1>1, Invariant, TypesHold, PTL

\* No change of the cameras goes unannounced to the dialog, however the posts of
\* the controllers, the handlers and the second look at the states fall.
THEOREM NoChangeMissed == Spec => []ChangeIsAnnounced
<1>1. Init => ChangeIsAnnounced
  BY DEF Init, ChangeIsAnnounced
<1>2. TypesInv /\ ChangeIsAnnounced /\ [Next]_vars => ChangeIsAnnounced'
  BY AnnouncedStep DEF TypesInv
<1> QED BY <1>1, <1>2, TypesHold, PTL DEF Spec
=============================================================================
