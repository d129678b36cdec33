-------------------------- MODULE SettingsDialog --------------------------
(***************************************************************************)
(* The host's UI thread: the settings dialog (src/host/SettingsDialog.cpp) *)
(* with its preview, the tray menu (src/host/TrayUI.cpp) and the settings  *)
(* they save in the registry (src/common/Settings.cpp).  A message handler *)
(* is one step, except where it looks twice at the controllers' states or  *)
(* the slots, or waits for the preview's worker.  The controllers' threads *)
(* notice what is plugged in and out and post WM_CONTROLLER_STATE.         *)
(*                                                                         *)
(* Of a camera's settings there are two: mode stands for the controls that *)
(* save at once, level for the sliders, saved after a pause.               *)
(***************************************************************************)
EXTENDS PreviewTarget, FiniteSetsExt

CONSTANTS
    Kinds, Ps3,     \* kinds of camera, and the one an empty slot is shown as
    ModesOf,        \* per kind, the profile's modes
    DefaultOf,      \* per kind, the profile's default mode
    FirstPs3Mode,   \* kVideoModes[0]
    Levels,         \* slider positions
    DefaultLevel,
    MaxEdits,       \* bound: commands that change settings
    MaxPlugs,       \* bound: cameras plugged in or out
    MaxShows        \* bound: times the dialog is opened

Modes == UNION {ModesOf[k] : k \in Kinds}
Settings == [mode: Modes, level: Levels]

ASSUME DialogAssumption ==
    /\ 0 \in Slots /\ Ps3 \in Kinds /\ None \notin Kinds /\ None \notin Settings
    /\ \A k \in Kinds : DefaultOf[k] \in ModesOf[k]
    /\ FirstPs3Mode \in ModesOf[Ps3] /\ DefaultLevel \in Levels
    /\ MaxEdits \in Nat /\ MaxPlugs \in Nat /\ MaxShows \in Nat

VARIABLES
    device,     \* the registry's slots: what is plugged in
    present,    \* the slots whose controller is not in CameraMissing
    owed,       \* the controllers between their store and their PostMessage
    posted,     \* WM_CONTROLLER_STATE messages in the UI thread's queue
    open, ui,   \* g_dlg, and where the UI thread is
    selected,   \* g_selectedCameraIndex
    comboMask,  \* g_comboSlotMask: the slots the dropdown lists
    modes,      \* g_modeList
    controls,   \* what the controls show
    timer,      \* the persist timer is running
    saved,      \* HKLM\SOFTWARE\PSCam4Win, by slot
    applied,    \* per slot the settings its controller was last handed
    resetTo,    \* defaults, of a ResetToDefaults under way
    edits, plugs, shows,
    shownFor,   \* history: the slot the controls were loaded for
    repointed,  \* history: the selection has moved and no view was loaded since
    astray      \* history: slots something has come between a command and its camera

targetVars == <<cameraIndex, hold>>
slotVars == <<device, present, owed, posted, plugs>>
viewVars == <<selected, comboMask, modes, controls, shownFor>>
storeVars == <<timer, saved, applied, resetTo, edits>>
history == <<repointed, astray>>
vars == <<targetVars, slotVars, viewVars, storeVars, open, ui, shows, history>>
-----------------------------------------------------------------------------
Connected == present        \* ConnectedSlotMask

Defaults(kind) == [mode  |-> DefaultOf[IF kind = None THEN Ps3 ELSE kind],
                   level |-> DefaultLevel]

ListedModes(kind) == ModesOf[IF kind = None THEN Ps3 ELSE kind]

Unclamped(s, kind) == s                                       \* mutant

(* What the controls show of settings s for that kind of camera: a mode    *)
(* that is not listed gives way to the profile's default, or, without a    *)
(* camera, to the head of the list.                                        *)
Fallback(kind) == IF kind = None THEN FirstPs3Mode ELSE DefaultOf[kind]
Shown(s, kind) ==
    IF s.mode \in ListedModes(kind) THEN s ELSE [s EXCEPT !.mode = Fallback(kind)]

Init ==
    /\ TargetInit
    /\ device \in [Slots -> Kinds \cup {None}]
    /\ present = {s \in Slots : device[s] # None}
    /\ owed = {} /\ posted = 0
    /\ open = FALSE /\ ui = "idle"
    /\ selected = 0 /\ comboMask = {} /\ modes = ModesOf[Ps3]
    /\ timer = FALSE
    /\ saved = [s \in Slots |-> Defaults(None)]
    /\ controls = Defaults(None)
    /\ applied = [s \in Slots |-> None] /\ resetTo = None
    /\ edits = 0 /\ plugs = 0 /\ shows = 0
    /\ shownFor = None /\ repointed = FALSE /\ astray = {}
-----------------------------------------------------------------------------
(* The pieces the handlers are made of.                                    *)

Save(slot, s) == saved' = [saved EXCEPT ![slot] = s]
ApplySettings(slot, s) == applied' = [applied EXCEPT ![slot] = s]

(* PopulateCameraCombo: a selection that is gone moves to the first camera.*)
Reachable(slot) == IF Connected = {} \/ slot \in Connected THEN slot ELSE Min(Connected)
PopulateCameraCombo(slot) ==
    /\ comboMask' = Connected
    /\ selected' = Reachable(slot)

(* A list rebuilt without a view may leave the selection elsewhere.        *)
Repoint == repointed' = (repointed \/ selected' # selected)

LoadControls(slot) ==
    /\ PopulateCameraCombo(slot)
    /\ LET kind == device[Reachable(slot)] IN
       /\ modes' = ListedModes(kind)
       /\ controls' = Shown(saved'[Reachable(slot)], kind)
    /\ shownFor' = Reachable(slot)

View(slot) == LoadControls(slot) /\ SetCamera(selected') /\ repointed' = FALSE

Dropped == timer' = FALSE /\ UNCHANGED saved                      \* mutant

(* A pending debounced save is done at once.                               *)
Flush ==
    /\ IF timer THEN Save(selected, controls) ELSE UNCHANGED saved
    /\ timer' = FALSE

Edit == edits < MaxEdits /\ edits' = edits + 1
InDialog == open /\ ui = "idle"
-----------------------------------------------------------------------------
(* The dialog's commands.                                                  *)

Show ==
    /\ ui = "idle" /\ ~open /\ shows < MaxShows
    /\ shows' = shows + 1 /\ open' = TRUE
    /\ UNCHANGED storeVars
    /\ View(selected)
    /\ UNCHANGED <<slotVars, ui, astray>>

(* ApplyLive: the camera at once, the registry when the timer fires.       *)
SliderMoves(l) ==
    /\ InDialog /\ Edit /\ l # controls.level
    /\ controls' = [controls EXCEPT !.level = l]
    /\ ApplySettings(selected, controls')
    /\ timer' = TRUE
    /\ astray' = astray \ {selected}
    /\ UNCHANGED <<targetVars, slotVars, selected, comboMask, modes, shownFor,
                   saved, resetTo, open, ui, shows, repointed>>

(* ApplyAndPersist.                                                        *)
ModePicked(m) ==
    /\ InDialog /\ Edit /\ m \in modes \ {controls.mode}
    /\ controls' = [controls EXCEPT !.mode = m]
    /\ ApplySettings(selected, controls')
    /\ Save(selected, controls')
    /\ astray' = astray \ {selected}
    /\ UNCHANGED <<targetVars, slotVars, selected, comboMask, modes, shownFor,
                   timer, resetTo, open, ui, shows, repointed>>

PersistTimer ==
    /\ InDialog /\ timer
    /\ Flush
    /\ UNCHANGED <<targetVars, slotVars, viewVars, applied, resetTo, edits, open, ui,
                   shows, history>>

(* The defaults are those of the camera that is in the slot...             *)
ResetToDefaults ==
    /\ InDialog /\ Edit
    /\ resetTo' = Defaults(device[selected])
    /\ Save(selected, resetTo')
    /\ ui' = "reset"
    /\ UNCHANGED <<targetVars, slotVars, viewVars, timer, applied, open, shows, history>>

(* ... and loading the controls looks again: for a camera of another kind  *)
(* they show what it has of them, which a timer still running will save;   *)
(* and the selection may move, so that the defaults go to another camera.  *)
(* Hijacked: the timer runs, and the slot's camera is not the one reset.   *)
Hijacked == timer /\ resetTo # Defaults(device[selected])

ResetApplied ==
    /\ ui = "reset"
    /\ UNCHANGED <<timer, saved>>
    /\ LoadControls(selected)
    /\ ApplySettings(selected', resetTo)
    /\ Repoint
    /\ astray' = IF selected' # selected \/ Hijacked THEN astray \cup {selected, selected'}
                 ELSE astray \ {selected}
    /\ resetTo' = None /\ ui' = "idle"
    /\ UNCHANGED <<targetVars, slotVars, edits, open, shows>>

CameraPicked(slot) ==
    /\ InDialog /\ slot \in comboMask \ {selected}
    /\ Flush
    /\ View(slot)
    /\ UNCHANGED <<slotVars, applied, resetTo, edits, open, ui, shows, astray>>

(* WM_DESTROY: the join at its end is Closed.                              *)
Destroy ==
    /\ InDialog
    /\ Flush
    /\ ReleaseHold
    /\ ui' = "join"
    /\ UNCHANGED <<cameraIndex, slotVars, viewVars, applied, resetTo, edits, open, shows,
                   history>>

Closed ==
    /\ ui = "join"
    /\ Forget
    /\ open' = FALSE /\ ui' = "idle"
    /\ UNCHANGED <<slotVars, viewVars, storeVars, shows, history>>
-----------------------------------------------------------------------------
(* WM_CONTROLLER_STATE: RefreshCameraList compares the slots' states with  *)
(* the list and then reads them again.                                     *)

SameNumber == Cardinality(comboMask) = Cardinality(Connected)          \* mutant
Unchanged == comboMask = Connected
KeepView == selected \in comboMask /\ selected \in Connected

RefreshCameraList ==
    /\ ui = "idle" /\ posted > 0
    /\ posted' = posted - 1
    /\ ui' = IF ~open \/ Unchanged THEN "idle"
             ELSE IF KeepView THEN "list" ELSE "reload"
    /\ UNCHANGED <<targetVars, device, present, owed, plugs, viewVars, storeVars,
                   open, shows, history>>

RebuildList ==
    /\ ui = "list"
    /\ PopulateCameraCombo(selected)
    /\ Repoint
    /\ astray' = IF timer /\ selected' # selected THEN astray \cup {selected, selected'}
                 ELSE astray
    /\ ui' = "idle"
    /\ UNCHANGED <<targetVars, slotVars, modes, controls, shownFor, storeVars,
                   open, shows>>

ReloadView ==
    /\ ui = "reload"
    /\ Flush
    /\ View(selected)
    /\ ui' = "idle"
    /\ UNCHANGED <<slotVars, applied, resetTo, edits, open, shows, astray>>

(* The tray menu's quick settings: camera 0's, whatever the dialog shows.  *)
TrayCommand(m) ==
    /\ ui = "idle" /\ Edit
    /\ m \in ModesOf[Ps3] \ {saved[0].mode}
    /\ LET s == [saved[0] EXCEPT !.mode = m] IN ApplySettings(0, s) /\ Save(0, s)
    /\ astray' = IF timer /\ selected = 0 THEN astray \cup {0} ELSE astray \ {0}
    /\ UNCHANGED <<targetVars, slotVars, viewVars, timer, resetTo, open, ui, shows,
                   repointed>>
-----------------------------------------------------------------------------
(* The cameras and their controllers' threads.                             *)

PlugChanges(s, kind) ==
    /\ plugs < MaxPlugs /\ plugs' = plugs + 1
    /\ (device[s] = None) # (kind = None)
    /\ device' = [device EXCEPT ![s] = kind]
    /\ UNCHANGED <<present, owed, posted>>

(* SetState: stored, then posted.                                          *)
SetState(s) ==
    /\ s \notin owed /\ (s \in present) # (device[s] # None)
    /\ present' = IF device[s] = None THEN present \ {s} ELSE present \cup {s}
    /\ owed' = owed \cup {s}
    /\ UNCHANGED <<device, posted, plugs>>

PostsState(s) ==
    /\ s \in owed
    /\ owed' = owed \ {s}
    /\ posted' = posted + 1
    /\ UNCHANGED <<device, present, plugs>>

Controllers ==
    /\ \E s \in Slots :
          \/ \E kind \in Kinds \cup {None} : PlugChanges(s, kind)
          \/ SetState(s) \/ PostsState(s)
    /\ UNCHANGED <<targetVars, viewVars, storeVars, open, ui, shows, history>>

Commands ==
    \/ Show \/ ResetToDefaults \/ Destroy
    \/ \E l \in Levels : SliderMoves(l)
    \/ \E m \in Modes : ModePicked(m) \/ TrayCommand(m)
    \/ \E s \in Slots : CameraPicked(s)

Next == Commands \/ PersistTimer \/ ResetApplied \/ Closed \/ RefreshCameraList
        \/ RebuildList \/ ReloadView \/ Controllers

Spec == Init /\ [][Next]_vars

(* The message loop keeps handling what is posted, and a controller that   *)
(* changed its state posts it.  Users, cables and timers owe nothing.      *)
FairSpec ==
    /\ Spec
    /\ WF_vars(RefreshCameraList) /\ WF_vars(RebuildList) /\ WF_vars(ReloadView)
    /\ WF_vars(ResetApplied) /\ WF_vars(Closed)
    /\ WF_vars(Controllers /\ \E s \in Slots : PostsState(s))
-----------------------------------------------------------------------------
TypeOK ==
    /\ cameraIndex \in Slots \cup {None} /\ hold \in [Slots -> BOOLEAN]
    /\ device \in [Slots -> Kinds \cup {None}]
    /\ present \subseteq Slots /\ owed \subseteq Slots /\ posted \in 0 .. MaxPlugs
    /\ open \in BOOLEAN /\ ui \in {"idle", "reset", "list", "reload", "join"}
    /\ selected \in Slots /\ comboMask \subseteq Slots
    /\ modes \in {ModesOf[k] : k \in Kinds}
    /\ controls \in Settings /\ controls.mode \in modes
    /\ timer \in BOOLEAN /\ (timer => open)
    /\ saved \in [Slots -> Settings] /\ applied \in [Slots -> Settings \cup {None}]
    /\ resetTo \in Settings \cup {None}
    /\ edits \in 0 .. MaxEdits /\ plugs \in 0 .. MaxPlugs /\ shows \in 0 .. MaxShows
    /\ shownFor \in Slots \cup {None} /\ repointed \in BOOLEAN /\ astray \subseteq Slots

(* No edit is lost to the debounce: with no save pending for it, what is   *)
(* saved of a camera is what its controller was handed last, through       *)
(* switches, resets, unplugs and closes (SettingsDialog.cpp:427-431).      *)
(* Slots go astray, until a command both saves and applies to them, when   *)
(* an edit was pending and the selection moved away under it, the camera   *)
(* was swapped inside a reset or the tray changed it; and when a reset     *)
(* moved the selection.                                                    *)
Pending(s) == s = selected /\ (timer \/ ui = "reset")
SavedIsApplied == \A s \in Slots \ astray :
    ~Pending(s) => applied[s] \in {saved[s], None}

(* The camera kept awake is the one previewed, none once the dialog goes,  *)
(* and it is the one selected, with its own controls, unless a handler     *)
(* that does not re-aim the preview has moved the selection since.         *)
HoldsWhatItShows ==
    /\ \A s \in Slots : hold[s] <=> open /\ ui # "join" /\ s = cameraIndex
    /\ open /\ ~repointed => selected = cameraIndex /\ selected = shownFor

(* The dropdown lists the cameras there are: no change of membership stays *)
(* unnoticed while the dialog is open, however the messages fall.          *)
ListCatchesUp == []<>(~open \/ ui = "join" \/ comboMask = Connected)

(* "if the viewed camera itself vanished, reloads its controls/preview"    *)
(* (SettingsDialog.h:25-26): with every message handled, the dialog's      *)
(* controls and preview are those of the camera its commands go to.        *)
ViewOfSelected ==
    InDialog /\ owed = {} /\ posted = 0 => shownFor = selected /\ cameraIndex = selected
=============================================================================
