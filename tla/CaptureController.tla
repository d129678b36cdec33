-------------------------- MODULE CaptureController --------------------------
(***************************************************************************)
(* The camera thread of src/host/CaptureController.cpp: the sleep/wake     *)
(* state machine of one slot, with everything that races it.  The tray     *)
(* (UI) thread hands it settings and the preview's hold, the Frame         *)
(* Server's media source stamps the ControlBus and pulses its wake event,  *)
(* the user plugs and unplugs cameras, and MF and USB calls fail.          *)
(*                                                                         *)
(* One step of the thread lies between two reads of state others write.    *)
(* Time is abstract: fresh says that the last keepalive is younger than    *)
(* idleTimeoutMs; a timed wait may end at any moment.  A settings snapshot *)
(* is a video mode and a value standing for all sensor settings.           *)
(***************************************************************************)
EXTENDS Integers

CONSTANTS
    Modes,         \* video modes
    Sensors,       \* values of the sensor settings
    Profiles,      \* device types, Ps3Eye among them
    Ps3Eye,        \* the profile an empty slot advertises
    Serves,        \* Serves[p]: the modes profile p advertises
    Default,       \* Default[p]: its default mode
    None,          \* no device, no profile
    LostAfter,     \* timeouts in a row that mean "device lost" (4)
    MaxMoves       \* bound on what users and applications do of their own accord

ASSUME ControllerAssumption ==
    /\ Ps3Eye \in Profiles /\ None \notin Profiles
    /\ Serves \in [Profiles -> SUBSET Modes]
    /\ Default \in [Profiles -> Modes]
    /\ \A p \in Profiles : Default[p] \in Serves[p]
    /\ LostAfter \in Nat \ {0}
    /\ MaxMoves \in Nat

VARIABLES
    \* the world
    occupant,         \* profile of the camera in the slot, or None
    notice,           \* WM_DEVICECHANGE not yet handled by the tray
    vcamApi,          \* MFCreateVirtualCamera exists
    moves,            \* voluntary acts so far (bookkeeping of the bound)
    \* ControlBus and events
    fresh, wake, cmd, rescan, stop,
    \* members other threads see
    desired, settingsDirty, pendingMode, previewHold, externalClient, state,
    mirror,           \* _active
    \* the tray thread and the streaming client
    ui, client,
    \* the camera thread
    pc, phase,
    active,           \* its own copy of the settings
    device,           \* the opened camera, or None
    vcamLive, retryLater, publishedProfile, present, timeouts,
    \* the bus
    busMode, busImage, cold

slot    == <<occupant, notice, vcamApi>>
world   == <<slot, moves>>
shared  == <<desired, settingsDirty, previewHold>>
others  == <<ui, client>>
bus     == <<busMode, busImage, cold>>
thread  == <<pc, phase, active, device, vcamLive, retryLater, publishedProfile, present,
             timeouts>>
seen    == <<pendingMode, externalClient, state, mirror>>   \* written by the thread
events  == <<fresh, wake, cmd, rescan, stop>>
vars    == <<world, events, shared, seen, others, thread, bus>>

Settings == [mode: Modes, sensor: Sensors]

SameMode(s, t) == s.mode = t.mode
HasMode(p, m) == m \in Serves[p]
-----------------------------------------------------------------------------
(* The world.  Plugging, opening, choosing and quitting are voluntary.     *)

Move == moves < MaxMoves /\ moves' = moves + 1

Plug(p) ==
    /\ Move
    /\ occupant = None
    /\ occupant' = p /\ notice' = TRUE
    /\ UNCHANGED <<vcamApi, events, shared, seen, others, thread, bus>>

Unplug ==
    /\ Move
    /\ occupant # None
    /\ occupant' = None /\ notice' = TRUE
    /\ device' = IF device = None THEN None ELSE [device EXCEPT !.alive = FALSE]
    /\ UNCHANGED <<vcamApi, events, shared, seen, others, pc, phase, active, vcamLive,
                   retryLater, publishedProfile, present, timeouts, bus>>

(* The keepalive goes stale once no client stamps it any more.             *)
Expire ==
    /\ fresh /\ client = "off"
    /\ fresh' = FALSE
    /\ UNCHANGED <<world, wake, cmd, rescan, stop, shared, seen, others, thread, bus>>

RetryDue ==
    /\ retryLater /\ retryLater' = FALSE
    /\ UNCHANGED <<world, events, shared, seen, others, pc, phase, active, device, vcamLive,
                   publishedProfile, present, timeouts, bus>>
-----------------------------------------------------------------------------
(* The client: a media stream of the Frame Server.  Starting one, and each *)
(* sample requested of it, pings: stamp first, then the wake event.        *)

ClientStarts ==
    /\ Move
    /\ client = "off" /\ vcamLive
    /\ client' = "stamp"
    /\ UNCHANGED <<slot, events, shared, seen, ui, thread, bus>>

Stamp ==
    /\ client = "stamp" /\ pc \notin {"start", "exited"}
    /\ fresh' = TRUE /\ client' = "signal"
    /\ UNCHANGED <<world, wake, cmd, rescan, stop, shared, seen, ui, thread, bus>>

(* Pulsed on every forced ping and on a plain one once a second.           *)
SignalWakeForgotten ==                                         \* mutant
    /\ client = "signal" /\ client' = "on"
    /\ UNCHANGED <<world, events, shared, seen, ui, thread, bus>>
SignalWake ==
    /\ client = "signal"
    /\ wake' = TRUE /\ client' = "on"
    /\ UNCHANGED <<world, fresh, cmd, rescan, stop, shared, seen, ui, thread, bus>>

RequestSample ==
    /\ client = "on"
    /\ client' = "stamp"
    /\ UNCHANGED <<world, events, shared, seen, ui, thread, bus>>

ClientStops ==
    /\ Move
    /\ client = "on"
    /\ client' = "off"
    /\ UNCHANGED <<slot, events, shared, seen, ui, thread, bus>>
-----------------------------------------------------------------------------
(* The tray thread.                                                        *)

(* UpdateSettings: the snapshot, then the flag, then the event.            *)
UpdateSettings(s) ==
    /\ Move
    /\ ui = "idle" /\ ~stop
    /\ desired' = s /\ ui' = "dirty"
    /\ UNCHANGED <<slot, events, settingsDirty, previewHold, seen, client, thread, bus>>

MarkDirty ==
    /\ ui = "dirty"
    /\ settingsDirty' = TRUE /\ ui' = "poke"
    /\ UNCHANGED <<world, events, desired, previewHold, seen, client, thread, bus>>

SetCmdEvent ==
    /\ ui = "poke"
    /\ cmd' = TRUE /\ ui' = "idle"
    /\ UNCHANGED <<world, fresh, wake, rescan, stop, shared, seen, client, thread, bus>>

SetPreviewHold(held) ==
    /\ Move
    /\ ui = "idle" /\ ~stop /\ previewHold # held
    /\ previewHold' = held
    /\ ui' = IF held THEN "poke" ELSE "idle"
    /\ UNCHANGED <<slot, events, desired, settingsDirty, seen, client, thread, bus>>

NotifyDeviceChange ==
    /\ notice /\ ui = "idle"
    /\ notice' = FALSE /\ rescan' = TRUE
    /\ UNCHANGED <<occupant, vcamApi, moves, fresh, wake, cmd, stop, shared, seen, others, thread,
                   bus>>

Stop ==
    /\ Move
    /\ ui = "idle" /\ ~stop
    /\ stop' = TRUE
    /\ UNCHANGED <<slot, fresh, wake, cmd, rescan, shared, seen, others, thread, bus>>
-----------------------------------------------------------------------------
(* The camera thread: start-up.                                            *)

Goto(next) == pc' = next
Enter(p) == phase' = p /\ pc' = "top"

(* PublishColdBlock looks the slot up again, on its own.                   *)
PublishColdBlock == cold' = IF occupant = None THEN Ps3Eye ELSE occupant

Run ==
    /\ pc = "start"
    /\ busMode' = active.mode /\ busImage' = "black" /\ PublishColdBlock
    /\ state' = IF vcamApi THEN state ELSE "Fatal"
    /\ Enter("asleep")
    /\ UNCHANGED <<world, events, shared, pendingMode, externalClient, mirror, others,
                   active, device, vcamLive, retryLater, publishedProfile, present, timeouts>>

RunFails ==
    /\ pc = "start"
    /\ state' = "Fatal" /\ Goto("exited")
    /\ UNCHANGED <<world, events, shared, pendingMode, externalClient, mirror, others,
                   phase, active, device, vcamLive, retryLater, publishedProfile, present,
                   timeouts, bus>>
-----------------------------------------------------------------------------
(* The camera thread: settings.                                            *)

UpdateFormat(m) == busMode' = m /\ busImage' = "black" /\ UNCHANGED cold

(* The flag is cleared before the snapshot is read: a snapshot stored in   *)
(* between is read now or drained once more.                               *)
TakeDirty(dirty, clean) ==
    /\ settingsDirty' = FALSE
    /\ Goto(IF settingsDirty THEN dirty ELSE clean)

(* The rest of drainSettings.                                              *)
DrainOff ==
    /\ active' = desired /\ mirror' = desired
    /\ IF SameMode(desired, active)
       THEN UNCHANGED <<pendingMode, bus>>
       ELSE UpdateFormat(desired.mode) /\ pendingMode' = FALSE
    /\ UNCHANGED device

DrainLiveAtOnce ==                                             \* mutant
    /\ active' = desired /\ mirror' = active'
    /\ UpdateFormat(desired.mode)
    /\ device' = [device EXCEPT !.sensor = desired.sensor]
    /\ UNCHANGED pendingMode
DrainLiveForgetting ==                                         \* mutant
    /\ active' = [desired EXCEPT !.mode = active.mode] /\ mirror' = active'
    /\ device' = [device EXCEPT !.sensor = desired.sensor]
    /\ UNCHANGED <<pendingMode, bus>>
DrainLiveNotPushed ==                                          \* mutant
    /\ active' = [desired EXCEPT !.mode = active.mode] /\ mirror' = active'
    /\ pendingMode' = (pendingMode \/ ~SameMode(desired, active))
    /\ UNCHANGED <<device, bus>>
DrainLive ==
    /\ active' = [desired EXCEPT !.mode = active.mode] /\ mirror' = active'
    /\ pendingMode' = (pendingMode \/ ~SameMode(desired, active))
    /\ device' = [device EXCEPT !.sensor = desired.sensor]
    /\ UNCHANGED bus

(* A pass of Asleep or Waking begins with drainSettings(false) and         *)
(* applyPendingMode(), which drains again when a mode change is pending.   *)
AfterDrain(waiting) == IF waiting THEN "pending" ELSE "check"

BeginPass ==
    /\ pc = "top" /\ phase \in {"asleep", "waking"}
    /\ wake' = (wake /\ phase = "waking")                       \* ResetWake
    /\ TakeDirty("apply", AfterDrain(pendingMode))
    /\ UNCHANGED <<world, fresh, cmd, rescan, stop, desired, previewHold, seen, others, phase,
                   active, device, vcamLive, retryLater, publishedProfile, present, timeouts,
                   bus>>

ApplyDesired ==
    /\ pc = "apply" /\ DrainOff /\ Goto(AfterDrain(pendingMode'))
    /\ UNCHANGED <<world, events, shared, externalClient, state, others, phase, vcamLive,
                   retryLater, publishedProfile, present, timeouts>>

ApplyPendingMode ==
    /\ pc \in {"pending", "retire"}
    /\ settingsDirty' = FALSE
    /\ Goto(IF pc = "pending" THEN "applypending" ELSE "applyretire")
    /\ UNCHANGED <<world, events, desired, previewHold, seen, others, phase, active, device,
                   vcamLive, retryLater, publishedProfile, present, timeouts, bus>>

ApplyPendingDesired ==
    /\ pc \in {"applypending", "applyretire"} /\ DrainOff
    /\ Goto(IF pc = "applypending" THEN "check" ELSE "top")
    /\ UNCHANGED <<world, events, shared, externalClient, state, others, phase, vcamLive,
                   retryLater, publishedProfile, present, timeouts>>
-----------------------------------------------------------------------------
(* The camera thread: Asleep.                                              *)

(* Reconcile with the slot's occupant; re-advertise a new one.             *)
Reconcile ==
    /\ pc = "check" /\ phase = "asleep"
    /\ present' = (vcamApi /\ occupant # None)
    /\ IF present' /\ occupant # publishedProfile
       THEN /\ publishedProfile' = occupant /\ Goto("coldblock")
            /\ IF HasMode(occupant, active.mode)
               THEN UNCHANGED <<active, mirror, pendingMode, bus>>
               ELSE /\ active' = [active EXCEPT !.mode = Default[occupant]]
                    /\ mirror' = active'
                    /\ UpdateFormat(Default[occupant]) /\ pendingMode' = FALSE
       ELSE /\ Goto("register")
            /\ UNCHANGED <<publishedProfile, active, mirror, pendingMode, bus>>
    /\ UNCHANGED <<world, events, shared, externalClient, state, others, phase, device,
                   vcamLive, retryLater, timeouts>>

Readvertise ==
    /\ pc = "coldblock" /\ PublishColdBlock /\ Goto("register")
    /\ UNCHANGED <<world, events, shared, seen, others, phase, active, device, vcamLive,
                   retryLater, publishedProfile, present, timeouts, busMode, busImage>>

(* tryRegisterVCam and unregisterVCam.                                     *)
RegisterVCam ==
    \/ vcamLive' = TRUE /\ UNCHANGED <<retryLater, state>>
    \/ retryLater' = TRUE /\ state' = "VCamFailed" /\ UNCHANGED vcamLive

UnregisterVCam == vcamLive' = FALSE /\ retryLater' = (retryLater /\ ~vcamLive)

Register ==
    /\ pc = "register" /\ Goto("fresh")
    /\ \/ present /\ ~vcamLive /\ ~retryLater /\ RegisterVCam
       \/ /\ present => vcamLive \/ retryLater
          /\ ~present => ~vcamLive
          /\ UNCHANGED <<vcamLive, retryLater, state>>
       \/ ~present /\ vcamLive /\ UnregisterVCam /\ UNCHANGED state
    /\ UNCHANGED <<world, events, shared, pendingMode, externalClient, mirror, others, phase,
                   active, device, publishedProfile, present, timeouts, bus>>

ClientFresh == externalClient' = fresh
WantsCamera == fresh \/ previewHold

(* Reset, THEN re-check: a client that stamped before the reset is seen    *)
(* here, one that stamps later leaves the wake event set.                  *)
AnybodyThere ==
    /\ pc = "fresh"
    /\ IF vcamLive THEN ClientFresh ELSE UNCHANGED externalClient
    /\ IF vcamLive /\ WantsCamera THEN Enter("waking") ELSE Goto("park") /\ UNCHANGED phase
    /\ UNCHANGED <<world, events, shared, pendingMode, state, mirror, others, active, device,
                   vcamLive, retryLater, publishedProfile, present, timeouts, bus>>

ParkResettingWake ==                                           \* mutant
    /\ pc = "park" /\ Goto("sleep") /\ wake' = FALSE
    /\ UNCHANGED <<world, fresh, cmd, rescan, stop, shared, seen, others, phase, active, device,
                   vcamLive, retryLater, publishedProfile, present, timeouts, bus>>
Park ==
    /\ pc = "park" /\ Goto("sleep")
    /\ state' = IF ~vcamApi THEN state
                ELSE IF ~present THEN "CameraMissing"
                ELSE IF vcamLive THEN "Asleep" ELSE "VCamFailed"
    /\ UNCHANGED <<world, events, shared, pendingMode, externalClient, mirror, others, phase,
                   active, device, vcamLive, retryLater, publishedProfile, present, timeouts,
                   bus>>

(* WaitForMultipleObjects: the first signalled event of the array ends it. *)
SleepEndsButRescan ==                                          \* mutant
    /\ pc = "sleep" /\ (stop \/ cmd \/ wake)
    /\ Goto(IF stop THEN "teardown" ELSE "top")
    /\ cmd' = (cmd /\ stop) /\ wake' = (wake /\ (stop \/ cmd)) /\ UNCHANGED rescan
    /\ UNCHANGED <<world, fresh, stop, shared, seen, others, phase, active, device, vcamLive,
                   retryLater, publishedProfile, present, timeouts, bus>>
SleepEndsButStop ==                                            \* mutant
    /\ pc = "sleep" /\ (stop \/ cmd \/ wake \/ rescan)
    /\ Goto("top")
    /\ UNCHANGED <<world, events, shared, seen, others, phase, active, device, vcamLive,
                   retryLater, publishedProfile, present, timeouts, bus>>
SleepEnds ==
    /\ pc = "sleep"
    /\ \/ stop /\ Goto("teardown") /\ UNCHANGED <<cmd, wake, rescan>>
       \/ /\ ~stop /\ (cmd \/ wake \/ rescan)
          /\ cmd' = FALSE /\ wake' = (wake /\ cmd) /\ rescan' = (rescan /\ (cmd \/ wake))
          /\ Goto("top")
    /\ UNCHANGED <<world, fresh, stop, shared, seen, others, phase, active, device, vcamLive,
                   retryLater, publishedProfile, present, timeouts, bus>>

(* Its time-out: the arrival poll, or the next registration attempt.       *)
SleepTimesOut ==
    /\ pc = "sleep" /\ vcamApi /\ (~present \/ ~vcamLive)
    /\ ~(stop \/ cmd \/ wake \/ rescan)
    /\ Goto("top")
    /\ retryLater' = IF present THEN FALSE ELSE retryLater
    /\ UNCHANGED <<world, events, shared, seen, others, phase, active, device, vcamLive,
                   publishedProfile, present, timeouts, bus>>
-----------------------------------------------------------------------------
(* The camera thread: Waking.                                              *)

StillWanted ==
    /\ pc = "check" /\ phase = "waking"
    /\ ClientFresh
    /\ IF WantsCamera
       THEN state' = "Waking" /\ Goto("acquire") /\ UNCHANGED phase
       ELSE Enter("asleep") /\ UNCHANGED state
    /\ UNCHANGED <<world, events, shared, pendingMode, mirror, others, active, device,
                   vcamLive, retryLater, publishedProfile, present, timeouts, bus>>

(* wakeCamera: the registry has a device for the slot...                   *)
Acquire ==
    /\ pc = "acquire"
    /\ IF occupant = None
       THEN UnregisterVCam /\ state' = "CameraMissing" /\ Enter("asleep") /\ UNCHANGED device
       ELSE /\ device' = [profile |-> occupant, mode |-> active.mode,
                          sensor |-> active.sensor, alive |-> TRUE]
            /\ Goto("init") /\ UNCHANGED <<vcamLive, retryLater, state, phase>>
    /\ UNCHANGED <<world, events, shared, pendingMode, externalClient, mirror, others, active,
                   publishedProfile, present, timeouts, bus>>

(* ... that Init, ApplySettings and Start bring up...                      *)
InitSucceeds ==
    /\ pc = "init" /\ device.alive
    /\ state' = "Streaming" /\ timeouts' = 0 /\ Enter("streaming")
    /\ UNCHANGED <<world, events, shared, pendingMode, externalClient, mirror, others, active,
                   device, vcamLive, retryLater, publishedProfile, present, bus>>

(* ... or fail to.                                                         *)
InitFails ==
    /\ pc = "init"
    /\ device' = None /\ state' = "CameraMissing" /\ Goto("brief")
    /\ UNCHANGED <<world, events, shared, pendingMode, externalClient, mirror, others, phase,
                   active, vcamLive, retryLater, publishedProfile, present, timeouts, bus>>

(* Two seconds, a settings command, or stop.                               *)
BriefWaitEnds ==
    /\ pc = "brief"
    /\ IF stop THEN Goto("teardown") /\ UNCHANGED cmd ELSE Goto("top") /\ cmd' = FALSE
    /\ UNCHANGED <<world, fresh, wake, rescan, stop, shared, seen, others, phase, active,
                   device, vcamLive, retryLater, publishedProfile, present, timeouts, bus>>
-----------------------------------------------------------------------------
(* The camera thread: Streaming.                                           *)

StopStreaming ==
    /\ pc = "top" /\ phase = "streaming" /\ stop
    /\ Goto("teardown")
    /\ UNCHANGED <<world, events, shared, seen, others, phase, active, device, vcamLive,
                   retryLater, publishedProfile, present, timeouts, bus>>

PublishFrame ==
    /\ pc = "top" /\ phase = "streaming" /\ ~stop /\ device.alive
    /\ timeouts' = 0 /\ busImage' = "camera" /\ Goto("live")
    /\ UNCHANGED <<world, events, shared, seen, others, phase, active, device, vcamLive,
                   retryLater, publishedProfile, present, busMode, cold>>

(* Nobody blackens the picture of a camera that is given up.               *)
LeaveImage ==
    /\ busImage' = IF busImage = "camera" THEN "left" ELSE busImage
    /\ UNCHANGED <<busMode, cold>>

(* AcquireFrame times out; after several in a row the camera is given up.  *)
FrameTimesOutLate ==                                           \* mutant
    /\ pc = "top" /\ phase = "streaming" /\ ~stop
    /\ timeouts' = timeouts + 1
    /\ IF timeouts' > LostAfter
       THEN device' = None /\ Enter("waking") /\ LeaveImage
       ELSE Goto("live") /\ UNCHANGED <<device, phase, bus>>
    /\ UNCHANGED <<world, events, shared, seen, others, active, vcamLive, retryLater,
                   publishedProfile, present>>
FrameTimesOut ==
    /\ pc = "top" /\ phase = "streaming" /\ ~stop
    /\ timeouts' = timeouts + 1
    /\ IF timeouts' >= LostAfter
       THEN device' = None /\ Enter("waking") /\ LeaveImage
       ELSE Goto("live") /\ UNCHANGED <<device, phase, bus>>
    /\ UNCHANGED <<world, events, shared, seen, others, active, vcamLive, retryLater,
                   publishedProfile, present>>

DrainWhileLive ==
    /\ pc = "live" /\ TakeDirty("applylive", "idlecheck")
    /\ UNCHANGED <<world, events, desired, previewHold, seen, others, phase, active, device,
                   vcamLive, retryLater, publishedProfile, present, timeouts, bus>>

ApplyDesiredLive ==
    /\ pc = "applylive" /\ DrainLive /\ Goto("idlecheck")
    /\ UNCHANGED <<world, events, shared, externalClient, state, others, phase, vcamLive,
                   retryLater, publishedProfile, present, timeouts>>

IsPreviewOnly == previewHold /\ ~externalClient

(* releaseCamera and PublishBlack, when nobody needs this stream.          *)
ReleaseForgotten ==                                            \* mutant
    /\ busImage' = "black" /\ UNCHANGED <<device, busMode, cold>>
    /\ phase' = "asleep" /\ Goto(IF pendingMode THEN "retire" ELSE "top")
Release ==
    /\ device' = None /\ busImage' = "black" /\ UNCHANGED <<busMode, cold>>
    /\ phase' = "asleep" /\ Goto(IF pendingMode THEN "retire" ELSE "top")

IdleCheck ==
    /\ pc = "idlecheck"
    /\ IF pendingMode /\ IsPreviewOnly
       THEN Release /\ UNCHANGED externalClient
       ELSE /\ ClientFresh
            /\ \/ WantsCamera /\ Goto("top") /\ UNCHANGED <<device, phase, bus>>
               \/ ~WantsCamera /\ Release
    /\ UNCHANGED <<world, events, shared, pendingMode, state, mirror, others, active,
                   vcamLive, retryLater, publishedProfile, present, timeouts>>

Teardown ==
    /\ pc = "teardown"
    /\ device' = None /\ busImage' = "black" /\ UnregisterVCam /\ Goto("exited")
    /\ UNCHANGED <<world, events, shared, seen, others, phase, active, publishedProfile,
                   present, timeouts, busMode, cold>>
-----------------------------------------------------------------------------
(* Start loads the persisted settings and makes them fit the occupant.     *)
Init ==
    /\ occupant \in Profiles \cup {None} /\ notice = FALSE /\ vcamApi \in BOOLEAN
    /\ moves = 0
    /\ fresh = FALSE /\ wake = FALSE /\ cmd = FALSE /\ rescan = FALSE /\ stop = FALSE
    /\ desired \in {s \in Settings : occupant = None \/ HasMode(occupant, s.mode)}
    /\ settingsDirty = FALSE /\ pendingMode = FALSE /\ previewHold = FALSE
    /\ externalClient = FALSE /\ state = "Starting" /\ mirror = desired
    /\ ui = "idle" /\ client = "off"
    /\ pc = "start" /\ phase = "asleep" /\ active = desired /\ device = None
    /\ vcamLive = FALSE /\ retryLater = FALSE /\ publishedProfile = None /\ present = FALSE
    /\ timeouts = 0
    /\ busMode = desired.mode /\ busImage = "black" /\ cold = Ps3Eye

WorldNext  == (\E p \in Profiles : Plug(p)) \/ Unplug \/ Expire \/ RetryDue
ClientNext == ClientStarts \/ Stamp \/ SignalWake \/ RequestSample \/ ClientStops
TrayNext   ==
    \/ \E s \in Settings : UpdateSettings(s)
    \/ MarkDirty \/ SetCmdEvent \/ (\E held \in BOOLEAN : SetPreviewHold(held))
    \/ NotifyDeviceChange \/ Stop
ThreadNext ==
    \/ Run \/ RunFails
    \/ BeginPass \/ ApplyDesired \/ ApplyPendingMode \/ ApplyPendingDesired
    \/ Reconcile \/ Readvertise \/ Register \/ AnybodyThere \/ Park \/ SleepEnds \/ SleepTimesOut
    \/ StillWanted \/ Acquire \/ InitSucceeds \/ InitFails \/ BriefWaitEnds
    \/ StopStreaming \/ PublishFrame \/ FrameTimesOut \/ DrainWhileLive \/ ApplyDesiredLive
    \/ IdleCheck \/ Teardown

Next == WorldNext \/ ClientNext \/ TrayNext \/ ThreadNext

Spec == Init /\ [][Next]_vars

(* The threads run; what the tray began it finishes; a consuming client    *)
(* keeps asking for samples.  MF and USB do not fail for ever.             *)
Fairness ==
    /\ WF_vars(ThreadNext)
    /\ WF_vars(MarkDirty \/ SetCmdEvent) /\ SF_vars(NotifyDeviceChange)
    /\ WF_vars(Stamp) /\ WF_vars(SignalWake) /\ WF_vars(RequestSample)
    /\ WF_vars(Expire) /\ WF_vars(RetryDue)
    /\ SF_vars(Register /\ vcamLive') /\ SF_vars(InitSucceeds)

FairSpec == Spec /\ Fairness
-----------------------------------------------------------------------------
(* Properties.                                                             *)

Devices == [profile: Profiles, mode: Modes, sensor: Sensors, alive: BOOLEAN]

FlagsOK ==
    /\ notice \in BOOLEAN /\ vcamApi \in BOOLEAN /\ fresh \in BOOLEAN /\ wake \in BOOLEAN
    /\ cmd \in BOOLEAN /\ rescan \in BOOLEAN /\ stop \in BOOLEAN /\ settingsDirty \in BOOLEAN
    /\ pendingMode \in BOOLEAN /\ previewHold \in BOOLEAN /\ externalClient \in BOOLEAN
    /\ vcamLive \in BOOLEAN /\ retryLater \in BOOLEAN /\ present \in BOOLEAN

DataOK ==
    /\ occupant \in Profiles \cup {None} /\ publishedProfile \in Profiles \cup {None}
    /\ moves \in 0 .. MaxMoves /\ timeouts \in 0 .. LostAfter
    /\ desired \in Settings /\ active \in Settings /\ mirror \in Settings
    /\ state \in {"Starting", "Asleep", "Waking", "Streaming", "CameraMissing", "VCamFailed",
                  "Fatal"}
    /\ ui \in {"idle", "dirty", "poke"} /\ client \in {"off", "stamp", "signal", "on"}
    /\ pc \in {"start", "top", "apply", "pending", "applypending", "check",
               "coldblock", "register", "fresh", "park", "sleep", "acquire", "init", "brief",
               "live", "applylive", "idlecheck", "retire", "applyretire", "teardown", "exited"}
    /\ phase \in {"asleep", "waking", "streaming"}
    /\ device \in Devices \cup {None}
    /\ busMode \in Modes /\ busImage \in {"black", "camera", "left"} /\ cold \in Profiles

(* Every variable has its type; in particular the timeouts never pass the  *)
(* count at which the camera is given up.                                  *)
TypeOK == FlagsOK /\ DataOK

(* The opened camera runs with the thread's own settings and the bus       *)
(* announces its mode: a mode that arrives while it streams is left alone  *)
(* until it is off (CaptureController.cpp:322-338).                        *)
CameraRunsActive ==
    device # None => /\ device.mode = active.mode /\ device.sensor = active.sensor
                     /\ busMode = active.mode

(* "ASLEEP camera fully released" (CaptureController.h:7), and "no stale   *)
(* image lingers" in the section it leaves (FrameBus.h:249-251): the       *)
(* camera runs only awake and behind a registered virtual camera, and a    *)
(* sleeping one's bus is black, or has the last picture of a camera that   *)
(* was lost, never of one that was released.                               *)
AsleepIsDark ==
    /\ device # None => phase # "asleep" /\ vcamLive /\ pc # "exited"
    /\ pc = "sleep" => busImage # "camera"

(* "Lost-wakeup-free order: reset, THEN re-check freshness"                *)
(* (CaptureController.cpp:418): a thread parked on its events whose client *)
(* has completed a ping has the wake event set.                            *)
WakeNotLost ==
    pc = "sleep" /\ vcamLive /\ fresh /\ client = "on" => wake

(* No lost update between UpdateSettings and drainSettings: what the tray  *)
(* asked for is in use or on its way, that is still flagged, being         *)
(* drained, or (a mode) queued.  A mode that some camera does not serve    *)
(* may have given way to the default of one that came (readvertiseSlot).   *)
OnItsWay ==
    \/ settingsDirty \/ ui = "dirty"
    \/ pc \in {"apply", "applylive", "applypending", "applyretire"}

GaveWay ==
    /\ \E p \in Profiles : ~HasMode(p, desired.mode)
    /\ \E p \in Profiles : active.mode = Default[p]

SettingsKept ==
    /\ desired.sensor # active.sensor => OnItsWay
    /\ desired.mode # active.mode => OnItsWay \/ pendingMode \/ GaveWay

Settled(s) == desired = s /\ ui = "idle"
Idle == client = "off" /\ ~previewHold
Occupied == \E p \in Profiles : <>[](occupant = p)

(* Once the tray rests, its sensor settings reach the mirror and the       *)
(* camera, whatever the thread was doing when they came.                   *)
SettingsApplied ==
    \A s \in Settings :
        <>[]Settled(s) => <>[](/\ mirror.sensor = s.sensor \/ pc = "exited"
                              /\ device # None => device.sensor = s.sensor)

(* A client that keeps asking is served again and again as long as a       *)
(* camera stays plugged in, after a loss of the camera too.                *)
ClientServed ==
    Occupied /\ <>[](client # "off" /\ vcamApi /\ ~stop) =>
        []<>(phase = "streaming" \/ pc = "exited")

(* "back to ASLEEP when the DLL keepalive goes stale": with no client and  *)
(* no preview the camera is released for good (CaptureController.h:10-12). *)
SleepsWhenIdle == <>[]Idle => <>[](device = None)

(* The virtual camera "exists only while a physical PS3 Eye occupies this  *)
(* slot" (CaptureController.h:14-18): an empty slot loses it, and the tray *)
(* is told.                                                                *)
Unregistered ==
    <>[](occupant = None /\ vcamApi /\ ~stop) =>
        <>[](pc = "exited" \/ (~vcamLive /\ state = "CameraMissing"))

(* Stop ends the thread wherever it is, once nobody plugs cameras any more *)
(* (CaptureController.cpp:88-102 gives it 15 s).                           *)
StopTerminates == (Occupied \/ <>[](occupant = None)) => (stop ~> pc = "exited")

(* "preview-hold re-wakes it immediately afterwards with the new format"   *)
(* (CaptureController.cpp:554-557): with a working camera and the tray at  *)
(* rest, a preview that is the only consumer streams for good.             *)
Works == <>[][~FrameTimesOut /\ ~InitFails]_vars

PreviewSettles ==
    \A s \in Settings :
        Occupied /\ Works /\ <>[](Settled(s) /\ previewHold /\ client = "off" /\ vcamApi /\ ~stop)
            => <>[](phase = "streaming" \/ pc = "exited")
=============================================================================
