---------------------- MODULE CaptureControllerProofs ----------------------
(***************************************************************************)
(* Theorems about the camera thread, for all modes, device profiles and    *)
(* bounds.  Each part of the inductive invariant says what one property    *)
(* needs to know of the place of the thread; a lemma per part shows that   *)
(* every step keeps it.                                                    *)
(***************************************************************************)
EXTENDS CaptureController, TLAPS

-----------------------------------------------------------------------------
(* The inductive invariant. *)

\* The places of the thread and the phases they belong to.
AsleepPlaces == {"coldblock", "register", "fresh", "park", "sleep", "retire",
                 "applyretire", "start"}
WakingPlaces == {"acquire", "init", "brief"}
LivePlaces   == {"live", "applylive", "idlecheck"}
PassPlaces   == {"apply", "pending", "applypending", "check"}

PlaceInv ==
    /\ pc \in AsleepPlaces => phase = "asleep"
    /\ pc \in WakingPlaces => phase = "waking"
    /\ pc \in LivePlaces => phase = "streaming"
    /\ pc \in PassPlaces => phase \in {"asleep", "waking"}

\* The camera is open exactly from Acquire to its release.
Opened == pc = "init" \/ (phase = "streaming" /\ pc # "exited")

DeviceInv ==
    /\ Opened => /\ device \in Devices
                 /\ device.mode = active.mode /\ device.sensor = active.sensor
    /\ ~Opened => device = None
    /\ busMode = active.mode
    /\ phase = "streaming" => timeouts < LostAfter

\* Nobody is awake without a virtual camera, and only a streaming thread shows
\* the picture of its camera.
AwakeInv ==
    /\ phase # "asleep" /\ pc # "exited" => vcamLive
    /\ busImage = "camera" => phase = "streaming"

\* From the check for clients on, a completed ping leaves the wake event set.
WakeInv == pc \in {"park", "sleep"} /\ vcamLive /\ fresh /\ client = "on" => wake

\* A pass past its drains has no mode queued that it has not seen.
SettingsInv ==
    /\ SettingsKept
    /\ pc = "check" /\ desired.mode # active.mode => OnItsWay \/ GaveWay

IInv == TypeOK /\ PlaceInv /\ DeviceInv /\ AwakeInv /\ WakeInv /\ SettingsInv

-----------------------------------------------------------------------------
(* Types. *)

\* Every flag an action sets is set to a truth value.
LEMMA FlagsStep == IInv /\ [Next]_vars => FlagsOK'
<1> SUFFICES ASSUME FlagsOK, [Next]_vars PROVE FlagsOK'
  BY DEF IInv, TypeOK
<1> USE DEF FlagsOK, vars, world, slot, events, shared, others, seen, thread, bus
<1>1. CASE UNCHANGED vars
  BY <1>1
<1>2. CASE \E p \in Profiles : Plug(p)
  <2>1. notice' \in BOOLEAN
    BY <1>2, Zenon DEF Plug, Move
  <2> QED BY <1>2, <2>1 DEF Plug, Move
<1>3. CASE Unplug
  <2>1. notice' \in BOOLEAN
    BY <1>3, Zenon DEF Unplug, Move
  <2> QED BY <1>3, <2>1 DEF Unplug, Move
<1>4. CASE Expire
  <2>1. fresh' \in BOOLEAN
    BY <1>4, Zenon DEF Expire
  <2> QED BY <1>4, <2>1 DEF Expire
<1>5. CASE RetryDue
  <2>1. retryLater' \in BOOLEAN
    BY <1>5, Zenon DEF RetryDue
  <2> QED BY <1>5, <2>1 DEF RetryDue
<1>6. CASE Stamp
  <2>1. fresh' \in BOOLEAN
    BY <1>6, Zenon DEF Stamp
  <2> QED BY <1>6, <2>1 DEF Stamp
<1>7. CASE SignalWake
  <2>1. wake' \in BOOLEAN
    BY <1>7, Zenon DEF SignalWake
  <2> QED BY <1>7, <2>1 DEF SignalWake
<1>8. CASE ClientStarts \/ RequestSample \/ ClientStops
  BY <1>8 DEF ClientStarts, RequestSample, ClientStops
<1>9. CASE \E s \in Settings : UpdateSettings(s)
  BY <1>9 DEF UpdateSettings, Move
<1>10. CASE MarkDirty
  <2>1. settingsDirty' \in BOOLEAN
    BY <1>10, Zenon DEF MarkDirty
  <2> QED BY <1>10, <2>1 DEF MarkDirty
<1>11. CASE SetCmdEvent
  <2>1. cmd' \in BOOLEAN
    BY <1>11, Zenon DEF SetCmdEvent
  <2> QED BY <1>11, <2>1 DEF SetCmdEvent
<1>12. CASE \E held \in BOOLEAN : SetPreviewHold(held)
  <2>1. previewHold' \in BOOLEAN
    BY <1>12, Zenon DEF SetPreviewHold
  <2> QED BY <1>12, <2>1 DEF SetPreviewHold
<1>13. CASE NotifyDeviceChange
  <2>1. notice' \in BOOLEAN
    BY <1>13, Zenon DEF NotifyDeviceChange
  <2>2. rescan' \in BOOLEAN
    BY <1>13, Zenon DEF NotifyDeviceChange
  <2> QED BY <1>13, <2>1, <2>2 DEF NotifyDeviceChange
<1>14. CASE Stop
  <2>1. stop' \in BOOLEAN
    BY <1>14, Zenon DEF Stop
  <2> QED BY <1>14, <2>1 DEF Stop
<1>15. CASE Run \/ RunFails
  BY <1>15 DEF Run, RunFails, Enter, Goto
<1>16. CASE BeginPass
  <2>1. wake' \in BOOLEAN
    BY <1>16, Zenon DEF BeginPass, TakeDirty
  <2>2. settingsDirty' \in BOOLEAN
    BY <1>16, Zenon DEF BeginPass, TakeDirty
  <2> QED BY <1>16, <2>1, <2>2 DEF BeginPass, TakeDirty
<1>17. CASE ApplyDesired
  <2>1. pendingMode' \in BOOLEAN
    BY <1>17, Zenon DEF ApplyDesired, DrainOff
  <2> QED BY <1>17, <2>1 DEF ApplyDesired, DrainOff
<1>18. CASE ApplyPendingMode
  <2>1. settingsDirty' \in BOOLEAN
    BY <1>18, Zenon DEF ApplyPendingMode
  <2> QED BY <1>18, <2>1 DEF ApplyPendingMode
<1>19. CASE ApplyPendingDesired
  <2>1. pendingMode' \in BOOLEAN
    BY <1>19, Zenon DEF ApplyPendingDesired, DrainOff
  <2> QED BY <1>19, <2>1 DEF ApplyPendingDesired, DrainOff
<1>20. CASE Reconcile
  <2>1. present' \in BOOLEAN
    BY <1>20, Zenon DEF Reconcile
  <2>2. pendingMode' \in BOOLEAN
    BY <1>20, Zenon DEF Reconcile
  <2> QED BY <1>20, <2>1, <2>2 DEF Reconcile
<1>21. CASE Readvertise \/ Park
  BY <1>21 DEF Readvertise, Park
<1>22. CASE Register
  <2>1. vcamLive' \in BOOLEAN
    BY <1>22, Zenon DEF Register, RegisterVCam, UnregisterVCam
  <2>2. retryLater' \in BOOLEAN
    BY <1>22, Zenon DEF Register, RegisterVCam, UnregisterVCam
  <2> QED BY <1>22, <2>1, <2>2 DEF Register, RegisterVCam, UnregisterVCam
<1>23. CASE AnybodyThere
  <2>1. externalClient' \in BOOLEAN
    BY <1>23, Zenon DEF AnybodyThere, ClientFresh
  <2> QED BY <1>23, <2>1 DEF AnybodyThere, ClientFresh
<1>24. CASE SleepEnds
  <2>1. cmd' \in BOOLEAN
    BY <1>24, Zenon DEF SleepEnds
  <2>2. wake' \in BOOLEAN
    BY <1>24, Zenon DEF SleepEnds
  <2>3. rescan' \in BOOLEAN
    BY <1>24, Zenon DEF SleepEnds
  <2> QED BY <1>24, <2>1, <2>2, <2>3 DEF SleepEnds
<1>25. CASE SleepTimesOut
  <2>1. retryLater' \in BOOLEAN
    BY <1>25, Zenon DEF SleepTimesOut
  <2> QED BY <1>25, <2>1 DEF SleepTimesOut
<1>26. CASE StillWanted
  <2>1. externalClient' \in BOOLEAN
    BY <1>26, Zenon DEF StillWanted, ClientFresh
  <2> QED BY <1>26, <2>1 DEF StillWanted, ClientFresh
<1>27. CASE Acquire
  <2>1. vcamLive' \in BOOLEAN
    BY <1>27, Zenon DEF Acquire, UnregisterVCam
  <2>2. retryLater' \in BOOLEAN
    BY <1>27, Zenon DEF Acquire, UnregisterVCam
  <2> QED BY <1>27, <2>1, <2>2 DEF Acquire, UnregisterVCam
<1>28. CASE InitSucceeds \/ InitFails \/ StopStreaming \/ PublishFrame \/ FrameTimesOut
  BY <1>28 DEF InitSucceeds, InitFails, StopStreaming, PublishFrame, FrameTimesOut
<1>29. CASE BriefWaitEnds
  <2>1. cmd' \in BOOLEAN
    BY <1>29, Zenon DEF BriefWaitEnds
  <2> QED BY <1>29, <2>1 DEF BriefWaitEnds
<1>30. CASE DrainWhileLive
  <2>1. settingsDirty' \in BOOLEAN
    BY <1>30, Zenon DEF DrainWhileLive, TakeDirty
  <2> QED BY <1>30, <2>1 DEF DrainWhileLive, TakeDirty
<1>31. CASE ApplyDesiredLive
  <2>1. pendingMode' \in BOOLEAN
    BY <1>31, Zenon DEF ApplyDesiredLive, DrainLive
  <2> QED BY <1>31, <2>1 DEF ApplyDesiredLive, DrainLive
<1>32. CASE IdleCheck
  <2>1. externalClient' \in BOOLEAN
    BY <1>32, Zenon DEF IdleCheck, ClientFresh
  <2> QED BY <1>32, <2>1 DEF IdleCheck, ClientFresh
<1>33. CASE Teardown
  <2>1. vcamLive' \in BOOLEAN
    BY <1>33, Zenon DEF Teardown, UnregisterVCam
  <2>2. retryLater' \in BOOLEAN
    BY <1>33, Zenon DEF Teardown, UnregisterVCam
  <2> QED BY <1>33, <2>1, <2>2 DEF Teardown, UnregisterVCam
<1> QED BY <1>1, <1>2, <1>3, <1>4, <1>5, <1>6, <1>7, <1>8, <1>9, <1>10, <1>11, <1>12, <1>13,
        <1>14, <1>15, <1>16, <1>17, <1>18, <1>19, <1>20, <1>21, <1>22, <1>23, <1>24, <1>25,
        <1>26, <1>27, <1>28, <1>29, <1>30, <1>31, <1>32, <1>33 DEF Next, WorldNext,
        ClientNext, TrayNext, ThreadNext

\* What Acquire opens is a device with the thread's settings.
LEMMA AcquireType ==
  ASSUME DataOK, Acquire, occupant # None
  PROVE  device' \in Devices
<1>1. occupant \in Profiles /\ active.mode \in Modes /\ active.sensor \in Sensors
  BY DEF DataOK, Settings
<1>2. device' = [profile |-> occupant, mode |-> active.mode, sensor |-> active.sensor,
                 alive |-> TRUE]
  BY DEF Acquire
<1>3. \A b \in BOOLEAN : [profile |-> occupant, mode |-> active.mode,
                          sensor |-> active.sensor, alive |-> b] \in Devices
  BY <1>1 DEF Devices
<1> QED BY <1>2, <1>3, Zenon

\* The rest of the types; the count of timeouts stays below LostAfter while the
\* thread streams.
LEMMA DataStep == ControllerAssumption /\ IInv /\ [Next]_vars => DataOK'
<1> SUFFICES ASSUME ControllerAssumption, DataOK, PlaceInv, DeviceInv, [Next]_vars
             PROVE  DataOK'
  BY DEF IInv, TypeOK
<1> USE DEF DataOK, Settings, Goto, Enter, vars, world, slot, events, shared, others, seen,
            thread, bus
<1>1. CASE UNCHANGED vars
  BY <1>1
<1>2. CASE \E p \in Profiles : Plug(p)
  BY <1>2 DEF Plug, Move, ControllerAssumption
<1>3. CASE Unplug
  <2>1. device' \in Devices \cup {None}
    BY <1>3 DEF Unplug, Devices
  <2> QED BY <1>3, <2>1 DEF Unplug, Move, ControllerAssumption
<1>4. CASE Expire \/ RetryDue
  BY <1>4 DEF Expire, RetryDue
<1>5. CASE ClientNext
  BY <1>5 DEF ClientNext, ClientStarts, Stamp, SignalWake, RequestSample, ClientStops, Move,
     ControllerAssumption
<1>6. CASE TrayNext
  BY <1>6 DEF TrayNext, UpdateSettings, MarkDirty, SetCmdEvent, SetPreviewHold,
     NotifyDeviceChange, Stop, Move, ControllerAssumption
<1>7. CASE Run \/ RunFails
  BY <1>7 DEF Run, RunFails, PublishColdBlock, ControllerAssumption
<1>8. CASE BeginPass \/ ApplyPendingMode \/ DrainWhileLive
  BY <1>8 DEF BeginPass, ApplyPendingMode, DrainWhileLive, TakeDirty, AfterDrain
<1>9. CASE ApplyDesired \/ ApplyPendingDesired
  <2>1. /\ active' = desired /\ mirror' = desired /\ device' = device /\ cold' = cold
        /\ busMode' \in Modes /\ busImage' \in {"black", "camera", "left"}
    BY <1>9 DEF ApplyDesired, ApplyPendingDesired, DrainOff, UpdateFormat
  <2> QED BY <1>9, <2>1 DEF ApplyDesired, ApplyPendingDesired, AfterDrain
<1>10. CASE Reconcile
  <2>1. CASE present' /\ occupant # publishedProfile
    <3>1. occupant \in Profiles /\ Default[occupant] \in Modes
      BY <1>10, <2>1 DEF Reconcile, ControllerAssumption
    <3>2. active' \in Settings /\ mirror' \in Settings
      BY <1>10, <2>1, <3>1 DEF Reconcile
    <3> QED BY <1>10, <2>1, <3>1, <3>2 DEF Reconcile, UpdateFormat
  <2>2. CASE ~(present' /\ occupant # publishedProfile)
    BY <1>10, <2>2 DEF Reconcile
  <2> QED BY <2>1, <2>2
<1>11. CASE Readvertise \/ Register \/ AnybodyThere \/ Park
  BY <1>11 DEF Readvertise, PublishColdBlock, Register, RegisterVCam, AnybodyThere, Park,
     ControllerAssumption
<1>12. CASE SleepEnds \/ SleepTimesOut \/ StillWanted
  <2>1. CASE SleepEnds
    BY <2>1 DEF SleepEnds
  <2>2. CASE SleepTimesOut
    BY <2>2 DEF SleepTimesOut
  <2>3. CASE StillWanted
    BY <2>3 DEF StillWanted
  <2> QED BY <1>12, <2>1, <2>2, <2>3
<1>13. CASE Acquire
  <2>1. CASE occupant = None
    BY <1>13, <2>1 DEF Acquire
  <2>2. CASE occupant # None
    <3>1. device' \in Devices
      BY <1>13, <2>2, AcquireType
    <3> QED BY <1>13, <2>2, <3>1 DEF Acquire
  <2> QED BY <2>1, <2>2
<1>14. CASE InitSucceeds \/ InitFails \/ BriefWaitEnds
  BY <1>14 DEF InitSucceeds, InitFails, BriefWaitEnds, ControllerAssumption
<1>15. CASE StopStreaming \/ PublishFrame \/ FrameTimesOut
  BY <1>15 DEF StopStreaming, PublishFrame, FrameTimesOut, LeaveImage, DeviceInv,
     ControllerAssumption
<1>16. CASE ApplyDesiredLive
  <2>1. device \in Devices /\ active'.mode = active.mode
    BY <1>16 DEF ApplyDesiredLive, DrainLive, PlaceInv, LivePlaces, DeviceInv, Opened
  <2> QED BY <1>16, <2>1 DEF ApplyDesiredLive, DrainLive, Devices
<1>17. CASE IdleCheck \/ Teardown
  BY <1>17 DEF IdleCheck, Release, Teardown
<1> QED BY <1>1, <1>2, <1>3, <1>4, <1>5, <1>6, <1>7, <1>8, <1>9, <1>10, <1>11, <1>12, <1>13,
        <1>14, <1>15, <1>16, <1>17 DEF Next, WorldNext, ThreadNext

-----------------------------------------------------------------------------
(* The parts that speak of the place of the thread. *)

\* The thread enters a place only in the phase it belongs to.
LEMMA PlaceStep == IInv /\ [Next]_vars => PlaceInv'
<1> SUFFICES ASSUME PlaceInv, [Next]_vars PROVE PlaceInv'
  BY DEF IInv
<1> USE DEF PlaceInv, AsleepPlaces, WakingPlaces, LivePlaces, PassPlaces, Goto, Enter, vars,
            world, slot, events, shared, others, seen, thread, bus
<1>1. CASE UNCHANGED vars \/ WorldNext \/ ClientNext \/ TrayNext
  BY <1>1 DEF WorldNext, Plug, Unplug, Expire, RetryDue, ClientNext, ClientStarts, Stamp,
     SignalWake, RequestSample, ClientStops, TrayNext, UpdateSettings, MarkDirty, SetCmdEvent,
     SetPreviewHold, NotifyDeviceChange, Stop
<1>2. CASE BeginPass \/ ApplyDesired \/ ApplyPendingMode \/ ApplyPendingDesired
  BY <1>2 DEF BeginPass, ApplyDesired, ApplyPendingMode, ApplyPendingDesired, TakeDirty,
     AfterDrain
<1>3. CASE \/ Run \/ RunFails \/ Reconcile \/ Readvertise \/ Register \/ AnybodyThere \/ Park
           \/ SleepEnds \/ SleepTimesOut
  BY <1>3 DEF Run, RunFails, Reconcile, Readvertise, Register, AnybodyThere, Park, SleepEnds,
     SleepTimesOut
<1>4. CASE StillWanted \/ Acquire \/ InitSucceeds \/ InitFails \/ BriefWaitEnds
  BY <1>4 DEF StillWanted, Acquire, InitSucceeds, InitFails, BriefWaitEnds
<1>5. CASE \/ StopStreaming \/ PublishFrame \/ FrameTimesOut \/ DrainWhileLive
           \/ ApplyDesiredLive \/ IdleCheck \/ Teardown
  BY <1>5 DEF StopStreaming, PublishFrame, FrameTimesOut, DrainWhileLive, TakeDirty,
     ApplyDesiredLive, IdleCheck, Release, Teardown
<1> QED BY <1>1, <1>2, <1>3, <1>4, <1>5 DEF Next, ThreadNext

\* The device is acquired with the thread's settings and follows them; the bus
\* changes its mode together with active.
LEMMA DeviceStep == ControllerAssumption /\ IInv /\ [Next]_vars => DeviceInv'
<1> SUFFICES ASSUME ControllerAssumption, DataOK, PlaceInv, DeviceInv, [Next]_vars
             PROVE  DeviceInv'
  BY DEF IInv, TypeOK
<1> USE DEF DeviceInv, Opened, PlaceInv, AsleepPlaces, WakingPlaces, LivePlaces, PassPlaces,
            Goto, Enter, vars, world, slot, events, shared, others, seen, thread, bus
<1>1. CASE UNCHANGED vars \/ ClientNext \/ TrayNext
  BY <1>1 DEF ClientNext, ClientStarts, Stamp, SignalWake, RequestSample, ClientStops,
     TrayNext, UpdateSettings, MarkDirty, SetCmdEvent, SetPreviewHold, NotifyDeviceChange,
     Stop
<1>2. CASE WorldNext
  <2>1. CASE Unplug
    <3>1. Opened => /\ device' \in Devices
                    /\ device'.mode = device.mode /\ device'.sensor = device.sensor
      BY <2>1 DEF Unplug, Devices
    <3> QED BY <2>1, <3>1 DEF Unplug
  <2> QED BY <1>2, <2>1 DEF WorldNext, Plug, Expire, RetryDue
<1>3. CASE Run \/ RunFails \/ BeginPass \/ ApplyPendingMode
  BY <1>3 DEF Run, RunFails, BeginPass, ApplyPendingMode, TakeDirty, AfterDrain
<1>4. CASE ApplyDesired \/ ApplyPendingDesired
  BY <1>4 DEF ApplyDesired, ApplyPendingDesired, DrainOff, UpdateFormat, SameMode, AfterDrain
<1>5. CASE Reconcile
  BY <1>5 DEF Reconcile, UpdateFormat, DataOK, Settings
<1>6. CASE Readvertise \/ Register \/ AnybodyThere \/ Park \/ SleepEnds \/ SleepTimesOut
  BY <1>6 DEF Readvertise, Register, AnybodyThere, Park, SleepEnds, SleepTimesOut
<1>7. CASE StillWanted \/ InitSucceeds \/ InitFails \/ BriefWaitEnds
  BY <1>7 DEF StillWanted, InitSucceeds, InitFails, BriefWaitEnds, ControllerAssumption
<1>8. CASE Acquire
  <2>1. CASE occupant = None
    BY <1>8, <2>1 DEF Acquire
  <2>2. CASE occupant # None
    <3>1. /\ device'.mode = active.mode /\ device'.sensor = active.sensor
          /\ pc' = "init" /\ UNCHANGED <<phase, active, timeouts, busMode>>
      BY <1>8, <2>2 DEF Acquire
    <3>2. device' \in Devices
      BY <1>8, <2>2, AcquireType
    <3> QED BY <1>8, <3>1, <3>2
  <2> QED BY <2>1, <2>2
<1>9. CASE StopStreaming \/ PublishFrame \/ FrameTimesOut \/ DrainWhileLive
  BY <1>9 DEF StopStreaming, PublishFrame, FrameTimesOut, LeaveImage, DrainWhileLive,
     TakeDirty, DataOK, ControllerAssumption
<1>10. CASE ApplyDesiredLive
  BY <1>10 DEF ApplyDesiredLive, DrainLive, Devices, DataOK, Settings
<1>11. CASE IdleCheck \/ Teardown
  BY <1>11 DEF IdleCheck, Release, Teardown
<1> QED BY <1>1, <1>2, <1>3, <1>4, <1>5, <1>6, <1>7, <1>8, <1>9, <1>10, <1>11 DEF Next,
        ThreadNext

\* The virtual camera is dropped only on the way to sleep, and the picture of a
\* camera is replaced or disowned when the camera goes.
LEMMA AwakeStep == IInv /\ [Next]_vars => AwakeInv'
<1> SUFFICES ASSUME PlaceInv, AwakeInv, [Next]_vars PROVE AwakeInv'
  BY DEF IInv
<1> USE DEF AwakeInv, PlaceInv, AsleepPlaces, WakingPlaces, LivePlaces, PassPlaces, Goto,
            Enter, vars, world, slot, events, shared, others, seen, thread, bus
<1>1. CASE UNCHANGED vars \/ WorldNext \/ ClientNext \/ TrayNext
  BY <1>1 DEF WorldNext, Plug, Unplug, Expire, RetryDue, ClientNext, ClientStarts, Stamp,
     SignalWake, RequestSample, ClientStops, TrayNext, UpdateSettings, MarkDirty, SetCmdEvent,
     SetPreviewHold, NotifyDeviceChange, Stop
<1>2. CASE BeginPass \/ ApplyDesired \/ ApplyPendingMode \/ ApplyPendingDesired
  BY <1>2 DEF BeginPass, ApplyDesired, ApplyPendingMode, ApplyPendingDesired, TakeDirty,
     AfterDrain, DrainOff, UpdateFormat
<1>3. CASE \/ Run \/ RunFails \/ Reconcile \/ Readvertise \/ Register \/ AnybodyThere \/ Park
           \/ SleepEnds \/ SleepTimesOut
  BY <1>3 DEF Run, RunFails, Reconcile, UpdateFormat, Readvertise, Register, RegisterVCam,
     UnregisterVCam, AnybodyThere, Park, SleepEnds, SleepTimesOut
<1>4. CASE StillWanted \/ Acquire \/ InitSucceeds \/ InitFails \/ BriefWaitEnds
  BY <1>4 DEF StillWanted, Acquire, UnregisterVCam, InitSucceeds, InitFails, BriefWaitEnds
<1>5. CASE \/ StopStreaming \/ PublishFrame \/ FrameTimesOut \/ DrainWhileLive
           \/ ApplyDesiredLive \/ IdleCheck \/ Teardown
  BY <1>5 DEF StopStreaming, PublishFrame, FrameTimesOut, LeaveImage, DrainWhileLive,
     TakeDirty, ApplyDesiredLive, DrainLive, IdleCheck, Release, Teardown
<1> QED BY <1>1, <1>2, <1>3, <1>4, <1>5 DEF Next, ThreadNext

-----------------------------------------------------------------------------
(* No wake and no settings lost. *)

\* The thread arrives at park only where it has read a stale keepalive or has no
\* virtual camera; whoever pings after that leaves the event set.
LEMMA WakeStep == IInv /\ [Next]_vars => WakeInv'
<1> SUFFICES ASSUME WakeInv, [Next]_vars PROVE WakeInv'
  BY DEF IInv
<1> USE DEF WakeInv, Goto, Enter, vars, world, slot, events, shared, others, seen, thread, bus
<1>1. CASE UNCHANGED vars \/ WorldNext \/ TrayNext
  BY <1>1 DEF WorldNext, Plug, Unplug, Expire, RetryDue, TrayNext, UpdateSettings, MarkDirty,
     SetCmdEvent, SetPreviewHold, NotifyDeviceChange, Stop
<1>2. CASE ClientNext
  BY <1>2 DEF ClientNext, ClientStarts, Stamp, SignalWake, RequestSample, ClientStops
<1>3. CASE BeginPass \/ ApplyDesired \/ ApplyPendingMode \/ ApplyPendingDesired
  BY <1>3 DEF BeginPass, ApplyDesired, ApplyPendingMode, ApplyPendingDesired, TakeDirty,
     AfterDrain
<1>4. CASE AnybodyThere
  BY <1>4 DEF AnybodyThere, WantsCamera
<1>5. CASE Park
  BY <1>5 DEF Park
<1>6. CASE Run \/ RunFails \/ Reconcile \/ Readvertise \/ Register \/ SleepEnds \/ SleepTimesOut
  BY <1>6 DEF Run, RunFails, Reconcile, Readvertise, Register, SleepEnds, SleepTimesOut
<1>7. CASE StillWanted \/ Acquire \/ InitSucceeds \/ InitFails \/ BriefWaitEnds
  BY <1>7 DEF StillWanted, Acquire, InitSucceeds, InitFails, BriefWaitEnds
<1>8. CASE \/ StopStreaming \/ PublishFrame \/ FrameTimesOut \/ DrainWhileLive
           \/ ApplyDesiredLive \/ IdleCheck \/ Teardown
  BY <1>8 DEF StopStreaming, PublishFrame, FrameTimesOut, DrainWhileLive, TakeDirty,
     ApplyDesiredLive, IdleCheck, Release, Teardown
<1> QED BY <1>1, <1>2, <1>3, <1>4, <1>5, <1>6, <1>7, <1>8 DEF Next, ThreadNext

\* desired changes only under ui = "dirty", which hands over to settingsDirty, which
\* hands over to a place that drains; a drain leaves at most a queued mode behind.
LEMMA SettingsStep == ControllerAssumption /\ IInv /\ [Next]_vars => SettingsInv'
<1> SUFFICES ASSUME ControllerAssumption, DataOK, SettingsInv, [Next]_vars
             PROVE  SettingsInv'
  BY DEF IInv, TypeOK
<1> USE DEF SettingsInv, SettingsKept, OnItsWay, GaveWay, DataOK, Settings, Goto, Enter, vars,
            world, slot, events, shared, others, seen, thread, bus
<1>1. CASE UNCHANGED vars \/ WorldNext \/ ClientNext
  BY <1>1 DEF WorldNext, Plug, Unplug, Expire, RetryDue, ClientNext, ClientStarts, Stamp,
     SignalWake, RequestSample, ClientStops
<1>2. CASE TrayNext
  BY <1>2 DEF TrayNext, UpdateSettings, MarkDirty, SetCmdEvent, SetPreviewHold,
     NotifyDeviceChange, Stop
<1>3. CASE BeginPass \/ ApplyPendingMode \/ DrainWhileLive
  BY <1>3 DEF BeginPass, ApplyPendingMode, DrainWhileLive, TakeDirty, AfterDrain
<1>4. CASE ApplyDesired \/ ApplyPendingDesired
  BY <1>4 DEF ApplyDesired, ApplyPendingDesired, DrainOff, AfterDrain
<1>5. CASE ApplyDesiredLive
  BY <1>5 DEF ApplyDesiredLive, DrainLive, SameMode
<1>6. CASE Reconcile
  BY <1>6 DEF Reconcile, HasMode, ControllerAssumption
<1>7. CASE \/ Run \/ RunFails \/ Readvertise \/ Register \/ AnybodyThere \/ Park
           \/ SleepEnds \/ SleepTimesOut
  BY <1>7 DEF Run, RunFails, Readvertise, Register, AnybodyThere, Park, SleepEnds,
     SleepTimesOut
<1>8. CASE StillWanted \/ Acquire \/ InitSucceeds \/ InitFails \/ BriefWaitEnds
  BY <1>8 DEF StillWanted, Acquire, InitSucceeds, InitFails, BriefWaitEnds
<1>9. CASE StopStreaming \/ PublishFrame \/ FrameTimesOut \/ IdleCheck \/ Teardown
  BY <1>9 DEF StopStreaming, PublishFrame, FrameTimesOut, IdleCheck, Release, Teardown
<1> QED BY <1>1, <1>2, <1>3, <1>4, <1>5, <1>6, <1>7, <1>8, <1>9 DEF Next, ThreadNext

-----------------------------------------------------------------------------
(* The theorems. *)

\* The initial states satisfy the inductive invariant.
LEMMA Initially == ControllerAssumption /\ Init => IInv
<1> SUFFICES ASSUME ControllerAssumption, Init PROVE IInv
  OBVIOUS
<1>1. FlagsOK
  BY Zenon DEF Init, FlagsOK
<1>2. DataOK
  BY DEF ControllerAssumption, Init, DataOK, Settings
<1>3. TypeOK
  BY <1>1, <1>2 DEF TypeOK
<1>4. PlaceInv /\ DeviceInv /\ AwakeInv /\ WakeInv /\ SettingsInv
  BY DEF Init, PlaceInv, AsleepPlaces, WakingPlaces, LivePlaces, PassPlaces, DeviceInv,
     Opened, AwakeInv, WakeInv, SettingsInv, SettingsKept
<1> QED BY <1>3, <1>4 DEF IInv

\* The inductive invariant holds in every reachable state.
THEOREM Invariant == Spec => []IInv
<1>1. Init => IInv
  BY Initially, ControllerAssumption
<1>2. IInv /\ [Next]_vars => IInv'
  <2> SUFFICES ASSUME IInv, [Next]_vars PROVE IInv'
    OBVIOUS
  <2>1. TypeOK'
    BY FlagsStep, DataStep, ControllerAssumption DEF TypeOK
  <2> QED
    BY <2>1, PlaceStep, DeviceStep, AwakeStep, WakeStep, SettingsStep, ControllerAssumption
       DEF IInv
<1> QED BY <1>1, <1>2, PTL DEF Spec

\* Every variable keeps its type, and the camera is given up before a fifth
\* timeout in a row (CaptureController.cpp:544).
THEOREM TypeCorrect == Spec => []TypeOK
  BY Invariant, PTL DEF IInv

\* The opened camera runs with the thread's own settings and the mode the bus
\* announces, whatever settings arrive in the meantime (CaptureController.cpp:322-338).
THEOREM RunsActive == Spec => []CameraRunsActive
<1>1. IInv => CameraRunsActive
  BY DEF IInv, DeviceInv, CameraRunsActive
<1> QED BY <1>1, Invariant, PTL

\* The camera runs only awake and behind a virtual camera, and a sleeping thread
\* has blackened the picture of every camera it released (CaptureController.h:7).
THEOREM DarkWhenAsleep == Spec => []AsleepIsDark
<1>1. IInv => AsleepIsDark
  BY DEF IInv, PlaceInv, AsleepPlaces, WakingPlaces, DeviceInv, Opened, AwakeInv, AsleepIsDark
<1> QED BY <1>1, Invariant, PTL

\* The order reset, re-check, wait loses no wake (CaptureController.cpp:418).
THEOREM NoWakeLost == Spec => []WakeNotLost
<1>1. IInv => WakeNotLost
  BY DEF IInv, WakeInv, WakeNotLost
<1> QED BY <1>1, Invariant, PTL

\* No settings are lost between UpdateSettings and drainSettings, at any place of
\* the thread they arrive at.
THEOREM NoSettingsLost == Spec => []SettingsKept
<1>1. IInv => SettingsKept
  BY DEF IInv, SettingsInv
<1> QED BY <1>1, Invariant, PTL
=============================================================================
