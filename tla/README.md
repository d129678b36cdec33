# PSCam4Win in TLA+

Specifications, model checks and proofs for this repository: a Windows tray
application that turns PlayStation 3 Eye and EyeToy cameras into virtual
webcams. A host process drives the cameras; a media source DLL, loaded by the
Windows Frame Server, serves applications; the two share two memory sections
per camera slot. All paths below are relative to `src/`.

- [Parts of the system](#parts-of-the-system)
- [Modules](#modules)
- [Runs](#runs)
- [Fairness](#fairness)
- [Proofs](#proofs)
- [What the checks found](#what-the-checks-found)
- [Not modelled](#not-modelled)
- [Plan](#plan)

## Parts of the system

```
 applications          Frame Server process            host process (tray application)
                  +-------------------------+    +----------------------------------------+
   camera app --> | VCamSource (per slot)   |    | TrayUI, SettingsDialog, CameraPreview  |
                  |  PingActivity, Deliver- |    |    | UpdateSettings, SetPreviewHold,   |
                  |  Sample                 |    |    | rescan event, Stop                |
                  +---|------------------^--+    |    v                                   |
                      | keepalive, wake  |       | CaptureController (a thread per slot)  |
                      v                  |       |    | ProfileForSlot, Acquire           |
                  [ControlBus] ----------|------>|    v                                   |
                                  [FrameBus] <---| DeviceRegistry -> ps3eye driver,       |
                                                 |                   EyeToyDevice, libusb |
                                                 +----------------------------------------+
```

| part | state it keeps | operations | what is hard | what makes it correct |
|---|---|---|---|---|
| **FrameBus** (`common/FrameBus.h`) | HotHeader (magic, dimensions, sidecar length, seq, frameId), pixels, MJPEG sidecar; a ColdBlock of modes | Writer: Create, Publish, PublishWithJpeg, PublishBlack, UpdateFormat, Close. Reader: TryOpen, ReadFormat, TryReadNewer | two processes without a lock; geometry changes under readers; a host that dies inside its window and comes back on the same section | no torn copy, no old or repeated frame, the newest frame reaches a reader in the end |
| **ControlBus** (`common/ControlBus.h`) | keepalive tick, consumer mask, wake event | Stamp, SignalWake, ResetWake, ActivityAgeMs | stamp-then-signal races reset-then-check | no wake is lost |
| **CaptureController** (`host/CaptureController.cpp`) | phase asleep / waking / streaming, its settings and a desired copy, dirty and pending-mode flags, the device, registration of the virtual camera | the thread's loop; UpdateSettings, SetPreviewHold, Stop from the tray | settings arriving at every point of the loop; lost cameras; failing MF and USB calls; three wake sources | camera off while asleep, settings neither lost nor applied under a live stream, clients served, empty slots hidden, Stop ends the thread |
| **DeviceRegistry** and the pool of the **ps3eye driver** (`host/DeviceRegistry.cpp`, `third_party/ps3eye/ps3eye.cpp` getDevices) | PS3 objects by slot, EyeToy port paths by slot | RebuildLocked under every query | replugs between two refreshes; cameras that do not open; two device types competing for slots | a camera in one slot only, no slot for two, a plugged camera does not move, no dead object stays |
| **Media source** (`source/VCamSource.cpp`, activated by `source/dllmain.cpp`) | source live or shut down; the stream's state, media type, last frame id, staging and JPEG buffers, consumer bit | ActivateObject, Start, Stop, Shutdown, RequestSample, DeliverSample | Stop and Start between the two locks of DeliverSample; re-delivery on deadline; one consumer mask for all streams of a slot | a sample is one frame, whole; none twice as new; every request that got the lock returns; the mask names who is running |
| **EyeToy transfers** (`transports/usb_iso/EyeToyDevice.cpp`, `EyeToyUsb.cpp`) | ring of transfers and their count, frame under assembly, mailbox; users of the shared context and its event thread | Start, Stop, AcquireFrame, HandleTransfer; Acquire, Release | cancel against resubmit; a transfer that never comes back; release against acquire; lost packets | freed only when back or after the bounded wait; Stop returns; the event thread runs while somebody holds the context |
| **PS3 transfers** (`ps3eye.cpp` URBDesc, FrameQueue) | transfers in flight, frame queue | start/close transfers, completion callbacks, Enqueue/Dequeue/Abort | cancel against resubmit, stop against a blocked consumer | transfers freed only when back, nobody waits for ever |
| **Settings dialog, tray menu** (`host/SettingsDialog.cpp`, `host/TrayUI.cpp`, `common/Settings.cpp`) | selected camera, dropdown, mode list, controls, the debounce timer; settings by slot in the registry | slider, mode, reset, camera switch, close, WM_TIMER, WM_CONTROLLER_STATE; quick settings | edits waiting in a timer; cameras that come and go between two looks of one handler; two editors of one camera | no edit lost, the view and the hold on the selected camera, the list up to date |
| **Preview** (`host/CameraPreview.cpp`, `FrameBusPreviewSource.cpp`) | target slot, hold on its controller; the worker's source, format and DIB | Attach, Detach, SetCamera; the worker's loop | worker against dialog: open and close race with re-aiming, failures of either half | the preview gets to show the camera it is aimed at |
| **Settings, DeviceProfiles, Autostart, Main, dllmain** | registry values, constant tables | load, save, lookup | sequential | - |

`PROJECT.json` lists them all with what is modelled of each, and under
`hazards` every place where a test would hardly reach the behaviour that
matters, with the properties that cover it.

## Modules

| module | role |
|---|---|
| `FrameBus` | the bus: one writer, any number of readers, store by store and load by load |
| `FrameRegister` | what the bus promises: a register whose reads return the current frame as a whole |
| `CaptureController` | the camera thread of a slot with the tray, the clients, the user and failing hardware around it |
| `DeviceRegistry` | the slot map and the PS3 driver's pool, under plugging and unplugging |
| `DeviceIndex` | the same with a memory of each camera's last slot |
| `MediaStream` | the media sources of one slot: control calls and requests of their clients over one bus and one consumer mask |
| `EyeToyDevice` | an EyeToy from open to teardown, on the libusb context all EyeToys share |
| `PreviewTarget` | which camera the dialog previews and the hold that goes with it; shared by the next two |
| `CameraPreview` | the preview's worker against the dialog's thread |
| `SettingsDialog` | the UI thread: dialog, tray menu and registry, with the preview's target |
| `MCFrameBus`, `MCCaptureController`, `MCMediaStream`, `MCEyeToyDevice`, `MCCameraPreview`, `MCSettingsDialog` | instances for TLC |
| `FrameBusProofs`, `DeviceRegistryProofs`, `CaptureControllerProofs`, `MediaStreamProofs`, `MediaRepeatProofs`, `EyeToyDeviceProofs`, `SettingsDialogProofs`, `CameraPreviewProofs` | theorems, see [Proofs](#proofs) |

`SettingsDialog` and `CameraPreview` are composed of `PreviewTarget`, whose
`SetCamera`, `ReleaseHold` and `Forget` are conjuncts of their actions. The
modules meet elsewhere at an interface that each states in its own terms: the
hold and the settings of `SettingsDialog` are what the tray does to
`CaptureController`; the windows on the bus in `MediaStream` and the sections in
`CameraPreview` are what a `FrameBus` writer does at full detail.

### FrameBus

A payload is a set of cells (chunks of a memcpy) and a cell holds the frame it
was last written for, so that a torn copy is one whose cells name different
frames. `wpc` walks the writer through `seq` odd, header, payload, `frameId`,
`seq` even: one action per store that a reader can see (`OpenWindow`,
`StoreWidth`, `CopyIn`, ...). Memory order is that of x64, the only target of
`build.bat`: stores become visible in program order and loads are not reordered
with loads, which is what the fences of the code ask for. The memcpys take
their cells in any order. A reader opens, reads the format, checks the dimensions, then runs
the attempts of `TryReadNewer`: `LoadSeq`, `LoadFrameId`, `LoadJpegLen`,
`CopyOut`, `Recheck`. `Crash` ends the host in any step, and `Create` of the
next one runs on the section the readers still map; its memset is cell-wise.
`disturbed` and `published` are history variables of the properties, and so are
the number `no` of a frame, which unlike its id no host resets, and `shown`, the
frame a session was handed last.
`Publish` and `PublishBlack` differ only in what the picture shows, and share
the action `Publish`.

### CaptureController

One step of the thread lies between two reads of state others write; `pc` names
the place in `Run`, `phase` the code's Phase. `UpdateSettings` of the tray is
three steps (store under the lock, set the flag, set the event), so is the
client's ping (stamp, signal, request). Time is abstract: `fresh` says that the
keepalive is younger than `idleTimeoutMs` and may turn false (`Expire`) only
when no client is streaming; a timed wait may end at any moment
(`SleepTimesOut`, `BriefWaitEnds`), but the poll of the sleeping thread is not
taken when one of its events is set already. A settings snapshot is a video
mode and one value for all sensor settings. A device fails to open, stops
delivering and comes back nondeterministically; registration of the virtual
camera may fail each time.

### DeviceRegistry

Every query of the registry rebuilds the map under one lock, so a rebuild is
one step. A PS3 object is the pair of a port and a count of arrivals there: the
code keeps a slot by the identity of the `libusb_device`, and what it says of
libusb (ps3eye.cpp:1293-1298) is that a replugged camera is a new object. That is
taken from libusb. The order of a device list is arbitrary: the greedy loop of
phase 2b then gives the lowest empty slots to any of the cameras that open
(`Adoptions`). The EyeToys are sorted and walk down from the top slot, the n-th
to the n-th free slot from the top (`AssignEyeToys`). `RebuildBlind` is a
rebuild whose device lists libusb failed to deliver.

### MediaStream

What happens under one hold of `_lock` is one step, and so is each look a call
takes at the bus, so that the host can open its window between any two of them:
`Poll` (the state), `ReadFormat`, `CheckSize` (the comparison TryReadNewer makes
once), then up to `MaxAttempts` rounds of `Attempt` (seqBefore) and of what ends
it: `NothingNew`, `Accept`, `NoSidecar`, or `Reject`, which tries again without
another look at the size. `call` is the `RequestSample` of each thread, with
the locals of `DeliverSample`: the run it began in, the type, the size and last
id it read, the bus it copies from. `Delivering` stands for owning
`_deliverLock`. A picture is the id of the frame it was copied from, or `Torn`;
the seqlock is not repeated: a copy is accepted iff the bus is as it was when
the attempt began. A size is one value: that the code compares the bytes of a
picture, and that a header read inside a window can be half of each format, end
as a frame of another size accepted or as nothing read, which the steps reach
as well; what the two halves do to a seqlock is in `FrameBus`. An accepted YUY2
frame of another size than the one read is no whole picture (`Accepted`), and
`FreshIsWhole` exempts it (`SizeKept`). Start replaces the staging buffer, and
a call in flight keeps the one it refers to; `Kept` drops those nobody refers to.
The source's own state is only ever tested for Shutdown, which the stream tests
again, so `SourceStart` and `StreamStart` are one step. The JPEG buffer is not
replaced by Start, as in the code. `seen` (newest frame a run's client was sent),
`shown` (its picture) and `disturbed` are history variables.

### EyeToyDevice

The capture thread, the context's event thread and another EyeToy that takes and
drops the context. Each transfer is `owned` by libusb, in its callback with the
decision taken (`again`, `terminal`), or `back`; decision and resubmission are
two steps, between which `Stop` can set `_cancelling`. A transfer that Stop frees
while libusb still has it becomes a ghost whose callback may run later. A packet
number stands for the OV519 packet: the start of a frame, its end marker, its end;
any of them may be lost. `_mutex` is held from the last Release until the join is
over (`joining`).

### PreviewTarget, CameraPreview

`_cameraIndex` and the holds are one module because the dialog and the preview
see them from different sides. In `CameraPreview` the worker's loop is split at
its sleep, where `SetCamera` may move the target. `openFor` is the code's
`openForCamera`, `lastFormat` its last dimensions, `fresh` says that the newest
frame's id is not `lastFrameId`. A DIB is its format and the slot its picture is
from. Sections come up late, formats change, buffers fail.

### SettingsDialog

A message handler is one step, but for three. `RefreshCameraList` compares the
controllers' states with the list and reads them again in
`PopulateCameraCombo` (`RebuildList`, `ReloadView`). A reset takes the defaults
of the camera in the slot (SettingsDialog.cpp:357) and looks again when it loads
the controls (263): `ResetToDefaults`, then `ResetApplied`. Cameras and the
controllers' threads change things in between. WM_DESTROY joins the worker
(`Closed`). Each
controller stores its state and then posts (`SetState`, `PostsState`). A camera's
settings are a mode, standing for the controls that save at once, and a level,
for the sliders, which save when `PersistTimer` fires. Two history variables
name the exceptions of the properties: `repointed`, that the selection moved and
no view was loaded since; and `astray`, the slots at which an edit or a reset met
a selection that moved, a camera that changed within the reset (`Hijacked`), or
the tray's quick settings. A slot is back when a command saves and applies to it.

## Runs

| run | what it shows | bounds |
|---|---|---|
| `framebus` | accepted copies are whole frames, the last published one at that time, as the register `FrameRegister` says, with sidecars and format changes at every point | one reader: readers never write and share no state with each other; two geometries of different size; 3 windows (a copy can overlap a frame, its successor and a format change); 2 attempts of 64: the second starts from the same state as any later one |
| `framebus_restart` | no torn copy across the death of the host at any step; order of frames over the restart, and that the newest one arrives | 2 incarnations, 3 windows (so that ids go back over the restart), 1 attempt |
| `controller` | type invariant, no running camera with settings other than the thread's, camera off and bus dark while asleep, no wake and no settings lost | 2 modes of which one device type lacks one, 2 sensor values, 2 device types; 4 voluntary acts (`MaxMoves`: plugging, applications, tray commands); the camera is lost after 2 timeouts instead of 4, a counter nothing else reads. What the thread does is not bounded |
| `controller_live` | settings applied, clients served, camera released when idle, empty slot unregistered, Stop ends the thread | 1 mode, 1 device type, 3 voluntary acts |
| `registry` | who gets, keeps and loses which slot | 3 slots and 4 ports, so that both types meet in the middle and somebody finds no slot; 5 arrivals, so that replugs happen on several ports. An EyeToy displaced while another slot is free needs 3 slots |
| `media` | what the clients of a slot are sent and what happens to the shared mask | two requests of one stream at a time (a waiter for `_deliverLock` and its owner); a second client whose control calls count; 2 frames of 2 sizes: one to be torn or of another size, one more to follow; 2 attempts of 64: the second has no look at the size before it, as all later ones; 2 Starts in all: a call of an earlier run meets a later one |
| `eyetoy` | order of teardown, count of transfers, event thread and its users, frames put together from packets | 2 transfers (one can be wedged while the other returns); 3 frames of 3 packets; 2 sessions, so that a ghost of one meets the other; one other EyeToy stands for all |
| `dialog` | no edit lost to the debounce, the previewed camera held and no other, the list catches up | 2 slots, 2 kinds of camera, 3 commands that edit (an edit pending, a reset under it and one to come back from it), 2 plug events, the dialog opened twice |
| `preview` | the preview gets to show the camera it is aimed at | 2 slots, 2 formats; nothing else is bounded |
| `controller_preview`, `registry_index`, `dialog_view` | violations, see [below](#what-the-checks-found) | 3 voluntary acts; 2 ports, 4 arrivals and nothing fails; 2 plug events and no edit |

The runs of the controller, media source, EyeToy and dialog set
`CHECK_DEADLOCK FALSE`: the camera thread ends after Stop or a fatal failure,
sources are shut down, devices unplugged, and the bounded acts run out.

Each property of a passing run has a mutant in `PROJECT.json`: an operator of
the module, next to the one it replaces, that is wrong in the way a slip in the
code would be, and that makes TLC refute that property.

## Fairness

`FrameBus`: a window once opened is closed (the writer thread runs; `Crash` is
not fair and cannot be prevented), and every reader's thread runs. The writer
need not publish.

`CaptureController`: the threads run (`WF` of the camera thread, and of the
second and third step of what tray and client began); a streaming client asks
again within `idleTimeoutMs`, and stale keepalives expire. Strong fairness
stands for outside help: registration and opening a camera do not fail for
ever (`Register`, `InitSucceeds`), and the UI thread gets to its
WM_DEVICECHANGE message even when it is called to other things. No fairness on
plugging, on applications or on the user.

`MediaStream`: a call that was made runs on (`WF` of `Deliver`) and the client
of a running stream asks again (`WF` of `RequestSample`). `DeadlinePasses` is
strongly fair: a wait lasts at most 100 ms (VCamSource.cpp:737-746), so time gets
to the deadline although the loop leaves its wait again and again. Nothing is
assumed of the host, and not that a thread that waits for `_deliverLock` ever gets
it: Windows' mutexes are not first come, first served.

`EyeToyDevice`: both threads run on, and the join of another EyeToy ends.
`ReleaseContext` is strongly fair because the mutex it needs is taken and freed
by others for short times. libusb owes nothing, not even a cancelled transfer:
`StopReturns` holds because the wait is bounded.

`CameraPreview`: the worker runs, and a detach that has been joined ends. Strong
fairness of `ReadFormat` and `Shows` says that `CreateDIBSection` and the copy of
a frame do not fail for ever. The host need not publish: a preview of a camera
whose frames stand still must show the last one.

`SettingsDialog`: the message loop handles what is posted and a controller that
has stored its state posts it. No fairness on users, cables or the timer.

Nothing liveness-related is claimed of `DeviceRegistry`.

## Proofs

TLAPS checks the eight modules `*Proofs` to the last leaf. Each component has an
inductive invariant `IInv`, a lemma per part of it that every step keeps that
part, and theorems that follow from `THEOREM Invariant == Spec => []IInv`. What
needs more builds on `IInv` with an invariant of its own, named below. The
constants are arbitrary but for the named assumption of the module. Every
invariant and action property the passing runs check is a theorem.

**FrameBus**, for any readers, sizes, attempts, windows and incarnations
(assumption `BusAssumption`). `UntornRead` is not inductive: it speaks of an
accepted copy, and must know why it could be accepted. `IInv` adds

- `WriterInv`: where the writer is in its window, which header fields and cells
  already are the new frame's (`WindowInv`), that outside a window the section
  is the published frame as a whole (`QuietInv`), and that frame numbers, ids
  and `seq` advance together (`NumberInv`);
- for each reader what it has learnt at each load: while `seq` still is what it
  loaded, the frame under it is the published one, and every cell it has copied
  is that frame's; once `seq` has moved, it never returns to that value
  without a restart;
- what the session has been shown, against the published frame (`ShownInv`).

From it follow `TypeOK`, `UntornRead`, `WholeFrame`, `FramesInOrder`, and the
refinement `Spec => Register!Spec`: each step of the bus is a step of the
register or a stutter under the mapping in `FrameBus`.

"Giving up here never drops a frame permanently" (FrameBus.h:421-423) is
`NothingSkipped`: until a second host comes, a call passes over the frame of
the bus only if its session was shown that very frame. A frame is told by its
id, a picture by its number: the invariant (`FirstHostInv`, `FirstSessionInv`)
is that in the first host's time they advance together and that a session that
remembers an id was shown the frame with that number.

**DeviceRegistry**, for any number of slots and ports (assumption
`RegistryAssumption`; ports are finitely many). `IInv` is `TypeOK`, `NeverShared`, `PathsApart` (objects
in the pool are of different ports) and `EyeToysApart`. Distinct objects alone
is not inductive: phase 2a finds a slot by port path, and two objects of one
port would fetch the same camera twice. The phases have a lemma each;
`PoolStep` combines those of the driver, `EyeStep` those of the registry, where
`FreeAbove` (two slots differ in the number of free slots above) shows that the
walk from the top gives no EyeToy two slots. Theorems: `TypeCorrect`,
`SlotsNeverShared`, `CamerasInOneSlot`, and the action properties `NoneStale`,
`Ps3Stable`, `EyeToyStable`.

That no EyeToy goes without a slot while one is free (`NoneLeftOut`) is a
counting argument. The ranks of the new paths are distinct and below their
number (`PathsBelow`), so they are all the numbers below it (`CountedOff`: an
injection of a finite set into as many numbers reaches each); the same goes for
the numbers of free slots above the free slots. A free slot that no path meets
therefore has as many free slots above it as there are new paths, and each of
these meets one (`EyesPlaced`). `ReplugStable` is what remains true of
ps3eye.cpp:1253-1254, which `registry_index` refutes as it stands: if libusb lists and
opens every camera (`Reliable`), a PS3 Eye plugged in at two rebuilds in a row
keeps its slot, although a replug in between has made it another object.

**CaptureController**, for any modes, device profiles, tray settings and bounds
(`ControllerAssumption`). The safety properties speak of the sleeping thread or
of an open device, and no step keeps them on its own: `IInv` adds the phase each
place of the thread belongs to (`PlaceInv`), that a device is held exactly from
Acquire to its release, with the thread's settings (`DeviceInv`), that nobody is
awake without a virtual camera and only a streaming thread shows its camera's
picture (`AwakeInv`), that the wake event is set from the check for clients on
(`WakeInv`, which is where the order reset, check, wait enters) and that a pass
behind its drains has seen every queued mode (`SettingsInv`). It gives `TypeOK`,
`CameraRunsActive`, `AsleepIsDark`, `WakeNotLost` and `SettingsKept`.

**MediaStream**, for any streams, threads, formats and bounds
(`MediaAssumption`). That a fresh sample is whole needs that one call at a time
delivers (`LockInv`), that the buffer it writes is allocated although Start
replaces it (`HeldInv`), and that a fresh picture is only ever on its way to the
queue (`FreshInv`), whole unless the size changed under the call;
`FreshOfOthers` is the step where the lock is what keeps other calls from the
buffer. `NeverRepeats` needs `NumberInv` (a client has seen nothing newer
than the id its stream remembers) and `NewerInv` (while a call is at the bus, the
id it read is still the one the stream remembers, or a Start has reset that; what
it copies is no older; a fresh picture of the run is of the remembered frame, not
yet sent). Start
resets that id, and a call of an earlier run may store its own after it: runs of
calls are below their stream's for that.

`RepeatsPrevious` (in `MediaRepeatProofs`) is about buffers that are only
read later. `ShowsInv` says when the buffer a repeat is filled from holds what
the client was sent last: unless the host is ahead of the stream, or the next
picture is in that buffer and about to go. It is kept across Start because
while a call of an earlier run has the delivery lock, the new run has sent
nothing and its buffer is black (`OldRunInv`), and across a copy because the
bus has not changed since it began or is ahead (`CopyInv`).

**EyeToyDevice**, for rings of any finite size and any number of sessions
(`EyeToyAssumption`): the counter equals the number of transfers in libusb's
hands (`CountInv`), the users equal the holders and a join is under way exactly
from the last release until the thread has ended (`ContextInv`), transfers are
fresh outside a session (`RingInv`), callbacks need the thread (`CallbackInv`).
It gives `ThreadServesHolders`, `FreesWhatIsBack` and, with the types of the
frames, `TypeOK`. For `TakesNewFrames` a second invariant, `FrameInv`, follows
a frame through the packets: the one being collected is newer than the one in
the mailbox (`NewerInv`), what is unread is newer than what was taken
(`UnreadInv`), and while an end or a start still bounds the frames, the
collected packets are of the frame the camera is sending (`OneFrameInv`).

**SettingsDialog**, for any slots, kinds of camera and settings
(`DialogAssumption`, `TargetAssumption`): while the timer runs, the selected
camera was handed what the controls show, which is what the flush will save, and
a reset between its two looks has saved what it will apply, in each slot that
is not astray (`DebounceInv`); if the camera is the one that was reset, the
controls then show exactly its defaults, because a kind's default is among its
modes. Only an open dialog has a handler under way (`OpenInv`). It gives
`SavedIsApplied` and `HoldsWhatItShows`. `TypeOK` bounds the messages
that wait, which needs that each plug event is posted once: those posted, owed
and not yet noticed are no more than the plug events (`MessagesInv`).
`NoChangeMissed`: while the list of an open dialog differs from the cameras
that are connected, a message is owed, posted or being handled.

**CameraPreview**, for any slots and frame sizes (`TargetAssumption`): the hold
is on the camera the open dialog shows and on no other (`HoldForTarget`); the
worker reads only from the bus it has open, and a frame it waits for fits its
DIB (`ReadsWhatFits`); with no frame left to read, it shows its source in the
size it adopted, or has no DIB (`ShownWhenRead`). No run checks these four:
`preview` asks `PreviewFollows`, which they do not imply. They were found by
asking what that needs besides fairness.

Model-checked only: the liveness properties (`NewestDelivered`, those of
`controller_live`, `DeliveryEnds`, `MaskRestored`, `PictureArrives`,
`StopReturns`, `ListCatchesUp`, `PreviewFollows`), which are out of the prover's
reach. Of three of them the safety half is proved: `NothingSkipped` of
`NewestDelivered`, `NoChangeMissed` of `ListCatchesUp`, `ShownWhenRead` of
`PreviewFollows`. That half says that nothing is forgotten; that the threads get
to it under the fairness above is TLC's.

## What the checks found

- **A preview can switch the camera on and off for ever**
  (`controller_preview`). A mode change that is taken back before it is applied
  leaves `_pendingMode` set: `drainSettings(false)` clears it only when the
  drained mode differs from the active one (CaptureController.cpp:322-338).
  Every pass of Streaming then releases the camera for a change that does not
  exist (558-562).
- **A replugged camera loses its index** (`registry_index`) when any refresh
  fell between unplug and replug, against ps3eye.cpp:1253-1254: `vacatedPaths`
  is a local of the call.
- **The dialog can show one camera and edit another** (`dialog_view`). On one
  reading of the states `RefreshCameraList` decides that the viewed camera stays
  (SettingsDialog.cpp:543-555); `PopulateCameraCombo` reads them again and moves
  the selection if it has left by then (245-250). The message about its leaving
  then finds the list as it is (544-545), and the view is never loaded.

Other behaviour that the properties have to name as exceptions. Where it goes
against a comment of the code, the comment is cited:

- The picture of a lost camera stays in the section (`AsleepIsDark`): it is
  released without `PublishBlack` (CaptureController.cpp:544-550), and if the
  clients have gone the thread sleeps on it. FrameBus.h:249-251 wants no stale
  image to linger when a camera is released for sleep.
- After a camera is lost, `Waking` drains settings as if nobody streamed
  (CaptureController.cpp:474-475): a format change under the last picture of a
  client that is live, where CaptureController.h:21-24 says that mode changes
  are deferred to the next sleep transition while streaming. No property claims
  that they are.
- TryReadNewer copies a frame only if "the dimensions match" (FrameBus.h:396-397),
  but compares them before its first attempt (417-418) and not again in the up to
  64 that follow. A frame of another size is accepted as new if the format
  changes in between, and what is sent is part of it or has an older frame's rest:
  `SizeKept` in `FreshIsWhole`, `disturbed` in `WholeFrame`. `UntornRead` and
  `AtomicReads` hold for such a frame too: what was copied of it is its own.
- Ids restart with the host. A session takes a smaller id for a new frame
  (FrameBus.h:399-402), but if the new host's first ids are not seen by a reader, the
  frame that has the remembered id again is passed over until the next one
  (`OfEarlierHost` in `NewestDelivered`; `NothingSkipped` ends with the first
  host for that).
- A mode that some camera lacks gives way to the default of one that came, and
  later to another's default (`GaveWay` in `SettingsKept`).
- A call of an earlier run can store its frame id after Start has reset it
  (`disturbed` in `PictureArrives`), against the intent of the comment at
  VCamSource.cpp:461: a client then waits for the next frame of the host. JPEG
  length and staging are not reset at all, so the first repeat of an MJPEG run can
  be a picture of an earlier one; and with the host in a window or dead at the
  deadline the repeat can be a copy that was rejected (`RepeatsPrevious`).
- One stream's Stop clears the consumer mask for all streams of the slot until
  the next request of one that runs (`MaskRestored`).
- Reset to defaults while the selected camera leaves hands that camera's defaults
  to the one the selection moves to, and leaves the preview where it was
  (SettingsDialog.cpp:352-366). If another kind of camera is in the slot at the
  second look (263), the controls show what it has of the first one's defaults,
  and a timer that still runs saves that instead of what was applied. If the
  selection moves while an edit is pending (543-565), the timer saves it for the
  other slot, against what 428-430 is there to prevent. The tray's quick settings
  on camera 0 overwrite, or are overwritten by, an edit still in the dialog's
  timer. The slots concerned are `astray` in `SavedIsApplied`.
- A preview that is aimed from A to B and back while B cannot be opened keeps
  A's source closed for good: `openForCamera` still names A
  (CameraPreview.cpp:396-415). A buffer that cannot be made for one size is not
  made for the size before it either (417-432), although CameraPreview.h:93-94
  says that such a failure is retried on the next pass. Both are `Abandoned` in
  `PreviewFollows`.

## Not modelled

- Debayering, JPEG decoding, colour conversion and register sequences: data
  without protocol. A picture of a size that is neither double nor half is black
  (`FillYuy2Black`); no property looks at that.
- Of the media source: the event queue, the getters and attributes, the state
  MF's Started and Stopped events announce, a source without a bus (one is
  registered only after the host has made it); `SetCurrentMediaType` is part of
  Start, which the client's choice of type precedes.
- Of the EyeToy: ApplySettings and the descriptor parsing in Init.
- Of preview and dialog: painting, aspect fit, the in-use badge, the labels and
  enables of controls; the 2 s after which `StopWorker` gives up its worker; a
  slot whose kind of camera changes without the controller passing through
  CameraMissing.
- The URB transfers and the frame queue of the vendored PS3 driver
  (`start_transfers`, `close_transfers`, `FrameQueue`): not done yet, first in the
  plan.
- `DeviceRegistry` with the controllers that hold what `Acquire` gave them: the
  product of the two modules is too large for TLC at the three slots the
  displacement of an EyeToy needs.
- The bytes of the ColdBlock against a concurrent rewrite: the block is one value
  both in `CaptureController` and in `MediaStream`.
- `WaitFrame`, a hint without effect on what a reader may see; the 15 s after
  which `Stop` abandons its camera thread.
- Window messages of the tray icon, log lines, process start-up, autostart,
  installer scripts, driver packages and vendored binaries: sequential I/O or
  data.

No run checks a type invariant of `MediaStream` and `CameraPreview`: `ShapeInv` and
`TypeOK` in their proofs are theorems.

## Plan

What is left, in this order:

1. `UsbTransfers` for the PS3 driver: URBDesc (start, completion, resubmission,
   cancel, wait) and the `FrameQueue`. Properties: `close_transfers` ends although
   a callback resubmits behind the cancel, an aborted queue wakes its consumer,
   the queue never hands out a buffer it fills.
2. `SlotOwners`: an abstraction of `DeviceRegistry` to what `Acquire` returns,
   composed with two controllers: no camera held through two slots, what happens
   to an EyeToy that streams while a PS3 Eye takes its slot.
3. Proofs of the safety halves of the remaining liveness properties, and of the
   two modules above.

Bounds will follow the runs above: two actors of each kind, three or four
voluntary acts, small queues that can fill.
