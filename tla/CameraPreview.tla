--------------------------- MODULE CameraPreview ---------------------------
(***************************************************************************)
(* The live preview of the settings dialog (src/host/CameraPreview.cpp):   *)
(* what the dialog's thread does to it and the worker thread that opens    *)
(* the previewed slot's frame bus, rebuilds the DIB when the format        *)
(* changes and converts each new frame into it.  The two share             *)
(* _cameraIndex and _running and nothing else, and the worker waits for    *)
(* nobody: it posts its messages.                                          *)
(*                                                                         *)
(* A format stands for its width and height, a picture for the slot it     *)
(* came from.  Painting, the badge and the pixel conversion are left out.  *)
(***************************************************************************)
EXTENDS PreviewTarget

CONSTANT Formats    \* frame sizes

ASSUME FormatsAssumption == None \notin Formats

VARIABLES
    dialog,     \* the dialog that owns the preview: "closed", "open", "join"
    running,    \* _running
    worker,     \* WorkerProc's pc, locals and _source
    dib,        \* _dib: its format and the slot its picture came from
    section,    \* the slots whose frame bus exists
    format      \* the format each frame bus is in

vars == <<cameraIndex, hold, dialog, running, worker, dib, section, format>>
-----------------------------------------------------------------------------
(* _source is the bus _source has open; openFor is openForCamera; fresh is *)
(* "the newest frame's id is not lastFrameId".                             *)
Worker == [pc: {"off", "top", "wait"},
           source: Slots \cup {None}, openFor: Slots \cup {None},
           lastFormat: Formats \cup {None}, want: Formats \cup {None},
           fresh: BOOLEAN]

AtRest == [pc |-> "off", source |-> None, openFor |-> None,
           lastFormat |-> None, want |-> None, fresh |-> FALSE]
NoDib == [format |-> None, picture |-> None]

Init ==
    /\ TargetInit
    /\ dialog = "closed" /\ running = FALSE /\ worker = AtRest /\ dib = NoDib
    /\ section \in SUBSET Slots
    /\ format \in [Slots -> Formats]
-----------------------------------------------------------------------------
(* The dialog's thread.                                                    *)

(* WM_INITDIALOG: a new CameraPreview, attached and aimed.                 *)
Attach(slot) ==
    /\ dialog = "closed" /\ dialog' = "open"
    /\ running' = TRUE
    /\ worker' = [AtRest EXCEPT !.pc = "top"]
    /\ SetCamera(slot)
    /\ UNCHANGED <<dib, section, format>>

Aim(slot) ==
    /\ dialog = "open"
    /\ SetCamera(slot)
    /\ UNCHANGED <<dialog, running, worker, dib, section, format>>

(* Detach: it waits for the worker, and the rest is Detached.              *)
Detach ==
    /\ dialog = "open" /\ dialog' = "join"
    /\ ReleaseHold
    /\ running' = FALSE
    /\ UNCHANGED <<cameraIndex, worker, dib, section, format>>

Detached ==
    /\ dialog = "join" /\ worker.pc = "off"
    /\ dialog' = "closed"
    /\ dib' = NoDib /\ worker' = AtRest
    /\ Forget
    /\ UNCHANGED <<running, section, format>>
-----------------------------------------------------------------------------
(* The worker.  A pass of its loop is two steps, before and after its      *)
(* sleep: in between it shares nothing with the dialog's thread, so        *)
(* splitting them further tells nothing apart.                             *)

At(pc) == worker.pc = pc

Ends ==
    /\ At("top") \/ At("wait")
    /\ ~running
    /\ worker' = [worker EXCEPT !.pc = "off"]
    /\ UNCHANGED dib

(* The source follows the target, or is closed and the loop comes back.    *)
Retarget ==
    IF cameraIndex = worker.openFor THEN worker
    ELSE IF cameraIndex \in section
         THEN [worker EXCEPT !.source = cameraIndex, !.openFor = cameraIndex,
                             !.lastFormat = None, !.fresh = TRUE]
         ELSE [worker EXCEPT !.source = None]

OpenFails ==
    /\ At("top") /\ running
    /\ cameraIndex # worker.openFor /\ cameraIndex \notin section
    /\ worker' = Retarget
    /\ UNCHANGED dib

(* The DIB keeps its picture when the new source has the size it has.      *)
RecreateDib(f) == dib' = IF dib.format = f THEN dib ELSE [format |-> f, picture |-> None]

Sleeps(w, f) == worker' = [w EXCEPT !.pc = "wait", !.want = f]
AdoptsSeen(w, f) == Sleeps([w EXCEPT !.lastFormat = f], f)  \* mutant
Adopts(w, f) == Sleeps([w EXCEPT !.lastFormat = f, !.fresh = TRUE], f)

ReadFormat ==
    /\ At("top") /\ running /\ Retarget.source # None
    /\ LET f == format[Retarget.source] IN
       IF f # Retarget.lastFormat
       THEN RecreateDib(f) /\ Adopts(Retarget, f)
       ELSE Sleeps(Retarget, f) /\ UNCHANGED dib

(* CreateDIBSection failed: no buffer until the next pass.                 *)
DibFails ==
    /\ At("top") /\ running /\ Retarget.source # None
    /\ LET f == format[Retarget.source] IN
       f \notin {Retarget.lastFormat, dib.format} /\ Sleeps(Retarget, f)
    /\ dib' = NoDib

(* The target is the one the source was open for, and it is closed.        *)
NoFormat ==
    /\ At("top") /\ running
    /\ cameraIndex = worker.openFor /\ worker.source = None
    /\ Sleeps(worker, None)
    /\ UNCHANGED dib

(* After the sleep: SetCamera may have moved the target during it.  A      *)
(* frame of the size read before goes into the DIB if that has the size.   *)
Shows ==
    /\ At("wait") /\ running /\ cameraIndex = worker.openFor
    /\ worker.want # None /\ worker.fresh /\ format[worker.source] = worker.want
    /\ worker' = [worker EXCEPT !.pc = "top", !.fresh = FALSE]
    /\ dib' = IF dib.format = worker.want THEN [dib EXCEPT !.picture = worker.source] ELSE dib

(* Another target, nothing new, other dimensions, or the attempts ran out. *)
ShowsNothing ==
    /\ At("wait") /\ running
    /\ worker' = [worker EXCEPT !.pc = "top"]
    /\ UNCHANGED dib

WorkerProc ==
    /\ \/ Ends \/ OpenFails \/ ReadFormat \/ DibFails \/ NoFormat
       \/ Shows \/ ShowsNothing
    /\ UNCHANGED <<cameraIndex, hold, dialog, running, section, format>>
-----------------------------------------------------------------------------
(* The slots' controllers, as far as the preview sees them.                *)

(* A controller creates its bus; one that cannot stays in Fatal.           *)
SectionUp(s) ==
    /\ s \notin section
    /\ section' = section \cup {s}
    /\ UNCHANGED <<cameraIndex, hold, dialog, running, worker, dib, format>>

Noticed(s) == worker' = [worker EXCEPT !.fresh = @ \/ worker.source = s]

Publish(s) ==
    /\ s \in section /\ worker.source = s /\ ~worker.fresh
    /\ Noticed(s)
    /\ UNCHANGED <<cameraIndex, hold, dialog, running, dib, section, format>>

UpdateFormat(s, f) ==
    /\ format[s] # f
    /\ format' = [format EXCEPT ![s] = f]
    /\ Noticed(s)
    /\ UNCHANGED <<cameraIndex, hold, dialog, running, dib, section>>
-----------------------------------------------------------------------------
Next ==
    \/ \E s \in Slots : Attach(s) \/ Aim(s)
    \/ Detach \/ Detached
    \/ WorkerProc
    \/ \E s \in Slots : SectionUp(s) \/ Publish(s) \/ \E f \in Formats : UpdateFormat(s, f)

Spec == Init /\ [][Next]_vars

(* Both threads run on; buffers and copies do not fail for ever.  The host *)
(* owes nothing: a sleeping one publishes no frame.                        *)
FairSpec ==
    /\ Spec
    /\ WF_vars(Detached) /\ WF_vars(WorkerProc)
    /\ SF_vars(WorkerProc /\ ReadFormat) /\ SF_vars(WorkerProc /\ Shows)
-----------------------------------------------------------------------------
(* "the worker re-opens the source on its next loop"                       *)
(* (CameraPreview.h:48-49): an open dialog gets to show the camera it      *)
(* previews, once that settles, whether or not the host publishes more     *)
(* frames.  Except when a target that could not be opened was left again   *)
(* for the one before it (the worker takes that one's closed source for    *)
(* open), or the size came back after the buffer for another could not be  *)
(* made (the worker takes the buffer it has dropped for the one it had,    *)
(* although "a transient CreateDIBSection failure is retried on the next   *)
(* pass", CameraPreview.h:93-94).                                          *)
Settled(s, f) ==
    dialog = "open" /\ cameraIndex = s /\ s \in section /\ format[s] = f
Abandoned ==
    /\ worker.openFor = cameraIndex
    /\ worker.source = None \/ (dib = NoDib /\ worker.lastFormat = format[worker.source])
PreviewFollows ==
    \A s \in Slots, f \in Formats :
        <>[]Settled(s, f) => <>[](dib = [format |-> f, picture |-> s]) \/ <>[]Abandoned
=============================================================================
