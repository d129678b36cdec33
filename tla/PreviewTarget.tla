--------------------------- MODULE PreviewTarget ---------------------------
(***************************************************************************)
(* Which camera the settings dialog previews, and the hold by which the    *)
(* preview keeps that camera awake (src/host/CameraPreview.cpp).           *)
(***************************************************************************)
EXTENDS Integers

CONSTANTS
    Slots,      \* camera slots, numbers: the dialog takes the lowest one
    None

ASSUME TargetAssumption == Slots \subseteq Nat /\ None \notin Slots

VARIABLES
    cameraIndex,    \* _cameraIndex
    hold            \* each controller's _previewHold

TargetInit == cameraIndex = None /\ hold = [s \in Slots |-> FALSE]

KeepsOldHold(slot) == cameraIndex' = slot /\ hold' = [hold EXCEPT ![slot] = TRUE]  \* mutant

SetCamera(slot) ==
    /\ cameraIndex' = slot
    /\ hold' = [s \in Slots |-> s = slot \/ (hold[s] /\ s # cameraIndex)]

(* The hold goes first when the dialog closes, the object with the dialog. *)
ReleaseHold == hold' = [s \in Slots |-> hold[s] /\ s # cameraIndex]
Forget == cameraIndex' = None /\ UNCHANGED hold
=============================================================================
