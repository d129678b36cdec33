-------------------------- MODULE MCCameraPreview --------------------------
(* Instances of CameraPreview for TLC.                                     *)
EXTENDS CameraPreview

MCSlots == {0, 1}
=============================================================================
