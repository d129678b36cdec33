------------------------ MODULE MCCaptureController ------------------------
(* Small instances of CaptureController for TLC.                           *)
EXTENDS CaptureController, TLC

CONSTANTS vga, qvga, ps3, eyetoy

(* The PS3 Eye serves both modes, the EyeToy only the small one.           *)
ServesBoth  == (ps3 :> {vga, qvga}) @@ (eyetoy :> {qvga})
DefaultBoth == (ps3 :> vga) @@ (eyetoy :> qvga)

(* A host with PS3 Eyes only.                                              *)
ServesPs3  == ps3 :> {vga, qvga}
DefaultPs3 == ps3 :> vga

ServesVga  == ps3 :> {vga}
=============================================================================
