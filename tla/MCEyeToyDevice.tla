--------------------------- MODULE MCEyeToyDevice ---------------------------
(* Instances of EyeToyDevice for TLC: a run names the ring's transfers.    *)
EXTENDS EyeToyDevice
=============================================================================
