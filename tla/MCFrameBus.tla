----------------------------- MODULE MCFrameBus -----------------------------
(* Instances of FrameBus for TLC.                                          *)
EXTENDS FrameBus

\* 320x240 and 640x480 in units of 320x240: a reader can meet a
\* half-stored geometry.
MCFormats == {<<1, 1>>, <<2, 2>>}

\* One geometry, of two cells: the least a copy can be torn across.
MCOneFormat == {<<2, 1>>}
=============================================================================
