--------------------------- MODULE MCMediaStream ---------------------------
(* Instances of MediaStream for TLC.                                       *)
EXTENDS MediaStream

CONSTANTS s1, s2, t1, t2

\* Both requesters call s1; s2 is another client, whose control calls count.
MCStreamOf == [t \in {t1, t2} |-> s1]

\* An EyeToy with two sizes; NV12 is delivered like YUY2.
MCModes == <<[size |-> "large", formats |-> {"yuy2"}],
             [size |-> "small", formats |-> {"mjpg"}]>>
=============================================================================
