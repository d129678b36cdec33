---------------------------- MODULE DeviceIndex ----------------------------
(***************************************************************************)
(* DeviceRegistry with a memory: the slot a PS3 Eye was given last, for    *)
(* what the driver says about replugged cameras.  Each port has a PS3 Eye  *)
(* of its own.                                                             *)
(***************************************************************************)
EXTENDS DeviceRegistry

VARIABLE home      \* home[p]: the last slot of the PS3 Eye on port p, or None

SlotsOf(p) == {s \in Slots : devices[s] # None /\ Path(devices[s]) = p}

HInit == Init /\ home = [p \in Ports |-> None]

HNext ==
    /\ \/ \E p \in Ports : Plug(p, "ps3")
       \/ \E p \in Ports : Unplug(p)
       \/ Rebuild
    /\ home' = [p \in Ports |-> IF SlotsOf(p)' # {} THEN CHOOSE s \in SlotsOf(p)' : TRUE
                                                    ELSE home[p]]

HSpec == HInit /\ [][HNext]_<<vars, home>>

\* What the driver says of its pool (ps3eye.cpp:1253): "each physical camera
\* keeps its index (0..7) across refreshes, unplugs, and replugs."
KeepsIndex ==
    [][\A p \in Ports : home[p] # None => home'[p] = home[p]]_<<vars, home>>
=============================================================================
