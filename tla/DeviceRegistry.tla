--------------------------- MODULE DeviceRegistry ---------------------------
(***************************************************************************)
(* The slot map of src/host/DeviceRegistry.cpp with the PS3 driver's pool  *)
(* of src/third_party/ps3eye/ps3eye.cpp: which camera is which of the      *)
(* virtual cameras 0..7, while users plug and unplug both device types.    *)
(*                                                                         *)
(* Every query of the registry (ProfileForSlot, SlotDisplayName, Acquire,  *)
(* Rescan) rebuilds the map under one lock, so a rebuild is one step; the  *)
(* queries only read what it leaves.  A port path is a port number, in the *)
(* order in which the code sorts paths.  The libusb_device a PS3 Eye gets  *)
(* when it is plugged in is the pair of its port and a count of arrivals   *)
(* there: the same object as long as it stays plugged, a new one after.    *)
(***************************************************************************)
EXTENDS Integers, FiniteSets, Functions

CONSTANTS
    SlotCount,     \* kVCamCount = kDeviceSlotCount (8)
    Ports,         \* USB ports
    None,          \* nothing plugged, empty slot
    Reliable,      \* libusb delivers every device list and opens every camera
    MaxArrivals    \* bound on the plugging in of cameras

ASSUME RegistryAssumption ==
    /\ SlotCount \in Nat
    /\ Ports \subseteq Int /\ IsFiniteSet(Ports)
    /\ None \notin Ports \cup (Ports \X Nat)
    /\ Reliable \in BOOLEAN /\ MaxArrivals \in Nat

VARIABLES
    plugged,       \* plugged[p]: the device type on port p, or None
    arrivals,      \* arrivals[p]: cameras plugged into p so far
    devices,       \* devices[s]: the driver's PS3 object of slot s, or None
    eyeToySlot     \* g_eyeToySlot[s]: the EyeToy's port path of slot s, or None

vars == <<plugged, arrivals, devices, eyeToySlot>>

Slots   == 0..(SlotCount - 1)
Types   == {"ps3", "eyetoy"}
Objects == Ports \X Nat
Path(object) == object[1]

\* The libusb_device of the camera that is on port p now.
Current(p) == <<p, arrivals[p]>>
Ps3Eyes == {Current(p) : p \in {q \in Ports : plugged[q] = "ps3"}}
EyeToys == {p \in Ports : plugged[p] = "eyetoy"}

EmptyMap == [s \in Slots |-> None]
Values(map) == {map[s] : s \in Slots} \ {None}

-----------------------------------------------------------------------------
(* The world. *)

Arrivals == FoldFunction(+, 0, arrivals)

Plug(p, type) ==
    /\ plugged[p] = None /\ Arrivals < MaxArrivals
    /\ plugged' = [plugged EXCEPT ![p] = type]
    /\ arrivals' = [arrivals EXCEPT ![p] = @ + 1]
    /\ UNCHANGED <<devices, eyeToySlot>>

Unplug(p) ==
    /\ plugged[p] # None
    /\ plugged' = [plugged EXCEPT ![p] = None]
    /\ UNCHANGED <<arrivals, devices, eyeToySlot>>

-----------------------------------------------------------------------------
(* The PS3 driver: getDevices(true). *)

\* A mutant: every enumeration starts from an empty pool.
KeepNothing(listed) == EmptyMap

\* A mutant: a slot keeps its object when its port path is still listed.
KeepByPath(listed) ==
    [s \in Slots |-> IF devices[s] # None /\ \E d \in listed : Path(d) = Path(devices[s])
                       THEN devices[s] ELSE None]

\* Phase 1: a slot whose exact object is still listed keeps it.
Keep(listed) == [s \in Slots |-> IF devices[s] \in listed THEN devices[s] ELSE None]

\* Phase 2a: new objects whose port has just vacated a slot return to it, those
\* of them that libusb_open accepts.
Returning(pool, new) ==
    {d \in new : \E s \in Slots :
        pool[s] = None /\ devices[s] # None /\ Path(devices[s]) = Path(d)}

Replugged(pool, opened) ==
    [s \in Slots |->
        IF pool[s] = None /\ devices[s] # None /\ \E d \in opened : Path(d) = Path(devices[s])
          THEN CHOOSE d \in opened : Path(d) = Path(devices[s])
          ELSE pool[s]]

\* Phase 2b: the other new objects take the empty slots from the lowest up, in
\* whatever order libusb lists them; one that does not open leaves the slot to
\* the next.
FirstEmpty(pool) ==
    LET empty == {s \in Slots : pool[s] = None}
    IN {low \in SUBSET empty : \A s \in low, t \in empty : t < s => t \in low}

Adoptions(pool, new) ==
    LET fills == UNION {{f \in [low -> new] : IsInjective(f)} : low \in FirstEmpty(pool)}
    IN IF Reliable THEN {f \in fills : \/ Range(f) = new
                                      \/ \A s \in Slots \ DOMAIN f : pool[s] # None}
                   ELSE fills

Adopt(pool, adoption) ==
    [s \in Slots |-> IF s \in DOMAIN adoption THEN adoption[s] ELSE pool[s]]

-----------------------------------------------------------------------------
(* The registry: RebuildLocked. *)

\* A mutant: without the test of the PS3 pool.
KeepEyeToysAnyway(listed, ps3) ==
    [s \in Slots |-> IF eyeToySlot[s] \in listed THEN eyeToySlot[s] ELSE None]

\* Phase 1: a listed EyeToy keeps its slot unless a PS3 Eye has claimed it.
KeepEyeToys(listed, ps3) ==
    [s \in Slots |-> IF eyeToySlot[s] \in listed /\ ps3[s] = None
                       THEN eyeToySlot[s] ELSE None]

\* A mutant: a kept path stays on the list of new ones.
NewEyeToysNotErased(listed, kept) == listed

\* A mutant: only a path that had no slot before counts as new.
NewEyeToysUnseen(listed, kept) == listed \ Values(eyeToySlot)

\* The listed EyeToys without a slot.
NewEyeToys(listed, kept) == listed \ Values(kept)

\* A mutant: every rebuild assigns all EyeToys anew.
AssignEyeToysAfresh(listed, kept, ps3) ==
    LET free == {s \in Slots : ps3[s] = None}
        Meets(p, s) == Cardinality({q \in listed : q < p}) = Cardinality({t \in free : t > s})
    IN [s \in Slots |-> IF s \in free /\ \E p \in listed : Meets(p, s)
                          THEN CHOOSE p \in listed : Meets(p, s)
                          ELSE None]

\* A mutant: the walk down from the top starts one slot past the end.
AssignEyeToysPastTheEnd(listed, kept, ps3) ==
    LET new == NewEyeToys(listed, kept)
    IN [s \in 0..SlotCount |-> IF s = SlotCount
          THEN IF new = {} THEN None ELSE CHOOSE p \in new : \A q \in new : p <= q
          ELSE kept[s]]

\* Phase 2: the new ones, in the order of their paths, take the free slots from
\* the highest down: the n-th of the paths gets the n-th slot from the top.
AssignEyeToys(listed, kept, ps3) ==
    LET new  == NewEyeToys(listed, kept)
        free == {s \in Slots : kept[s] = None /\ ps3[s] = None}
        Meets(p, s) == Cardinality({q \in new : q < p}) = Cardinality({t \in free : t > s})
    IN [s \in Slots |-> IF s \in free /\ \E p \in new : Meets(p, s)
                          THEN CHOOSE p \in new : Meets(p, s)
                          ELSE kept[s]]

\* One rebuild from what the two enumerations list.
RebuildLocked(ps3Listed, eyesListed) ==
    /\ LET kept == Keep(ps3Listed)
           new  == ps3Listed \ Values(kept)
       IN \E opened \in IF Reliable THEN {Returning(kept, new)} ELSE SUBSET Returning(kept, new) :
          LET pool == Replugged(kept, opened)
          IN \E adoption \in Adoptions(pool, new \ opened) :
                devices' = Adopt(pool, adoption)
    /\ eyeToySlot' = AssignEyeToys(eyesListed, KeepEyeToys(eyesListed, devices'), devices')
    /\ UNCHANGED <<plugged, arrivals>>

Rebuild == RebuildLocked(Ps3Eyes, EyeToys)

\* A device list that libusb fails to deliver is an empty one.
RebuildBlind ==
    /\ ~Reliable
    /\ \/ RebuildLocked({}, EyeToys)
       \/ RebuildLocked(Ps3Eyes, {})
       \/ RebuildLocked({}, {})

-----------------------------------------------------------------------------

Init ==
    /\ plugged = [p \in Ports |-> None]
    /\ arrivals = [p \in Ports |-> 0]
    /\ devices = EmptyMap
    /\ eyeToySlot = EmptyMap

Next ==
    \/ \E p \in Ports, type \in Types : Plug(p, type)
    \/ \E p \in Ports : Unplug(p)
    \/ Rebuild
    \/ RebuildBlind

Spec == Init /\ [][Next]_vars

-----------------------------------------------------------------------------
(* Properties. *)

\* The type invariant: pool, EyeToy slots and ports hold what they may hold.
TypeOK ==
    /\ plugged \in [Ports -> Types \cup {None}]
    /\ arrivals \in [Ports -> Nat]
    /\ devices \in [Slots -> Objects \cup {None}]
    /\ eyeToySlot \in [Slots -> Ports \cup {None}]

\* No slot has a PS3 Eye and an EyeToy, however the two enumerations change
\* between rebuilds (Acquire relies on it, DeviceRegistry.cpp:147).
NeverShared == \A s \in Slots : devices[s] = None \/ eyeToySlot[s] = None

\* No camera is in two slots, neither a PS3 object of the driver's pool nor an
\* EyeToy's port path.
OneSlotEach ==
    \A s, t \in Slots : s # t =>
        /\ devices[s] # None => devices[s] # devices[t]
        /\ eyeToySlot[s] # None => eyeToySlot[s] # eyeToySlot[t]

\* A rebuild leaves no object in the pool of a camera that has gone, replugged
\* into the same port or not: such a slot would stay dead until the host is
\* restarted (ps3eye.cpp:1294-1298).
NoStaleObject ==
    [][Rebuild \/ RebuildBlind => Values(devices') \subseteq Ps3Eyes]_vars

\* A PS3 Eye that stays plugged in keeps its slot through every rebuild.
Ps3StaysPut ==
    [][Rebuild => \A s \in Slots : devices[s] \in Ps3Eyes => devices'[s] = devices[s]]_vars

\* An EyeToy that is plugged in keeps its slot through every rebuild, also when
\* it was replugged in between, unless a PS3 Eye takes the slot.
EyeToyStaysPut ==
    [][Rebuild => \A s \in Slots : eyeToySlot[s] \in EyeToys =>
                      eyeToySlot'[s] = eyeToySlot[s] \/ devices'[s] # None]_vars

\* After a rebuild every EyeToy has a slot, the one a PS3 Eye has just displaced
\* included, or no slot is left.
EyeToysPlaced ==
    [][Rebuild => \/ EyeToys \subseteq Values(eyeToySlot')
                  \/ \A s \in Slots : devices'[s] # None \/ eyeToySlot'[s] # None]_vars
=============================================================================
