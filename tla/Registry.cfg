SPECIFICATION Spec
CONSTANTS
    SlotCount = 3
    Ports = {1, 2, 3, 4}
    None = None
    Reliable = FALSE
    MaxArrivals = 5
INVARIANTS TypeOK NeverShared OneSlotEach
PROPERTIES NoStaleObject Ps3StaysPut EyeToyStaysPut EyeToysPlaced
