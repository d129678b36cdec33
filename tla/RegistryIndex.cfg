SPECIFICATION HSpec
CONSTANTS
    SlotCount = 3
    Ports = {1, 2}
    None = None
    Reliable = TRUE
    MaxArrivals = 4
PROPERTIES KeepsIndex
