\* What the header says of a camera that vanishes, against what happens.  Nobody
\* edits anything.
SPECIFICATION Spec
CONSTANTS
    None = None
    Slots <- MCSlots
    Kinds = {"ps3", "eyetoy"}
    Ps3 = "ps3"
    ModesOf <- MCModesOf
    DefaultOf <- MCDefaultOf
    FirstPs3Mode = "vga75"
    Levels = {0, 1}
    DefaultLevel = 0
    MaxEdits = 0
    MaxPlugs = 2
    MaxShows = 2
INVARIANT ViewOfSelected
CHECK_DEADLOCK FALSE
