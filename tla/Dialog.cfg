\* Two slots, three edits, two cameras plugged in or out.
SPECIFICATION FairSpec
CONSTANTS
    None = None
    Slots <- MCSlots
    Kinds = {"ps3", "eyetoy"}
    Ps3 = "ps3"
    ModesOf <- MCModesOf
    DefaultOf <- MCDefaultOf
    FirstPs3Mode = "vga75"
    Levels = {0, 1}
    DefaultLevel = 0
    MaxEdits = 3
    MaxPlugs = 2
    MaxShows = 2
INVARIANTS TypeOK SavedIsApplied HoldsWhatItShows
PROPERTY ListCatchesUp
CHECK_DEADLOCK FALSE
