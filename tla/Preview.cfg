\* Two slots whose buses are in one of two formats.  Nothing is bounded.
SPECIFICATION FairSpec
CONSTANTS
    None = None
    Slots <- MCSlots
    Formats = {"vga", "qvga"}
PROPERTY PreviewFollows
