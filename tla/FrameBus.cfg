\* One incarnation of the host, two geometries.  One reader: readers share no
\* state with each other.
SPECIFICATION FairSpec
CONSTANTS
    Readers = {r1}
    MaxWidth = 2
    MaxHeight = 2
    MaxJpeg = 1
    Formats <- MCFormats
    MaxAttempts = 2
    MaxFrames = 3
    MaxCreates = 1
INVARIANTS TypeOK WholeFrame
PROPERTY AtomicReads
