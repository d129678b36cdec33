\* Two streams of one slot, two requests of one of them at a time, two frames.
SPECIFICATION FairSpec
CONSTANTS
    s1 = s1
    s2 = s2
    t1 = t1
    t2 = t2
    Streams = {s1, s2}
    Requesters = {t1, t2}
    StreamOf <- MCStreamOf
    Modes <- MCModes
    DefaultFormat = "yuy2"
    MaxAttempts = 2
    MaxFrames = 2
    MaxRuns = 2
    None = None
INVARIANTS FreshIsWhole RepeatsPrevious
PROPERTIES NeverRepeats DeliveryEnds MaskRestored PictureArrives
CHECK_DEADLOCK FALSE
