\* Two sessions of a device with two transfers, while another comes and goes.
SPECIFICATION FairSpec
CONSTANTS
    Ring = {x1, x2}
    MaxJpeg = 3
    MaxFrames = 3
    MaxSessions = 2
INVARIANTS TypeOK ThreadServesHolders
PROPERTIES FreesWhatIsBack TakesNewFrames StopReturns
CHECK_DEADLOCK FALSE
