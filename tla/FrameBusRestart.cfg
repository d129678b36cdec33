\* The host dies at any step and a second one re-creates the section.
SPECIFICATION FairSpec
CONSTANTS
    Readers = {r1}
    MaxWidth = 2
    MaxHeight = 1
    MaxJpeg = 1
    Formats <- MCOneFormat
    MaxAttempts = 1
    MaxFrames = 3
    MaxCreates = 2
INVARIANTS UntornRead FramesInOrder
PROPERTY NewestDelivered
