SPECIFICATION FairSpec
CONSTANTS
    vga = vga  qvga = qvga  ps3 = ps3  eyetoy = eyetoy
    Modes = {vga, qvga}
    Sensors = {1}
    Profiles = {ps3}
    Ps3Eye = ps3
    Serves <- ServesPs3
    Default <- DefaultPs3
    None = None
    LostAfter = 2
    MaxMoves = 3
PROPERTY PreviewSettles
CHECK_DEADLOCK FALSE
