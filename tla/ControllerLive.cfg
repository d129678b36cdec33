SPECIFICATION FairSpec
CONSTANTS
    vga = vga  qvga = qvga  ps3 = ps3  eyetoy = eyetoy
    Modes = {vga}
    Sensors = {1, 2}
    Profiles = {ps3}
    Ps3Eye = ps3
    Serves <- ServesVga
    Default <- DefaultPs3
    None = None
    LostAfter = 2
    MaxMoves = 3
PROPERTIES SettingsApplied ClientServed SleepsWhenIdle Unregistered StopTerminates
CHECK_DEADLOCK FALSE
