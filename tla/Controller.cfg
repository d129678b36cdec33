SPECIFICATION Spec
CONSTANTS
    vga = vga  qvga = qvga  ps3 = ps3  eyetoy = eyetoy
    Modes = {vga, qvga}
    Sensors = {1, 2}
    Profiles = {ps3, eyetoy}
    Ps3Eye = ps3
    Serves <- ServesBoth
    Default <- DefaultBoth
    None = None
    LostAfter = 2
    MaxMoves = 4
INVARIANTS TypeOK CameraRunsActive AsleepIsDark WakeNotLost SettingsKept
CHECK_DEADLOCK FALSE
