------------------------- MODULE MCSettingsDialog -------------------------
(* Instances of SettingsDialog for TLC.                                    *)
EXTENDS SettingsDialog

\* Two PS3 modes, the default being the second of the list, and an EyeToy mode.
MCModesOf == [k \in Kinds |-> IF k = "ps3" THEN {"vga75", "vga60"} ELSE {"qvga15"}]
MCDefaultOf == [k \in Kinds |-> IF k = "ps3" THEN "vga60" ELSE "qvga15"]
MCSlots == {0, 1}
=============================================================================
