---------------------------- MODULE MCInputPath -----------------------------
(* The two Shift keys and the key A; a queue that a burst fills.           *)
EXTENDS InputPath

MCKeys == {30, LEFT_SHIFT_MAKE, RIGHT_SHIFT_MAKE}
MCScancodes == MCKeys \cup {k + 128 : k \in MCKeys}

(* Fewer keys for the temporal properties: one character and one Shift.    *)
LiveKeys == {30, LEFT_SHIFT_MAKE}
LiveScancodes == LiveKeys \cup {k + 128 : k \in LiveKeys}
=============================================================================
