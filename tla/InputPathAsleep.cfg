SPECIFICATION Spec
CONSTANTS
    None = None
    Capacity = 2
    Keys <- LiveKeys
    Scancodes <- LiveScancodes
    MaxTyped = 3
INVARIANT
    NoKeyLeftAsleep
CHECK_DEADLOCK FALSE
