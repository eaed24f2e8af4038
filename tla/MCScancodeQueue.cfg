SPECIFICATION Spec
CONSTANTS
    Capacity = 3
    Scancodes <- MCScancodes
    None = None
INVARIANTS
    TypeOK
    IndexesAgree
PROPERTY
    ImplementsFifo
