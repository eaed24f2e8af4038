SPECIFICATION Spec
CONSTANTS
    Width = 3
    Height = 3
    Visible = {"a"}
    Foreign = {}
INVARIANT
    CursorOnLastRow
CHECK_DEADLOCK FALSE
