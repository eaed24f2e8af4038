SPECIFICATION Spec
CONSTANTS
    Width = 3
    Height = 3
    Visible = {"a"}
    Foreign = {"e1"}
INVARIANTS
    TypeOK
    CursorFollows
    ScreenShowsNewestRows
