SPECIFICATION Spec
CONSTANTS
    Width = 4
    Height = 2
    Visible = {"a", "b", ">"}
    Foreign = {}
    Typable = {"a", "b", " "}
    PROMPT <- MCPrompt
    LINE_CAPACITY = 5
    Name <- MCName
    Kind <- MCKind
    Reply <- MCReply
INVARIANTS
    TypeOK
    LineIsWhatIsShown
    BackspaceHitsTheLine
PROPERTIES
    EchoIsSeen
    
CHECK_DEADLOCK FALSE
