SPECIFICATION FairSpec
CONSTANT
    MaxFormatBugs = 2
INVARIANTS
    TypeOK
    NoSelfDeadlock
    HaltIsReported
    HaltIsFinal
    NeverResets
    GreenMeansPassed
PROPERTIES
    FatalEventHalts
    BreakpointReturns
    PanicAgainHalts
    TestRunIsJudged
CHECK_DEADLOCK FALSE
