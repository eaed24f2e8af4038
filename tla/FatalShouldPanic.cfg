SPECIFICATION Spec
CONSTANT
    MaxFormatBugs = 0
INVARIANT
    GreenMeansOwnPanic
CHECK_DEADLOCK FALSE
