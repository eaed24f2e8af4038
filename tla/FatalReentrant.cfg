SPECIFICATION Spec
CONSTANT
    MaxFormatBugs = 1
INVARIANT
    SecondEventNeverWaits
CHECK_DEADLOCK FALSE
