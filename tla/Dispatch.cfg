CONSTANTS
    a = a
    b = b
    NoRun = NoRun
    Roots = {a, b}
    HasDeadline = TRUE
    MaxAttempts = 2
    MaxFaults = 3
    MaxRefusals = 1
    MaxCrashes = 1
SPECIFICATION FairSpec
INVARIANTS NothingLeft
PROPERTIES SubmissionKept CleanupEnds InterruptionSaved
CHECK_DEADLOCK FALSE
