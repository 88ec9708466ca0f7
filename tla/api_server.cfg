CONSTANTS
    Request = {r1, r2}
    RequestTimeouts <- MCRequestTimeouts
    ShutdownTimeout = 2
SPECIFICATION FairSpec
INVARIANTS ApiServerTypeOK CleanExitAnswersAll DrainedInTime
PROPERTIES SignalEndsServer OnlyCommitHangs
CHECK_DEADLOCK FALSE
