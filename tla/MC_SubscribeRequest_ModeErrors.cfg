CONSTANTS
    Words <- MCWords
    PathStrs <- MCPathStrs
    BadPaths <- MCBadPaths
    Origins <- MCOrigins
    Intervals <- MCIntervals
    MaxPaths = 2
SPECIFICATION Spec
\* NewSubscribeRequest is one call that returns: a state after it has no successor.
CHECK_DEADLOCK FALSE
INVARIANT ModeErrorsAreInvalidArgument
