\* One full-gap run over a quiet first instant of the last closed minute.
SPECIFICATION Spec
CONSTANTS
    Minutes = 3
    PerMinute = 2
    WindowSize = 1
    TailRuns = FALSE
    MaxRuns = 2
    MaxFailures = 0
INVARIANT EmptyIsQuiet
CHECK_DEADLOCK FALSE
