\* Full-gap and tail runs, failing windows and aborted runs.
SPECIFICATION Spec
CONSTANTS
    Minutes = 4
    PerMinute = 2
    WindowSize = 2
    TailRuns = TRUE
    MaxRuns = 3
    MaxFailures = 2
INVARIANTS WholeMinutes RescansGaps
CHECK_DEADLOCK FALSE
