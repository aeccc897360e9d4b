\* Two plans over a midnight, with and without saving, one fault.
SPECIFICATION FairSpec
CONSTANTS
    Tasks = {1, 2, 3}
    Kind <- ThreeKinds
    Plans <- Scheduled
    SaveModes = {TRUE, FALSE}
    PerDay = 2
    MaxTime = 3
    MaxFaults = 1
INVARIANTS TypeOK SavedIsPersisted ResumeIsComplete FullGapIsComplete
PROPERTY GapsAreFilled
