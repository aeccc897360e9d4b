\* Two workers, two months, two Bronze writes and one fault.
SPECIFICATION FairSpec
CONSTANTS
    Selections <- Lists
    MaxProcesses = 2
    LastMonth = 2
    LookbackMonths = 1
    MaxWrites = 2
    MaxFaults = 1
    None = None
INVARIANTS TypeOK ReusedIsFresh PublishedStays RunBringsUpToDate
PROPERTIES Converges
