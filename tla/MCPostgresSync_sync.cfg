\* Two lineages two overlapping sync commands, one fault.
SPECIFICATION FairSpec
CONSTANTS
    s1 = s1  s2 = s2  a = a  b = b  plain = plain  wide = wide
    Syncers = {s1, s2}
    Lineages = {1, 2}
    Keys = {1, 2, 3}
    Payloads = {a, b}
    Schemas = {plain}
    LockKeys = {1, 2}
    NoRow = NoRow
    Keep = Keep
    MaxRevisions = 2
    KeepVersions = 1
    SourceRows <- TwoLineages
    SchemaOf <- SameSchema
    LockKeyOf <- OwnLock
    MaxBuilds = 2
    MaxFaults = 1
    MaxExternal = 0
INVARIANTS TypeOK ServedIsPublished
PROPERTIES ImplementsServing Converges
\* Once the bounds on builds and faults are used up nothing may be left to do.
CHECK_DEADLOCK FALSE
