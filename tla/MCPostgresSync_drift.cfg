\* One lineage of three revisions edited by hand, reconstructed, and widened by the third.
SPECIFICATION Spec
CONSTANTS
    s1 = s1  s2 = s2  a = a  b = b  plain = plain  wide = wide
    Syncers = {s1, s2}
    Lineages = {1}
    Keys = {1, 2, 3}
    Payloads = {a, b}
    Schemas = {plain, wide}
    LockKeys = {1}
    NoRow = NoRow
    Keep = Keep
    MaxRevisions = 3
    KeepVersions = 2
    SourceRows <- OneLineage
    SchemaOf <- WiderSchema
    LockKeyOf <- OwnLock
    MaxBuilds = 3
    MaxFaults = 1
    MaxExternal = 2
SYMMETRY SyncerSymmetry
INVARIANTS SchemaAgrees HandledIsServed
PROPERTIES OnlyOperatorsLiftQuarantine ImplementsServing
CHECK_DEADLOCK FALSE
