\* Commands with the fixed version and with automatic versions, in any order.
SPECIFICATION RetentionSpec
CONSTANTS
    btc = btc  eth = eth
    Symbols = {btc, eth}
    Contents = {1, 2}
    Keep = 2
    Modes = {FALSE, TRUE}
    MaxCommands = 5
    MaxChanges = 3
INVARIANTS RetainsUnlessSuperseded DeclaredUnlessSuperseded
PROPERTY OnlySupersededRemoved
CHECK_DEADLOCK FALSE
