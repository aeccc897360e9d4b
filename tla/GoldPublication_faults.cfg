\* Two siblings; two failing operations, one kill and one interrupt, anywhere.
SPECIFICATION FairSpec
CONSTANTS
    Siblings = 2
    MaxBuilds = 3
    MaxErrors = 2
    MaxInterrupts = 1
    MaxKills = 1
INVARIANTS TypeOK AllOrNothing FaultsLoseNothing NoMixedPair
PROPERTY Republishes
