\* All four users, one after the other, and attention beside them.
SPECIFICATION UsersSpec
CONSTANTS
    MaxSlots = 4
    SlotWeights <- MCWeights
    Nothing = Nothing
    Unfilled = Unfilled
    Users = {"plugin", "vision", "lm", "script"}
    Uses <- MCUses
    Asks <- MCAsks
    AttnK = 2
    AttnV = 3
    Attends = TRUE
    Keys = {0, 1}
    CacheSlots = 2
    Stale = Stale
    Checking = {"plugin", "vision", "lm", "script"}
    Exclusive = TRUE
INVARIANTS UsersTypeOK OwnWeights LoadedStays
