\* One model: reloads, closed contexts and half-way failures.
SPECIFICATION Spec
CONSTANTS
    MaxSlots = 10
    SlotWeights <- MCWeights
    Nothing = Nothing
    Unfilled = Unfilled
    Models = {A}
    Tokens = {t1, t2}
    MaxSeq = 2
    NLayers = 2
    Reads <- MCReads
    KvRoles <- MCKvRoles
    Embed <- MCEmbed
    KeyValue <- MCKeyValue
    Block <- MCBlock
    Hidden <- MCHidden
    SwiGlu = FALSE
    ProjBlocks = 1
    LoadRoles = 4
    LoadStride = 4
    RaiseAt <- MCRaiseAt
    ForeignNw = {6, 8}
    Refusals <- MCRefusals
    ResetsFirst = TRUE
    NoModel = NoModel
    NoToken = NoToken
    Junk = Junk
    Stale = Stale
INVARIANTS TypeOK LogitsOfContext RolesInPlace CacheOfContext
PROPERTY Implements
