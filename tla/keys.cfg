SPECIFICATION Spec
CONSTANTS
    Order <- POrder
    Kind <- PKind
    Parents <- PParents
    Adds <- PAdds
    Calls <- PCalls
    StoredRows <- Starts
    Optional = {}
    SelfRefs = {"c"}
    Grouped = {"o", "j"}
    GroupRefs <- PGroupRefs
    Numbered = {"p"}
    PoolLimit = 2
    ChunkRows = 2
    SelfRefDepth = 1
    RandomKeys = {1, 2, 3}
    Tags = {1, 2}
    NumberSpace = 4
    Null = Null
INVARIANTS KeysNeverRepeat RefsFit UniqueNeverRepeats JunctionComplete
CHECK_DEADLOCK FALSE
