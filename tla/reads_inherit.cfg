SPECIFICATION Spec
CONSTANTS
    NoOne = NoOne
    NoConn = NoConn
    NoItem = NoItem
    Conns = {c1, c2}
    Settings <- MCSettings
    Runs = {1, 2}
    Writing = {1}
    Reserved <- MCReserved
    Counters = {w1}
    Scanners = {w2}
    TableOrder <- MCTables
    EdgeOrder <- MCEdges
    Exact = TRUE
    IncludeUnindexed = FALSE
INVARIANT LimitsNeverInherited
CHECK_DEADLOCK FALSE
