SPECIFICATION CacheSpec
CONSTANTS
    Nil = Nil
    Tables = {t1, t2}
    Calls <- MCCalls
    Forced <- MCForced
    Scans <- MCScans
    Runs = {run1}
    Written = {t1}
    MaxWrites = 1
INVARIANTS FreshUnlessOverlapped ShapesFresh
PROPERTY CallsReturn
CHECK_DEADLOCK FALSE
