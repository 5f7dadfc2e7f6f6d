SPECIFICATION Spec
CONSTANTS
    Spellings <- MCSpellings
    Raw <- MCRaw
    KeyOf <- MCKey
    DbOf <- MCDb
    NameOf <- MCName
    Ids = {"i1", "i2", "i3"}
    Labels = {"prod", "db", "a", "b"}
    None = None
    Requests = {r1, r2}
    Sids = {s1, s2}
    Forms <- MCForms
    Lists <- MCLists
    Starts <- MCStarts
    Kinds = {"seed", "gaps", "mirror", "clone"}
    Faults <- SomeFault
    Typed = {"prod", None}
SYMMETRY Symmetry
INVARIANTS WritesGuarded CachesFollowRuns SequencesSettle
PROPERTIES SavesAskForLabel
CHECK_DEADLOCK FALSE
