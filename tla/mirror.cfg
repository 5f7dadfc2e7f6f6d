SPECIFICATION Spec
CONSTANTS
    Sides <- ChainAndJoin
    Ignores <- NoneOrOne
    Selections <- AllOrSome
    Volumes = {0, 2}
    ScaleNum = 1
    ScaleDen = 2
    MaxRows = 0
    ParentRows = 1
INVARIANTS PlanIsSeedable OnlyPlannedEmptied NoDangling
PROPERTIES Termination
