SPECIFICATION Spec
CONSTANTS
    Sides <- LongChain
    Ignores <- OnlyA
    Selections <- OnlyD
    Volumes = {0, 2}
    ScaleNum = 1
    ScaleDen = 2
    MaxRows = 0
    ParentRows = 1
INVARIANTS IgnoredParentSkipped
