SPECIFICATION Spec
CONSTANTS
    k1 = k1
    k2 = k2
    Controls <- TwoControls
    Matchers <- FewMatchers
    MaxQueue = 2
    MaxEvents = 4
    MaxRevision = 2
INVARIANTS
    NoOrphanRelease
