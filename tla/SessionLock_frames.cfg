SPECIFICATION FairSpec
CONSTANTS
    Clients = {c1}
    Surfaces = {}
    Views = {v1, v2}
    NoLock = NoLock
    NoSurface = NoSurface
    MaxInFlight = 1
    Disturbances = 2
INVARIANTS
    ToldMeansSealed
    ProofIsFresh
PROPERTIES
    ImplementsPromise
    BarrierEnds
