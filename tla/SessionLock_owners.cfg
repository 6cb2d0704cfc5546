SPECIFICATION Spec
CONSTANTS
    Clients = {c1, c2}
    Surfaces = {s1, s2}
    Views = {v1, v2}
    NoLock = NoLock
    NoSurface = NoSurface
    MaxInFlight = 1
    Disturbances = 3
VIEW OwnersView
SYMMETRY Symmetry
INVARIANTS
    TypeOK
    OnlyOwnerSurfaces
PROPERTIES
    OwnerKeepsLock
