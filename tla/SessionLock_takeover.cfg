SPECIFICATION FairSpec
CONSTANTS
    Clients = {c1}
    Surfaces = {}
    Views = {v1}
    NoLock = NoLock
    NoSurface = NoSurface
    MaxInFlight = 1
    Disturbances = 1
PROPERTIES TakeoverStaysPossible
