SPECIFICATION FairSpec
CONSTANTS
    MaxRestarts = 2
    MaxPoint = 2
    Fragmented = {"CONFIG", "RESUME", "SUSPENDED"}
    Faults = 4
INVARIANTS
    OneWorkerServes
PROPERTIES
    DeathsContained
    Recovers
