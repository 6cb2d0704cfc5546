SPECIFICATION Spec
CONSTANTS
    MaxDocument = 1
    MaxRevision = 2
    MaxDeferred = 1
    MaxUp = 1
    Stimuli = 1
INVARIANTS
    OverridesOnTop
