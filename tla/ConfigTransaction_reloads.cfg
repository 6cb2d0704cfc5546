SPECIFICATION FairSpec
CONSTANTS
    MaxDocument = 1
    MaxRevision = 2
    MaxDeferred = 1
    MaxUp = 1
    Stimuli = 2
INVARIANTS
    Agreement
    RevisionsFit
    QueuesSound
PROPERTIES
    RequestsAnswered
