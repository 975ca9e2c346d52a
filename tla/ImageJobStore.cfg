SPECIFICATION Spec
CONSTANTS
    j1 = j1
    j2 = j2
    u1 = u1
    u2 = u2
    u3 = u3
    Jobs <- MCJobs
    Units <- MCUnits
    ParentOf <- MCParentOf
    EditBytes <- MCEditBytes
    MaxActive = 1
    MaxQueued = 1
    MaxEditBytes = 3
    MaxAttempts = 2
    MaxRecoveries = 2
SYMMETRY MCSymmetry
INVARIANTS
    ReservationFollowsJob
PROPERTIES
    KeepsContract
