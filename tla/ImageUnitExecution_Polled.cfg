SPECIFICATION FairSpec
CONSTANTS
    j1 = j1
    u1 = u1
    u2 = u2
    Jobs = {j1}
    Units <- MCOneUnit
    ParentOf <- MCParentOf
    EditBytes <- MCEditBytes
    MaxActive = 1
    MaxQueued = 1
    MaxEditBytes = 0
    MaxAttempts = 2
    MaxRecoveries = 1
    Mapped = {u1}
    Polled = {u1}
    Keyed = {}
    Reporting = {}
    Faults = {"crash", "shutdown", "dberror"}
CHECK_DEADLOCK FALSE
INVARIANTS
    NoDoubleSubmit
    SuccessHasImages
PROPERTIES
    CancelOnlyForUserOrDeadline
    ImplementsStore
    UnitsEnd
