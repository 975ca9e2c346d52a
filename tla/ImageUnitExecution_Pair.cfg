SPECIFICATION ExecSpec
CONSTANTS
    j1 = j1
    u1 = u1
    u2 = u2
    Jobs = {j1}
    Units <- MCTwoUnits
    ParentOf <- MCParentOf
    EditBytes <- MCEditBytes
    MaxActive = 2
    MaxQueued = 1
    MaxEditBytes = 0
    MaxAttempts = 1
    MaxRecoveries = 1
    Mapped = {}
    Polled = {}
    Keyed = {}
    Reporting = {u1, u2}
    Faults = {}
CHECK_DEADLOCK FALSE
INVARIANTS
    AggregationOwed

SYMMETRY MCSymmetry
