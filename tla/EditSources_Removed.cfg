SPECIFICATION EditFairSpec
CONSTANTS
    j1 = j1
    u1 = u1
    Jobs = {j1}
    Units <- MCOneUnit
    ParentOf <- MCParentOf
    EditBytes <- MCEditBytes
    MaxActive = 1
    MaxQueued = 1
    MaxEditBytes = 1
    MaxAttempts = 2
    MaxRecoveries = 1
    Mapped = {}
    Polled = {}
    Keyed = {}
    Reporting = {}
    Faults = {}
    Events = {"withdraw", "abort", "stale"}
CHECK_DEADLOCK FALSE
PROPERTIES
    SourcesRemoved
