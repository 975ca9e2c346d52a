SPECIFICATION EditSpec
CONSTANTS
    j1 = j1
    u1 = u1
    Jobs = {j1}
    Units <- MCOneUnit
    ParentOf <- MCParentOf
    EditBytes <- MCEditBytes
    MaxActive = 1
    MaxQueued = 1
    MaxEditBytes = 1
    MaxAttempts = 2
    MaxRecoveries = 1
    Mapped = {u1}
    Polled = {}
    Keyed = {u1}
    Reporting = {}
    Faults = {}
    Events = {"cancel", "forget"}
CHECK_DEADLOCK FALSE
INVARIANTS
    SourcesWhileNeeded
PROPERTIES
    ImplementsExecution
