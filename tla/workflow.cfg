CONSTANTS
    Names = {wf}
    OwnIds = {3}
    Requests = {r1, r2, r3}
    MaxRows = 2
    MaxProcesses = 1
    MaxFaults = 1
    Enabled = {"KAFKA"}
    EventsBroker = "KAFKA"
    Named = {"KAFKA"}

SPECIFICATION Spec
SYMMETRY Symmetry
CHECK_DEADLOCK FALSE
INVARIANTS
    NoOrphans
    DeletesAreExact
    FailedSavesLeaveNothing
    ReportedVersionIsKnown
    AnnouncedOnce
PROPERTIES
    RegistryImplemented
