SPECIFICATION RuntimeSpec
CONSTANTS
    t1 = t1
    d1 = d1
    d2 = d2
    l1 = l1
    p1 = p1
    Tenants = {t1}
    DataSources = {d1, d2}
    Logicals = {l1}
    Issuers = {}
    Bodies = {"x", "y"}
    Revisions = {1, 2, 3}
    Contracts = {3}
    MaxGeneration = 3
    None = None
    Corrupt = Corrupt
    Publishers = {p1}
    Contract <- OneContract
    Snapshots <- MoveSnapshots
    MaxFaults = 1
    KeepsCopy = TRUE
    MaxReaderFaults = 1
    MaxReverts = 1
    MaxCopyLosses = 2
INVARIANTS
    RuntimeTypeOK
    ViewIsOneGeneration
PROPERTIES
    ServedNeverRegresses
    CopyFollowsService
    ImplementsService
