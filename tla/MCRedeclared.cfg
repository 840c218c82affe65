SPECIFICATION RuntimeSpec
CONSTANTS
    t1 = t1
    d1 = d1
    d2 = d2
    l1 = l1
    p1 = p1
    Tenants = {t1}
    DataSources = {d1, d2}
    Logicals = {l1}
    Issuers = {}
    Bodies = {"x", "y"}
    Revisions = {1, 2, 3}
    Contracts = {3}
    MaxGeneration = 3
    None = None
    Corrupt = Corrupt
    Publishers = {p1}
    Contract <- OneContract
    Snapshots <- RedeclareSnapshots
    MaxFaults = 2
    KeepsCopy = FALSE
    MaxReaderFaults = 0
    MaxReverts = 0
    MaxCopyLosses = 0
INVARIANTS
    AdmittedIsTaken
