SPECIFICATION Spec
CONSTANTS
    t1 = t1
    d1 = d1
    d2 = d2
    l1 = l1
    i1 = i1
    i2 = i2
    p1 = p1
    p2 = p2
    Tenants = {t1}
    DataSources = {d1, d2}
    Logicals = {l1}
    Issuers = {i1, i2}
    Bodies = {"x", "y"}
    Revisions = {1, 2, 3}
    Contracts = {3}
    MaxGeneration = 4
    None = None
    Corrupt = Corrupt
    Publishers = {p1}
    Contract <- OneContract
    Snapshots <- ResourceSnapshots
    MaxFaults = 2
INVARIANTS
    ResourceRevisionsAdvance
    NoDanglingBindingOnDisk
    RetryAdmitted
