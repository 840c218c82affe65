SPECIFICATION Spec
CONSTANTS
    Scenarios = {"registries", "leftovers", "unanswered", "reconcile", "passes", "releases", "upgrading", "history", "described"}
    Hosts = {ghcr, own}  Repositories = {i1, i2}  HostOf <- HomeOf
    Endpoints = {e1, e2}  Hosted <- FixedEndpoints  DeploymentHost = ghcr
    SecretIds = {s1, x1, x2}  Earlier <- LeftSets
    MaxChanges = 2  MaxFaults = 1
    None = None  p1 = p1  o1 = o1  x1 = x1  x2 = x2  y1 = y1  y2 = y2
    ghcr = ghcr  own = own  e1 = e1  e2 = e2  i1 = i1  i2 = i2  s1 = s1
SYMMETRY Interchangeable
INVARIANTS ConnectionsAgree BaselineIsHonest ReleasesAreCoherent
PROPERTY MovesAreDecided
CHECK_DEADLOCK FALSE
