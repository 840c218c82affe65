SPECIFICATION Spec
CONSTANTS
    Scenarios = {"data", "retries", "connector", "front", "keys", "tenants", "stepped", "process"}
    Requests = {1, 2}  Tenants <- TwoTenants  Views <- TwoGenerations
    Connectors <- OneConnector  Calls <- SomeCalls  RelationChecked <- OrdersOfBolt
    Unnameable = {9}  SeedRows <- SomeRows  MaxPage = 1  MaxFilters = 1  MaxBatch = 2
    MaxAttempts = 2
    None = None  acme = acme  bolt = bolt  other = other  alice = alice
    k1 = k1  k2 = k2  x1 = x1  x2 = x2
SYMMETRY Interchangeable
INVARIANTS RowsStayOwned FiltersArrive NothingLeftHeld
PROPERTY DecisionsAreFounded
CHECK_DEADLOCK FALSE
