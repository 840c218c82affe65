SPECIFICATION Spec
CONSTANTS
    Scenarios = {"environment", "rebinding", "redeclaration", "pass", "recovery", "damaged", "kubernetes", "runtime"}
    Tenants = {t1, t2}  Logicals = {l1}  DataSources = {d1, d2}
    TenantSets <- SomeTenantSets  SourceSets <- SomeSourceSets  Singles <- SomeSingles
    FailFast = FALSE  MaxOffers = 4
    None = None  Corrupt = Corrupt
    l1 = l1  t1 = t1  t2 = t2  d1 = d1  d2 = d2  g1 = g1  g2 = g2
    r1 = r1  r2 = r2  x1 = x1  x2 = x2
SYMMETRY Interchangeable
INVARIANTS DesiredStateHolds MetMeansWhole RestoreReportsTruly RegistriesAgree
PROPERTY PublishedMovesForward
CHECK_DEADLOCK FALSE
