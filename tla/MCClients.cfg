SPECIFICATION Spec
CONSTANTS
    Scenarios = {"lifecycle", "readiness", "withdrawal", "catalogue", "product", "identity"}
    None = None  Other = Other
    r1 = r1  r2 = r2  x1 = x1  x2 = x2  git = git  mirror = mirror
    orders = orders  billing = billing  portal = portal  invoice = invoice
    plain = plain  declaring = declaring  public = public  internal = internal
SYMMETRY Interchangeable
INVARIANTS LifecycleHolds ReadyIsServed CatalogueHolds DocumentsStayWhole
PROPERTY ChangesKeepTheRest
CHECK_DEADLOCK FALSE
