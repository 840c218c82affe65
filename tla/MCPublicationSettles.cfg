SPECIFICATION FairSpec
CONSTANTS
    Scenarios = {"offers", "replica", "pass", "recovery", "lifecycle", "later"}
    None = None  Corrupt = Corrupt  l1 = l1  t1 = t1  d1 = d1  d2 = d2  x1 = x1  x2 = x2
PROPERTIES PublicationSettles CatchesUp RetrySettles
CHECK_DEADLOCK FALSE
