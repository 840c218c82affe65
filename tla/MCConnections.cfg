SPECIFICATION Spec
CONSTANTS
    Scenarios = {"git", "reconnected", "host", "reading", "audit", "long", "edited"}
    None = None
    Streams = {acme, catalogue}  MaxRecords = 3
    MaxFaults = 1  MaxStops = 1  MaxPower = 1  MaxDamage = 1
    acme = acme  catalogue = catalogue
    x1 = x1  x2 = x2  r1 = r1  r2 = r2
SYMMETRY Interchangeable
INVARIANTS GitConnectionAgrees OutcomeIsTrue TrailKeepsWhatWasReported
PROPERTY TrailIsOpenedWhole
CHECK_DEADLOCK FALSE
