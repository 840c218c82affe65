SPECIFICATION FairSpec
CONSTANTS
    Scenarios = {"registries", "git", "audit", "host", "front", "process"}
    None = None  acme = acme  bolt = bolt  alice = alice  ghcr = ghcr  e1 = e1  e2 = e2
    i1 = i1  k1 = k1  s1 = s1  s2 = s2   r1 = r1
    x1 = x1  x2 = x2
PROPERTIES ConnectionsSettle AnswersEnd HostRecovers
CHECK_DEADLOCK FALSE
