\* Two runs of one task, three workers; one swarm asks at a time.
SPECIFICATION Spec
CONSTANTS
    e1 = e1  e2 = e2  d1 = d1
    w1 = w1  w2 = w2  w3 = w3
    p1 = p1  p2 = p2  p3 = p3
    SwarmRun = {e1, e2}
    Draft = {d1}
    Artifacts = 2
    Worker = {w1, w2, w3}
    Routes <- Sent
    FamilyOf <- Kin
    SwarmsAtOnce = 1
INVARIANTS  VerifiedByDoneRun BundleWhole
PROPERTIES RunsEnd
CHECK_DEADLOCK FALSE
