\* Two processes; snapshot writes fail and processes die.
SPECIFICATION Spec
CONSTANTS
    t1 = t1  t2 = t2  k1 = k1  g1 = g1  r1 = r1  p1 = p1  p2 = p2
    Goal = {g1}
    Task = {t1, t2}
    Key = {k1}
    Actor = {"atlas"}
    Owner = {"atlas"}
    HandOwner = {}
    Ref = {r1}
    NoRef = NoRef
    Proc = {p1, p2}
    WritableProc = {p1, p2}
    Fault = {"open", "cut", "crash"}
    StartGraphs <- StartLate
    MaxCalls = 3
INVARIANTS NeverAhead EvidenceBacked
SYMMETRY Symmetry
CHECK_DEADLOCK FALSE
