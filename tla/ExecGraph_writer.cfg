\* One process; an append may fail cleanly, and a snapshot be cut off.
SPECIFICATION Spec
CONSTANTS
    t1 = t1  t2 = t2  k1 = k1  g1 = g1  r1 = r1  p1 = p1  p2 = p2
    Goal = {g1}
    Task = {t1, t2}
    Key = {k1}
    Actor = {"atlas", "ceo"}
    Owner = {"atlas", "hand:x"}
    HandOwner = {"hand:x"}
    Ref = {r1}
    NoRef = NoRef
    Proc = {p1}
    WritableProc = {p1}
    Fault = {"append", "cut"}
    StartGraphs <- StartAnywhere
    MaxCalls = 4
INVARIANTS TypeOK Coherent
PROPERTIES ActsAtOnce
CHECK_DEADLOCK FALSE
