\* One process; appends fail cleanly or leave half a line.
SPECIFICATION TextSpec
CONSTANTS
    t1 = t1  t2 = t2  k1 = k1  g1 = g1  r1 = r1  p1 = p1
    Goal = {g1}
    Task = {t1, t2}
    Key = {k1}
    Actor = {"atlas"}
    Owner = {"atlas", "hand:x"}
    HandOwner = {"hand:x"}
    Ref = {r1}
    NoRef = NoRef
    Proc = {p1}
    WritableProc = {p1}
    Fault = {"append", "torn"}
    StartGraphs <- StartEmpty
    MaxCalls = 4
INVARIANTS UniqueKeys 
 
CHECK_DEADLOCK FALSE
