\* Three calls; every fault.
SPECIFICATION FairSpec
CONSTANTS
    c1 = c1  c2 = c2  c3 = c3  x = x  y = y
    Call = {c1, c2, c3}
    ReadonlyCall = {c3}
    Payload = {x, y}
    Fault = {"compute", "crash", "tear", "lock", "project", "receipt"}
    NoCall = NoCall
CONSTRAINT InOrder
INVARIANTS OneProof 
PROPERTIES  EveryCallAnswered
\* Every call is made once.
CHECK_DEADLOCK FALSE
