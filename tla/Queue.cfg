\* One command, two overlapping ticks of the worker, one runner.
SPECIFICATION Spec
CONSTANTS
    m1 = m1  m2 = m2  w1 = w1  w2 = w2  r1 = r1
    Command = {m1}
    Irreversible = {}
    Risky = {}
    Worker = {w1, w2}
    Runner = {r1}
    SigningKey = TRUE
    MaxAttempts = 3
    MaxFaults = 2
INVARIANTS  DoneWasRun
PROPERTIES Settled KeepsContract
CHECK_DEADLOCK FALSE
