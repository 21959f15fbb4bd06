\* Starts do not overlap and heartbeats are on time; nobody is inside the lock
\* for longer than Stale; one process calls the models.
SPECIFICATION MCSpec
CONSTANTS
    i1 = i1  i2 = i2  i3 = i3  i4 = i4  d1 = d1  d2 = d2
    Instance = {i1, i2, i3, i4}
    NoInstance = NoInstance
    Ttl = 3
    Concurrent = FALSE
    Stalls = FALSE
    Claim = {d1, d2}
    p1 = p1  p2 = p2  p3 = p3
    Proc = {p1, p2, p3}
    NoProc = NoProc
    Stale = 3
    Wait = 2
    Overstay = FALSE
    Crashes = TRUE
    h1 = h1  c1 = c1  c2 = c2  free = free  paid = paid
    Host = {h1}
    Call = {c1, c2}
    Order <- ByCost
    Paid = {paid}
    Cap = 2
    DegradedFor = 1
    DeadFor = 2
    MaxSpent = 4
    x1 = x1  x2 = x2  x3 = x3
    StateDir = {x1, x2}
    Keep = 2
    MaxRuns = 5
    Table = {x1, x2, x3}
    Filled = {x1, x2}
INVARIANTS WriterKeepsLease  HolderOwnsLock 
           GoodOneSurvives DrillSound
PROPERTIES RequestEnds DeadAreSkipped
\* All processes may have died or given up, the drill has an end.
CHECK_DEADLOCK FALSE
