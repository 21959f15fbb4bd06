\* One process that does one thing at a time; the hours on each side of the
\* quiet ones' limits.
SPECIFICATION MCFairSpec
CONSTANTS
    a1 = a1  m1 = m1  m2 = m2  m3 = m3
    heartbeat = heartbeat  repos = repos
    Actor = {a1}
    Message = {m1, m2, m3}
    Panic = {m3}
    Room = 3
    Hour = {4, 19}
    Fault = {"timeout", "crash"}
    Signal = {heartbeat, repos}
    Heartbeat = heartbeat
    Worst = 2
    LoopMessage = {m1, m2}
    Threshold = 3
INVARIANTS NothingLost 
  
