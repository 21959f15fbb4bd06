\* Two processes begin two jobs or commands on any tasks, three on two tasks.
SPECIFICATION Spec
CONSTANTS
    p1 = p1  p2 = p2  t1 = t1  t2 = t2  t3 = t3  t4 = t4  t5 = t5  t6 = t6  l1 = l1
    Task = {t1, t2, t3, t4, t5, t6}
    Route <- AllRoutes
    TextTask = {t2, t3, t4}
    Fresh = {t2, t3, t4}
    Proc = {p1, p2}
    Lane = {l1}
    MaxStarts = 3
PROPERTIES PausedUntilResumed
CONSTRAINT Small
CHECK_DEADLOCK FALSE
