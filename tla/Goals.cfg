\* Goals are resumed when their process has died; the page of an assist does
\* not change between the look and the fill.
SPECIFICATION MCSpec
CONSTANTS
    r1 = r1  r2 = r2  r3 = r3  p1 = p1  p2 = p2  q1 = q1
    s1 = s1  s2 = s2  f1 = f1  f2 = f2  c1 = c1  c2 = c2
    Run = {r1, r2, r3}
    Proc = {p1, p2}
    Plan = {"browser", "red-line", "other"}
    Limits <- OneLimits
    ResumeLive = FALSE
    Request = {q1}
    Cancel = {}
    Readonly = {}
    Session = {s1, s2}
    Field = {f1, f2}
    Capability = {c1, c2}
    Pack <- Packs
    Volatile = FALSE
CONSTRAINT Small
SYMMETRY Symmetry
INVARIANTS ExecutedOnce OneActiveGoal RequestRunOnce 
PROPERTIES AttemptsKept
CHECK_DEADLOCK FALSE
