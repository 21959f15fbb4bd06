\* Two processes, either of which may die between two calls.
SPECIFICATION Spec
CONSTANTS
    p1 = p1  p2 = p2  h1 = h1  h2 = h2  file = file  prose = prose  note = note
    Proc = {p1, p2}
    Hand = {h1}
    ForegroundOnly = {h1}
    Risky = {h1}
    Receipt = {file, prose}
    Narrative = {prose}
    Note = {note}
    Actor = {"atlas"}
    Generic = "atlas"
    Crashes = TRUE
    StartStatus = {"planned", "in-progress"}
    MaxCalls = 4
INVARIANT VerifiedHasReceipt
CHECK_DEADLOCK FALSE
