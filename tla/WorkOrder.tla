----------------------------- MODULE WorkOrder ------------------------------
(***************************************************************************)
(* What the command queue promises of a row, whoever works on it: it is    *)
(* opened once, closed once and for good (done, failed or dead), and       *)
(* removed after that; and whatever is open is closed in the end           *)
(* (docs/QUEUE-CONTRACT.md, "Lifecycle & status").                         *)
(***************************************************************************)
CONSTANT Order

VARIABLE phase

OrderInit == phase = [o \in Order |-> "none"]

Shift(os, from, to) ==
    /\ os # {}
    /\ \A o \in os : phase[o] = from
    /\ phase' = [o \in Order |-> IF o \in os THEN to ELSE phase[o]]

\* One is opened or removed at a time; a sweep may close several.
Open(o) == Shift({o}, "none", "open")
Close(os) == Shift(os, "open", "closed")
Remove(o) == Shift({o}, "closed", "gone")

OrderNext ==
    \/ \E o \in Order : Open(o) \/ Remove(o)
    \/ \E os \in SUBSET Order : Close(os)

OrderSafe == OrderInit /\ [][OrderNext]_phase

OrderFair == \A o \in Order : WF_phase(\E os \in SUBSET Order : o \in os /\ Close(os))

OrderSpec == OrderSafe /\ OrderFair
=============================================================================
