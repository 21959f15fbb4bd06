---------------------------- MODULE MCOperator -----------------------------
(* Two processes; a task for every route that can be dispatched, half of    *)
(* them of the task files and half compiled by intakes.                     *)
EXTENDS Operator, TLC

CONSTANTS p1, p2, t1, t2, t3, t4, t5, t6, l1

AllRoutes ==
    (t1 :> "live") @@ (t2 :> "http") @@ (t3 :> "file")
        @@ (t4 :> "openmanus") @@ (t5 :> "octogent") @@ (t6 :> "vellum")

Symmetry == Permutations(Proc)

\* Two jobs or commands on any tasks, a third where only t1 and t2 are used.
Small ==
    starts <= 2 \/ \A t \in Task \ {t1, t2} :
        Exists(t) = {} /\ \A p \in Proc : ~Handles(p, t)
=============================================================================
