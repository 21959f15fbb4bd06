------------------------------ MODULE MCGoals -------------------------------
(* Goals with their requests, and supervised assists.  The two share no    *)
(* state: the first step decides which of them moves in a behaviour.       *)
EXTENDS GoalRequests, SupervisedAssist, TLC

CONSTANTS r1, r2, r3, p1, p2, q1, s1, s2, f1, f2, c1, c2

\* The limits of `atlas goal run' and of the drain.
CommandLimits == [perTask |-> 3, total |-> 10, tasks |-> 10]
DrainLimits == [perTask |-> 1, total |-> 1, tasks |-> 5]
OneLimits == {CommandLimits}
BothLimits == {CommandLimits, DrainLimits}

Packs ==
    {[fields |-> <<f1, f2>>, intact |-> TRUE], [fields |-> <<f2>>, intact |-> TRUE],
     [fields |-> <<f1>>, intact |-> FALSE]}

Symmetry == Permutations(Run) \cup Permutations(Proc)

Drained == \E p \in Proc, q \in Request : drain[p] # NoDrain \/ receipt[q] # NoReceipt

\* Three runs, or two when there are drains.
Small == Drained => Cardinality({r \in Run : run[r] # NoRun}) <= 2

MCInit == Init /\ AssistInit

MCNext ==
    \/ Next /\ AssistInit /\ page = [f \in Field |-> "plain"] /\ UNCHANGED assistVars
    \/ AssistNext /\ Init /\ UNCHANGED vars

MCSpec == MCInit /\ [][MCNext]_<<vars, assistVars>>
=============================================================================
