---------------------------- MODULE MCExecGraph -----------------------------
(***************************************************************************)
(* Small instances of ExecGraph: two task ids and one key, so that the     *)
(* dedupe is contested, one evidence ref, an autonomous actor and the CEO. *)
(* A run starts from an empty graph or from one with a single task that    *)
(* has already come part of its way, each reachable by legal calls.        *)
(***************************************************************************)
EXTENDS ExecGraph, TLC

CONSTANTS t1, t2, k1, g1, r1, p1, p2

\* The graph of one task, with evidence once a status has required some.
OneTask(status) ==
    [goals |-> {g1},
     tasks |-> [t \in Task |->
        IF t # t1 THEN AbsentTask
        ELSE [status |-> status, owner |-> "atlas", key |-> k1,
              evidence |-> IF status \in {"evidence-submitted", "verified", "closed"}
                           THEN {r1} ELSE {}]]]

StartEmpty == {EmptyGraph}
StartAnywhere == {EmptyGraph} \cup {OneTask(s) : s \in Status \ {"rejected"}}
StartLate == {OneTask("in-progress"), OneTask("evidence-submitted")}

Symmetry == Permutations(Proc)
=============================================================================
