-------------------------- MODULE MCLearningClaims --------------------------
(***************************************************************************)
(* Up to three calls with one key and two payloads; the third may be one   *)
(* of a read-only process.                                                 *)
(***************************************************************************)
EXTENDS LearningClaims

CONSTANTS c1, c2, c3, x, y

\* Calls and payloads are interchangeable, and so it is enough to look at the
\* behaviours in which the calls that work are made in one order and the first
\* has payload x.  (SYMMETRY is not sound for a liveness property.)
InOrder ==
    /\ At(c1, "new") => At(c2, "new")
    /\ At(c2, "new") => At(c3, "new") \/ At(c3, "done")
    /\ "payload" \in DOMAIN call[c1] => call[c1].payload = x
=============================================================================
