------------------------------ MODULE MCHands -------------------------------
(***************************************************************************)
(* Two hands, one of them foreground-only and on risky work; a receipt that *)
(* cites a file and one that is only prose; a note as other evidence.      *)
(***************************************************************************)
EXTENDS Hands

CONSTANTS p1, p2, h1, h2, file, prose, note
=============================================================================
