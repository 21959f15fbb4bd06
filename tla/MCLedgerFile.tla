---------------------------- MODULE MCLedgerFile ----------------------------
(***************************************************************************)
(* One process, two tasks with one key, an empty ledger to begin with.     *)
(***************************************************************************)
EXTENDS LedgerFile

CONSTANTS t1, t2, k1, g1, r1, p1

StartEmpty == {EmptyGraph}
=============================================================================
