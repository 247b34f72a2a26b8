--------------------------- MODULE MCRecurringJob ---------------------------
(***************************************************************************)
(* A rule that can be posted beside one that is always refused.            *)
(***************************************************************************)
EXTENDS RecurringJob, TLC

CONSTANTS good, bad, j1, j2, m1

CallSymmetry == Permutations(Calls)
=============================================================================
