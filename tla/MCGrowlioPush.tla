--------------------------- MODULE MCGrowlioPush ---------------------------
(***************************************************************************)
(* Two members; one of them has linked a product to an account and another *)
(* to one that growlio has closed.                                         *)
(***************************************************************************)
EXTENDS GrowlioPush, TLC

CONSTANTS u1, u2, open, closed, w1, w2

MCHolder == open :> u1 @@ closed :> NoHolder

\* The linked products belong to the holder of the account, or did.
OwnedKinds == {[account |-> a, owner |-> u1] : a \in Accounts}

TwoRows == 1..2
=============================================================================
