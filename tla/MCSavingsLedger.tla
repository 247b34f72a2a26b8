-------------------------- MODULE MCSavingsLedger --------------------------
(***************************************************************************)
(* Two products: linked to an account each, or one of them kept by hand.   *)
(***************************************************************************)
EXTENDS SavingsLedger, TLC

CONSTANTS p1, p2, a1, a2, s1, s2

OneLinked == p1 :> a1 @@ p2 :> NoAccount
BothLinked == p1 :> a1 @@ p2 :> a2

SessionSymmetry == Permutations(Sessions)
=============================================================================
