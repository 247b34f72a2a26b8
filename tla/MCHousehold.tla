---------------------------- MODULE MCHousehold ----------------------------
(***************************************************************************)
(* Three Supabase accounts compete for two places.                         *)
(***************************************************************************)
EXTENDS Household, TLC

CONSTANTS ann, bob, cho, i1, i2, i3, s1, s2

Symmetry == Permutations(People) \cup Permutations(Invites)
                \cup Permutations(Requests)
=============================================================================
