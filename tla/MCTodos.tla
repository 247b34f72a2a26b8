------------------------------ MODULE MCTodos ------------------------------
(* Instances of Todos for TLC. *)
EXTENDS Todos, TLC

Symmetry == Permutations(Requests)
=============================================================================
