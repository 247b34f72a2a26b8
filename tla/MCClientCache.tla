--------------------------- MODULE MCClientCache ---------------------------
EXTENDS ClientCache

(* Every save with every response that shows what it changes. *)
AllPairs == {p \in (DOMAIN Saves) \X Responses : Affects(p[1], p[2])}
=============================================================================
