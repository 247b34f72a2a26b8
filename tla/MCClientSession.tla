-------------------------- MODULE MCClientSession --------------------------
(***************************************************************************)
(* One query and one write of the pages.                                   *)
(***************************************************************************)
EXTENDS ClientSession, TLC

CONSTANTS ann, bob, query, write
=============================================================================
