-------------------------- MODULE MCServerLifecycle ------------------------
(***************************************************************************)
(* Two requests and a pool of one connection, with the timeouts of the     *)
(* program in units of five seconds.                                       *)
(***************************************************************************)
EXTENDS ServerLifecycle

CONSTANTS r1, r2
=============================================================================
