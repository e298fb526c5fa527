--------------------------- MODULE MCAdminSession --------------------------
(***************************************************************************)
(* Two nodes whose wall clocks may disagree by two seconds, two identities *)
(* to configure them with, and cookies that last one second.               *)
(***************************************************************************)
EXTENDS AdminSession, TLC

Alike == Permutations(Nodes) \cup Permutations(Identities)
=============================================================================
