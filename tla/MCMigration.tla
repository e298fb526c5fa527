----------------------------- MODULE MCMigration ---------------------------
(***************************************************************************)
(* A node of the first release, one of the second and one whose second    *)
(* file was edited, against an empty database, the first release's, and    *)
(* two that no release left behind.                                        *)
(***************************************************************************)
EXTENDS Migration

CONSTANTS old, new, edited, core, index, other

Release(n) ==
    CASE n = old -> <<core>>
      [] n = edited -> <<core, other>>
      [] OTHER -> <<core, index>>
Releases == [n \in Nodes |-> Release(n)]

Empty == [v \in Versions |-> None]
Databases ==
    {Empty, [Empty EXCEPT ![1] = core],
     [v \in Versions |-> IF v = 2 THEN None ELSE core],
     [Empty EXCEPT ![1] = other]}
=============================================================================
