------------------------------ MODULE MCDemoPage ---------------------------
(***************************************************************************)
(* One page, two subjects and three clicks.                                *)
(***************************************************************************)
EXTENDS DemoPage

CONSTANTS alice, bob
=============================================================================
