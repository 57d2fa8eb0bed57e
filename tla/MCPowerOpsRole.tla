---------------------------- MODULE MCPowerOpsRole ----------------------------
(***************************************************************************)
(* PowerOpsRole for model checking: two nodes with a port each.            *)
(***************************************************************************)
EXTENDS PowerOpsRole, TLC

CONSTANTS n1, n2, p1, p2

OnePortEach == (n1 :> {p1}) @@ (n2 :> {p2})
=============================================================================
