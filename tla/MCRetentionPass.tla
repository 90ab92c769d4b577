---------------------------- MODULE MCRetentionPass ----------------------------
(***************************************************************************)
(* An instance of RetentionPass: three artifacts of two types, the oldest  *)
(* of which can never be purged, and a budget of two.                      *)
(***************************************************************************)
EXTENDS RetentionPass, TLC

CONSTANTS c1, c2, e1

RunTypes == (c1 :> "cleaning") @@ (c2 :> "cleaning") @@ (e1 :> "export")
Ages == (c1 :> 1) @@ (c2 :> 2) @@ (e1 :> 3)

=============================================================================
