------------------------------ MODULE MCRefresh ------------------------------
(* Two entities on two platforms for Refresh. *)
EXTENDS Refresh, TLC

CONSTANTS e1, e2, p1, p2
MCPlatformOf == e1 :> p1 @@ e2 :> p2
=============================================================================
