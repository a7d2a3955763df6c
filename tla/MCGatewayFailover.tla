------------------------ MODULE MCGatewayFailover ------------------------
(* Small instances of GatewayFailover for TLC. *)
EXTENDS GatewayFailover, TLC

CONSTANTS a, b

OnePool  == ("p" :> <<a, b>>)
=============================================================================
