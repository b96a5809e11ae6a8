--------------------------- MODULE MCGatewayRefresh ---------------------------
(* Small instances of GatewayRefresh.                                      *)
EXTENDS GatewayRefresh, TLC

CONSTANTS a1, w1, c1

OneAuth == {a1}
=============================================================================
