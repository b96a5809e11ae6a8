---- MODULE MCGatewayAuth ----
(* Small instances of GatewayAuth for TLC. *)
EXTENDS GatewayAuth, TLC
CONSTANTS a1, a2, r1, r2
OneRetry == [a \in Auths |-> 1]
FirstRetries == [a \in Auths |-> IF a = a1 THEN 1 ELSE 0]
====
