------------------------------ MODULE MCWsRelay ------------------------------
(* Small instances of WsRelay for TLC.                                      *)
EXTENDS WsRelay, TLC

CONSTANTS s1, s2, r1, r2, p1

\* A provider factory that gives every connection the same name, so that the
\* second one replaces the first.
OneProvider == (s1 :> p1) @@ (s2 :> p1)

=============================================================================
