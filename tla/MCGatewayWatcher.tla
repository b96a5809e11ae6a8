--------------------------- MODULE MCGatewayWatcher ---------------------------
(* Small instances of GatewayWatcher for TLC.                               *)
EXTENDS GatewayWatcher, TLC
CONSTANTS f, r, v1, v2, ws, m, n, p, q

\* A file that names a model twice, and one of another provider with a second model, which
\* is the runtime auth's provider too.
Provider == [c \in {v1, v2, ws} |-> IF c = v1 THEN p ELSE q]
ModelList == [c \in {v1, v2, ws} |-> CASE c = v1 -> <<m, m>> [] c = v2 -> <<m, n>> [] c = ws -> <<m>>]
=============================================================================
