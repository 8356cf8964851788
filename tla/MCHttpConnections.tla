------------------------- MODULE MCHttpConnections --------------------------
(* Instances of HttpConnections for TLC.                                   *)
EXTENDS HttpConnections

CONSTANTS c1, c2

OneConn  == {c1}
TwoConns == {c1, c2}
=============================================================================
