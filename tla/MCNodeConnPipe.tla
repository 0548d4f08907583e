--------------------------- MODULE MCNodeConnPipe ---------------------------
(* Two messages and two connections.                                       *)
EXTENDS NodeConnPipe, TLC

CONSTANTS m1, m2, c1, c2, r1, r2, r3

\* two requests share a connection, so one batch can mix them; the third
\* request uses the other connection
MCConnOf == (r1 :> c1) @@ (r2 :> c1) @@ (r3 :> c2)

=============================================================================
