----------------------------- MODULE MCForwarder -----------------------------
(* Names n1 and n2, nodes a1 to a3: a proxy that reloads, without pingers,  *)
(* and one that reloads and ejects.                                        *)
EXTENDS Forwarder, TLC
CONSTANTS a1, a2, a3, n1, n2, h1, h2

\* a name moves to another address, a server goes away, one comes back
Reloading == [configs |-> {(n1 :> a1) @@ (n2 :> a2), (n1 :> a2) @@ (n2 :> a3), n2 :> a1},
              handlers |-> {h1, h2}, ejects |-> FALSE, closes |-> TRUE, reloads |-> 2]
Ejecting == [configs |-> {(n1 :> a1) @@ (n2 :> a2), n1 :> a2},
             handlers |-> {h1}, ejects |-> TRUE, closes |-> FALSE, reloads |-> 1]
MCSetups == {Reloading, Ejecting}
=============================================================================
