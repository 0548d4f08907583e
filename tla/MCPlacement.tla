----------------------------- MODULE MCPlacement -----------------------------
(* Placement on up to five hosts of two to six instances each, with or      *)
(* without ports to spare: creates, then an append or a recovery.           *)
EXTENDS Placement

Ask(op, n, hosts, h) == [op |-> op, num |-> n, hosts |-> hosts, host |-> h]
Scripts ==
  {<<Ask("create", n, <<1, 2, 3, 4>>, 0), second>> :
     n \in {4, 6, 8},
     second \in {Ask("append", 2, <<1, 2, 3, 4, 5>>, 0),
                 Ask("append", 4, <<5, 3, 2, 1>>, 0),
                 Ask("recover", 0, <<2, 3, 4, 5>>, 1),
                 Ask("recover", 0, <<3, 4, 5>>, 1)}}
  \cup {<<Ask("create", n, <<1, 2, 3>>, 0)>> : n \in {2, 3, 4, 6}}
  \cup {<<Ask("create", 6, <<1, 2, 3, 4, 5>>, 0)>>,
        <<Ask("create", 4, <<1, 2, 4, 4, 3>>, 0)>>, <<Ask("create", 4, <<1, 2>>, 0)>>}
  \cup {<<Ask("dist", n, <<4, 3, 2, 1>>, 0), Ask("distappend", m, <<1, 2, 5>>, 0)>> :
          n \in {3, 6, 10}, m \in {1, 5}}
MCPlans ==
  {[room |-> [h \in 1..5 |-> IF h = 5 THEN 4 ELSE r[h]],
    ports |-> [h \in 1..5 |-> (IF h = 5 THEN 4 ELSE r[h]) + e], calls |-> s] :
     r \in {f \in [1..4 -> {2, 4, 6}] : f[1] <= f[2] /\ f[3] <= f[4]}, e \in {0, 4}, s \in Scripts}
=============================================================================
