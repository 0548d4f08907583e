------------------------------- MODULE MCEnri -------------------------------
(* Two nodes on each of three hosts; clusters of three masters, and fresh  *)
(* nodes for create.                                                       *)
EXTENDS Enri

Cmd(op, src, dst, slave, count, slot) ==
  [op |-> op, src |-> src, dst |-> dst, slave |-> slave, count |-> count, slot |-> slot, addrs |-> {}]
Del(seed, addrs) == [Cmd("delete", seed, None, None, 0, None) EXCEPT !.addrs = addrs]
New(addrs, slave) ==
  [op |-> "create", src |-> 1, dst |-> None, slave |-> None, count |-> slave, slot |-> None, addrs |-> addrs]
MCHostOf == <<1, 2, 3, 1, 2, 3>>
On(own, seq) == [own |-> own, slaveof |-> (4 :> 1), keys |-> 2, cmds |-> seq]
Even == (1 :> {0, 1} @@ 2 :> {2, 3} @@ 3 :> {4})
Uneven == (1 :> {0, 1, 2, 3} @@ 2 :> {4} @@ 3 :> {})
Holes == (1 :> {0} @@ 2 :> {2} @@ 3 :> {})
Fresh(c) == [own |-> <<>>, slaveof |-> <<>>, keys |-> 0, cmds |-> <<c>>]
MCRuns ==
  {On(Even, <<Del(2, <<1>>), Cmd("fix", 2, None, None, 0, None)>>),
   On(Even, <<Del(2, <<4>>), Cmd("replicate", 1, None, 4, 0, None)>>),
   On(Even, <<Del(3, <<5, 1, 2>>)>>),
   On((1 :> {0, 1, 2, 3, 4}), <<Del(4, <<1>>)>>),
   On(Uneven, <<Cmd("reshard", 1, None, None, 0, None), Del(1, <<2>>)>>),
   On(Holes, <<Cmd("fix", 1, None, None, 0, None), Cmd("reshard", 1, None, None, 0, None)>>),
   On(Holes, <<Cmd("reshard", 1, None, None, 0, None)>>),
   On(Holes, <<Cmd("add", 1, 5, None, 0, None)>>),
   On(Even, <<Cmd("add", 1, 5, 6, 0, None), Cmd("reshard", 1, None, None, 0, None)>>),
   On(Even, <<Cmd("migrate", 1, 3, None, 0, 0), Cmd("fix", 1, None, None, 0, None)>>),
   On(Even, <<Cmd("migrate", 1, 2, None, 2, None), Cmd("replicate", 2, None, 1, 0, None)>>),
   On(Even, <<Cmd("migrate", 1, None, None, 0, None), Cmd("replicate", 2, None, 5, 0, None)>>),
   On(Even, <<Cmd("migrate", 2, 3, None, 0, None), Cmd("migrate", 3, 1, None, 4, None)>>),
   On(Even, <<Cmd("migrate", None, 1, None, 0, None)>>),
   On(Even, <<Cmd("migrate", 1, None, None, 1, None)>>),
   Fresh(New(1..6, 1)), Fresh(New({1, 2, 3, 4}, 0)), Fresh(New({1, 2, 4, 5}, 0)),
   Fresh(New({1, 2, 3, 4}, 1))}
=============================================================================
