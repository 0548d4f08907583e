---------------------------- MODULE MCScheduler ----------------------------
(* One singleton cluster and one redis cluster on two hosts.               *)
EXTENDS Scheduler

J(op, c, n, h) == [op |-> op, name |-> c, num |-> n, node |-> h]
MCScenarios ==
  {{J("create", "m", 1, 1), J("destroy", "m", 0, 1), J("create", "m", 1, 2)},
   {J("create", "m", 1, 1), J("scale", "m", 1, 1)},
   {J("create", "m", 1, 1), J("restart", "m", 0, 1)},
   {J("create", "m", 2, 1), J("scale", "m", 1, 1), J("restart", "m", 0, 2)},
   {J("create", "r", 1, 1), J("scale", "r", 1, 1)},
   {J("create", "r", 1, 1), J("create", "m", 1, 1), J("destroy", "r", 0, 1)}}
=============================================================================
