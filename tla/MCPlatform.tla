----------------------------- MODULE MCPlatform -----------------------------
(* Requests on one redis cluster "r", two memcache clusters and one appid: *)
(* races for the first ports, for one pair, and for one cluster.           *)
EXTENDS JobManager

R(op, c, apps, total) == [op |-> op, name |-> c, apps |-> apps, total |-> total, spec |-> 1]
MCScenarios ==
  {[seq |-> None, faults |-> 0, reqs |-> {R("create", "m", {}, 1), R("create", "n", {}, 1)}],
   [seq |-> 0, faults |-> 1, reqs |-> {R("create", "m", {}, 1), R("create", "n", {}, 1)}],
   [seq |-> 0, faults |-> 1, reqs |-> {R("create", "m", {"a"}, 1), R("unassign", "m", {"a"}, 0),
                                       R("assign", "m", {"a"}, 0)}],
   [seq |-> 0, faults |-> 1, reqs |-> {R("create", "m", {"a"}, 1), R("unassign", "m", {"a"}, 0),
                                       R("delappid", "m", {"a"}, 0)}],
   [seq |-> 0, faults |-> 1, reqs |-> {R("create", "m", {}, 1), R("assign", "m", {"a"}, 0),
                                       R("delappid", "m", {"a"}, 0)}],
   [seq |-> 0, faults |-> 1, reqs |-> {R("create", "m", {}, 1), R("destroy", "m", {}, 0),
                                       R("assign", "m", {"a"}, 0)}],
   [seq |-> 0, faults |-> 1, reqs |-> {R("create", "r", {}, 1), R("destroy", "r", {}, 0)}],
   [seq |-> 0, faults |-> 1, reqs |-> {R("create", "m", {}, 2), R("create", "r", {}, 3),
                                       R("restart", "m", {}, 0), R("scale", "m", {}, 0),
                                       R("addappid", "m", {"a"}, 0)}]}
=============================================================================
