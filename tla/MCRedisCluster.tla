---------------------------- MODULE MCRedisCluster ----------------------------
(* Instances of RedisCluster: three nodes and two slots. *)
EXTENDS RedisCluster
CONSTANTS a1, a2, a3, h1

Range2(i, j) == [kind |-> "range", first |-> i, last |-> j]
Line(a, flags, link, fields) ==
  [addr |-> a, flags |-> flags, link |-> link, fields |-> fields]
Up(a, fields) == Line(a, {"master"}, "connected", fields)
Slave(a) == Line(a, {"slave"}, "connected", {})

\* a1 owns slot 0 throughout
TwoMasters == [lines |-> <<Up(a1, {Range2(0, 0)}), Up(a2, {Range2(1, 1)}), Slave(a3)>>,
               up |-> {a1, a2, a3}]
\* a2 is suspected: still the owner of slot 1, but not a normal master
Suspected ==
  [lines |-> <<Line(a2, {"master", "fail?"}, "connected", {Range2(1, 1)}),
               Line(a1, {"myself", "master"}, "connected", {Range2(0, 0)}), Slave(a3)>>,
   up |-> {a1, a3}]
\* a3 has taken over from a2
FailedOver ==
  [lines |-> <<Up(a1, {Range2(0, 0)}), Line(a2, {"master", "fail"}, "disconnected", {}),
               Up(a3, {Range2(1, 1)})>>,
   up |-> {a1, a3}]
\* slot 1 migrates from a1 to a2
Migrating ==
  [lines |-> <<Up(a1, {Range2(0, 0), [kind |-> "migrating", first |-> 1, last |-> 1]}),
               Up(a2, {[kind |-> "importing", first |-> 1, last |-> 1]}), Slave(a3)>>,
   up |-> {a1, a2}]
\* no node answers
OneMaster == [lines |-> <<Up(a1, {Range2(0, 1)}), Slave(a2)>>, up |-> {a1, a2}]
AllDown == [lines |-> OneMaster.lines, up |-> {}]

Failover == [worlds |-> {TwoMasters, Suspected, FailedOver, AllDown}, changes |-> 1,
             handlers |-> {h1}, closes |-> TRUE]
FailBack == [worlds |-> {TwoMasters, FailedOver}, changes |-> 2,
             handlers |-> {h1}, closes |-> FALSE]
Reshard == [worlds |-> {TwoMasters, FailedOver, Migrating, AllDown}, changes |-> 1,
            handlers |-> {}, closes |-> FALSE]
MCSetups == {Failover, FailBack, Reshard}
=============================================================================
