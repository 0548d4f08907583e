--------------------------------- MODULE Enri ---------------------------------
(***************************************************************************)
(* enri, the command line tool that manages a redis cluster.  A command    *)
(* reads CLUSTER NODES, plans, and sends redis one call after another; the *)
(* plan is a sequence of calls, each of them an action.  A call fails with *)
(* an error reply, which myredis does not take for an error, or with a     *)
(* connection error.  The redis nodes are external: what they do with a    *)
(* call, and that gossip has settled when a command starts or waits.       *)
(***************************************************************************)
EXTENDS Integers, Sequences, FiniteSets, SequencesExt

CONSTANTS Nodes,       \* redis nodes, numbered in the order of the addresses
          HostOf,      \* the host of each
          Slots,       \* 0..16383 in the code
          Runs,        \* [own, slaveof, keys, cmds]: a cluster, commands run on it
          MaxFaults, None

VARIABLES view,     \* view[n][s]: who owns s according to n; n claims s if it is n
          epoch,    \* config epochs
          importing, migrating,   \* slots a node has marked
          keys,     \* keys[n][s]: batches of keys of s that n holds
          slaveof, member,
          told,     \* <<n, d>>: n was told to forget d
          copied,   \* <<n, s>>: n holds copies of keys of s the source kept
          cmds,     \* commands still to run
          cmd, todo,\* the running command and the calls it has yet to make
          faults,
          failed,   \* history: <<command, call, slot>> that failed
          assigned, \* history: slots some node has been given
          panicked, \* history: the command ended in a panic
          strayed   \* history: slots a later address of a delete left behind

redis == <<view, epoch, importing, migrating, keys, slaveof, member, told, copied>>
vars == <<redis, cmds, cmd, todo, faults, failed, assigned, panicked, strayed>>

Claims(n) == {s \in Slots : view[n][s] = n}
Call(op, a, b, s) == [op |-> op, a |-> a, b |-> b, s |-> s]
Panic == Call("panic", None, None, None)

Init ==
  /\ \E r \in Runs :
       /\ view = [n \in Nodes |-> [s \in Slots |->
            IF \E m \in DOMAIN r.own : s \in r.own[m]
            THEN CHOOSE m \in DOMAIN r.own : s \in r.own[m] ELSE None]]
       /\ keys = [n \in Nodes |-> [s \in Slots |->
            IF n \in DOMAIN r.own /\ s \in r.own[n] THEN r.keys ELSE 0]]
       /\ slaveof = [n \in Nodes |-> IF n \in DOMAIN r.slaveof THEN r.slaveof[n] ELSE None]
       /\ member = DOMAIN r.own \cup DOMAIN r.slaveof
       /\ cmds = r.cmds
       /\ assigned = UNION {r.own[m] : m \in DOMAIN r.own}
  /\ epoch = [n \in Nodes |-> IF n \in member THEN n ELSE 0]
  /\ told = {} /\ copied = {} /\ strayed = {}
  /\ importing = [n \in Nodes |-> {}] /\ migrating = [n \in Nodes |-> {}]
  /\ cmd = [op |-> "none"] /\ todo = <<>> /\ faults = 0 /\ failed = {} /\ panicked = FALSE
-----------------------------------------------------------------------------
(* External: gossip.  A node takes over the newest claim to a slot unless   *)
(* it knows a newer owner.                                                  *)
Newest(v, s) ==
  LET claimants == {n \in member : v[n][s] = n} IN
  IF claimants = {} THEN None
  ELSE CHOOSE n \in claimants : \A m \in claimants : epoch[m] <= epoch[n]
Settled(v) ==
  LET newest == [s \in Slots |-> Newest(v, s)] IN
  [n \in Nodes |-> [s \in Slots |->
    IF n \notin member \/ newest[s] = None
         \/ (v[n][s] # None /\ epoch[v[n][s]] > epoch[newest[s]])
    THEN v[n][s] ELSE newest[s]]]

(* divide: n things over m, the first n % m get one more. *)
\* A bug: the remainder is forgotten.
DivideEven(n, m) == [i \in 1..m |-> n \div m]
Divide(n, m) == [i \in 1..m |-> IF i <= n % m THEN n \div m + 1 ELSE n \div m]
Part(seq, d, i) ==
  LET end[k \in 0..Len(d)] == IF k = 0 THEN 0 ELSE end[k - 1] + d[k]
  IN SubSeq(seq, end[i - 1] + 1, end[i])
Sorted(S) == SetToSortSeq(S, <)
Concat(n, f(_)) == FlattenSeq([i \in 1..n |-> f(i)])

(* migrateSlot. *)
\* A bug: the target is not told to import.
MoveUnmarked(src, dst, s) ==
  << Call("migrating", src, dst, s),
     Call("keys", src, dst, s), Call("dstnode", dst, src, s), Call("srcnode", src, dst, s) >>
Move(src, dst, s) ==
  << Call("importing", dst, src, s), Call("migrating", src, dst, s),
     Call("keys", src, dst, s), Call("dstnode", dst, src, s), Call("srcnode", src, dst, s) >>
Moves(src, dst, slots) == Concat(Len(slots), LAMBDA i : Move(src, dst, slots[i]))

(* Slots of src spread over the masters ms, as deleteNode and Migrate do;   *)
(* no other master is a division by zero.                                   *)
SpreadOver(src, slots, ms) ==
  IF ms = <<>> THEN <<Panic>>
  ELSE LET d == Divide(Len(slots), Len(ms))
       IN Concat(Len(ms), LAMBDA i : Moves(src, ms[i], Part(slots, d, i)))

(* deleteNode and delNode, of a node and the cluster as seed lists it. *)
Lists(seed) == member \cup {t[2] : t \in {t \in told : <<seed, t[2]>> \notin told /\ t[2] # seed}}
Delete(del, nodes, ms, v) ==
  LET slots == Sorted({s \in Slots : v[s] = del})
      others == SelectSeq(ms, LAMBDA m : m # del)
      rest == SetToSeq({n \in nodes : n # del /\ slaveof[n] # del})
  IN (IF slaveof[del] = None THEN SpreadOver(del, slots, others) ELSE <<>>)
       \o [i \in 1..Len(rest) |-> Call("forget", rest[i], del, None)]

(* The switch of Migrate; a missing src or dst is a nil dereference in the  *)
(* cases that use it.                                                       *)
Migrate(c, ms) ==
  LET mine == IF c.src = None THEN <<>> ELSE Sorted(Claims(c.src)) IN
  CASE c.slot # None ->
         IF None \in {c.src, c.dst} THEN <<Panic>> ELSE Move(c.src, c.dst, c.slot)
    [] c.slot = None /\ c.count # 0 ->
         IF c.src = None THEN <<Panic>>
         ELSE IF Len(mine) < c.count THEN <<>>
         ELSE IF c.dst = None THEN <<Panic>>
         ELSE Moves(c.src, c.dst, SubSeq(mine, 1, c.count))
    [] c.slot = None /\ c.count = 0 /\ c.dst = None ->
         IF c.src = None THEN <<Panic>>
         ELSE SpreadOver(c.src, mine, SelectSeq(ms, LAMBDA m : m # c.src))
    [] OTHER -> IF c.src = None THEN <<Panic>> ELSE Moves(c.src, c.dst, mine)

(* reshard, of masters sorted by their number of slots: the surplus of the  *)
(* first is given to the last; a surplus too small is an index panic.       *)
Reshard(ms, v) ==
  LET k == Len(ms)
      of == [i \in 1..k |-> Sorted({s \in Slots : v[s] = ms[i]})]
      share == Divide(Cardinality(Slots), k)
      over == Concat(k, LAMBDA i : [j \in 1..(IF Len(of[i]) > share[i]
                                    THEN Len(of[i]) - share[i] ELSE 0) |-> <<ms[i], of[i][j]>>])
      under == Concat(k, LAMBDA i : [j \in 1..(IF share[i] > Len(of[i])
                                     THEN share[i] - Len(of[i]) ELSE 0) |-> ms[i]])
      moved == IF Len(under) < Len(over) THEN Len(under) ELSE Len(over)
  IN Concat(moved, LAMBDA i : Move(over[i][1], under[i], over[i][2]))
       \o (IF Len(under) > Len(over) THEN <<Panic>> ELSE <<>>)

(* Fix: fixSlot looks a mark of the seed up in an empty map, a nil          *)
(* dereference; then fillSlot, and the wait.                                *)
Fix(c, ms, v) ==
  LET seed == c.src
      missing == Sorted({s \in Slots : v[s] = None})
      d == Divide(Len(missing), Len(ms))
      add == [i \in 1..Len(ms) |-> Call("addslots", ms[i], None, ToSet(Part(missing, d, i)))]
  IN IF slaveof[seed] = None /\ importing[seed] \cup migrating[seed] # {} THEN <<Panic>>
     ELSE SelectSeq(add, LAMBDA x : x.s # {})
            \o <<Call("diff", seed, None, None), Call("wait", None, None, None)>>

(* Add: one new node and perhaps its slave. *)
Add(c) ==
  IF c.dst \in member THEN <<>>                        \* not valid(): errNode
  ELSE <<Call("meet", c.src, c.dst, None)>>
       \o (IF c.slave = None THEN <<>> ELSE <<Call("meet", c.src, c.slave, None)>>)
       \o <<Call("wait", None, None, None)>>
       \o (IF c.slave = None THEN <<>> ELSE <<Call("slave", c.slave, c.dst, "met")>>)

(* Replicate of a node of the cluster, or of a new one, without a wait. *)
Replicate(c, v) ==
  IF c.slave \in member
  THEN IF slaveof[c.slave] = None /\ \E s \in Slots : v[s] = c.slave THEN <<>>
       ELSE <<Call("slave", c.slave, c.src, None)>>
  ELSE <<Call("meet", c.src, c.slave, None), Call("slave", c.slave, c.src, "met")>>
-----------------------------------------------------------------------------
(* Create.  spread takes one node of every host per round, the hosts in any *)
(* order: ord[r] is the order of round r.  A host that has run out is an    *)
(* index panic.                                                             *)
HostsOf(addrs) == {HostOf[n] : n \in addrs}
OfHost(h, left) == Sorted({n \in left : HostOf[n] = h})
Perms(S) == {f \in [1..Cardinality(S) -> S] : \A i, j \in DOMAIN f : i # j => f[i] # f[j]}
Orders(num, hosts) == [1..((num + Cardinality(hosts) - 1) \div Cardinality(hosts)) -> Perms(hosts)]
Pick(i, left, ord) ==
  LET H == Len(ord[1])
      r == ((i - 1) \div H) + 1
      list == OfHost(ord[r][((i - 1) % H) + 1], left)
  IN IF r > Len(list) THEN None ELSE list[r]
Spread(left, num, ord) == [i \in 1..num |-> Pick(i, left, ord)]

(* initSlot, addSlots, setConfigEpoch, join, wait, setSlaves. *)
Create(addrs, masters, slaves) ==
  LET k == Len(masters)
      share == Divide(Cardinality(Slots), k)
      all == Sorted(addrs)
  IN IF None \in ToSet(masters) \cup ToSet(slaves) THEN <<Panic>>
     ELSE [i \in 1..k |-> Call("addslots", masters[i], None, ToSet(Part(Sorted(Slots), share, i)))]
          \o [i \in 1..k |-> Call("epoch", masters[i], None, None)]
          \o [i \in 1..Len(all) - 1 |-> Call("meet", all[1], all[i + 1], None)]
          \o <<Call("wait", None, None, None)>>
          \o [i \in 1..Len(slaves) |-> Call("slave", slaves[i], masters[((i - 1) % k) + 1], None)]

Start(c, v) ==
  LET ms == {n \in member : slaveof[n] = None} IN
  CASE c.op = "create" ->
         LET all == Cardinality(c.addrs)
             num == all \div (c.count + 1)
             hosts == HostsOf(c.addrs)
         IN IF num < 3 THEN todo' = <<>>                \* errMasterCount
            ELSE \E o1 \in Orders(num, hosts), o2 \in Orders(all - num, hosts) :
                   LET masters == Spread(c.addrs, num, o1)
                       slaves == Spread(c.addrs \ ToSet(masters), all - num, o2)
                   IN todo' = Create(c.addrs, masters, slaves)
    [] c.op = "reshard" ->
         \E p \in Perms(ms) :
           /\ \A i \in 1..Len(p) - 1 : Cardinality({s \in Slots : v[c.src][s] = p[i]})
                                       >= Cardinality({s \in Slots : v[c.src][s] = p[i + 1]})
           /\ todo' = Reshard(p, v[c.src])
    [] c.op = "add" -> todo' = Add(c)
    [] c.op = "delete" ->
         todo' = [i \in 1..Len(c.addrs) |-> Call("delete", c.addrs[i], None, {c.src})]
    [] c.op = "replicate" -> todo' = Replicate(c, v[c.src])
    [] OTHER ->
         \E p \in Perms(ms) :
           todo' = CASE c.op = "migrate" -> Migrate(c, p)
                     [] c.op = "fix" -> Fix(c, p, v[c.src])
(* Gossip has settled, the command reads the cluster and plans. *)
Begin ==
  /\ todo = <<>> /\ cmds # <<>>
  /\ cmd' = Head(cmds) /\ cmds' = Tail(cmds)
  /\ view' = Settled(view)
  /\ Start(Head(cmds), view')
  /\ panicked' = FALSE
  /\ UNCHANGED <<epoch, importing, migrating, keys, slaveof, member, faults, failed, assigned,
                 told, copied, strayed>>
-----------------------------------------------------------------------------
At(op) == todo # <<>> /\ Head(todo).op = op
This == Head(todo)
Pop(k) == todo' = SubSeq(todo, k + 1, Len(todo))
Finish == UNCHANGED <<cmds, cmd, assigned, panicked, strayed>>
Fault == faults < MaxFaults /\ faults' = faults + 1 /\ failed' = failed \cup {<<cmd.op, This.op, This.s>>}
NoFault == UNCHANGED <<faults, failed>>
Dies == todo' = <<>> /\ panicked' = TRUE /\ UNCHANGED <<cmds, cmd, assigned, strayed>>

(* The command is killed between two calls. *)
Interrupt ==
  /\ todo # <<>> /\ faults < MaxFaults /\ faults' = faults + 1
  /\ failed' = failed \cup {<<cmd.op, "interrupt", None>>}
  /\ todo' = <<>> /\ Finish /\ UNCHANGED redis

Panics == At("panic") /\ Dies /\ NoFault /\ UNCHANGED redis

(* A call whose failure nobody notices: setSlot, forget, and an error reply *)
(* to any other; to keysInSlot it reads as a slot without keys.             *)
Ignored ==
  /\ todo # <<>> /\ This.op \in {"importing", "migrating", "keys", "dstnode", "srcnode", "forget",
                                 "addslots", "epoch", "meet", "slave"}
  /\ Fault /\ Pop(1) /\ Finish /\ UNCHANGED redis

(* A connection error that ends the command: meet and keysInSlot return it, *)
(* Delete finds no nodes, addSlots, setSlave and migrate look at the nil    *)
(* reply and panic, and a failed setConfigEpoch makes consistent() false    *)
(* for ever.                                                                *)
Broken ==
  /\ todo # <<>> /\ Fault /\ UNCHANGED redis
  /\ \/ /\ This.op = "keys" /\ Pop(3) /\ Finish
     \/ /\ This.op = "delete" /\ todo' = <<>> /\ Finish
     \/ /\ This.op \in {"addslots", "slave"} /\ Dies
     \/ /\ This.op = "keys" /\ keys[This.a][This.s] > 0 /\ Dies
     \/ /\ This.op = "meet" /\ cmd.op = "add" /\ todo' = <<>> /\ Finish
     \/ /\ This.op = "epoch" /\ todo' = <<Call("wait", None, None, "never")>> /\ Finish

(* Delete takes the next address.  The nodes are those a read of the seed   *)
(* gave; after each removal updateNode reads again, from any node of the    *)
(* last list, without waiting for gossip.  An address that is not found is  *)
(* skipped without a new read.                                              *)
DeleteNode ==
  /\ At("delete") /\ NoFault
  /\ \E v \in {view, Settled(view)}, seed \in This.s \ {This.b} :
       LET nodes == Lists(seed)
           Later(b, list) == [i \in 1..Len(todo) - 1 |->
                                IF todo[i + 1].op = "delete"
                                THEN [todo[i + 1] EXCEPT !.b = b, !.s = list] ELSE todo[i + 1]]
       IN /\ view' = v
          /\ IF This.a \notin nodes THEN todo' = Later(None, {seed}) /\ UNCHANGED strayed
             ELSE \E p \in Perms({n \in nodes : slaveof[n] = None}) :
                    LET plan == Delete(This.a, nodes, p, v[seed])
                    IN /\ todo' = plan \o Later(This.a, nodes)
                       /\ strayed' = strayed \cup {s \in Claims(This.a) : v[seed][s] # This.a}
                            \cup {plan[i].s : i \in {i \in 1..Len(plan) :
                                    plan[i].op = "importing" /\ plan[i].a \notin member}}
  /\ UNCHANGED <<cmds, cmd, assigned, panicked, epoch, importing, migrating, keys, slaveof,
                 member, told, copied>>

(* redis: SETSLOT IMPORTING and MIGRATING; refused by an owner, by another. *)
Importing ==
  /\ At("importing") /\ Pop(1) /\ Finish /\ NoFault
  /\ importing' = IF This.s \in Claims(This.a) THEN importing
                  ELSE [importing EXCEPT ![This.a] = @ \cup {This.s}]
  /\ UNCHANGED <<view, epoch, migrating, keys, slaveof, member, told, copied>>
Migrating ==
  /\ At("migrating") /\ Pop(1) /\ Finish /\ NoFault
  /\ migrating' = IF This.s \in Claims(This.a)
                  THEN [migrating EXCEPT ![This.a] = @ \cup {This.s}] ELSE migrating
  /\ UNCHANGED <<view, epoch, importing, keys, slaveof, member, told, copied>>

(* The loop of migrateSlot: keysInSlot, migrate, until there are none.  An  *)
(* error reply of MIGRATE is logged, and the loop goes round.  The target   *)
(* accepts keys of a slot it imports or owns.  MIGRATE times out after      *)
(* 500 ms: the target may have the keys and the source keeps them; without  *)
(* REPLACE, MIGRATE of these keys is refused from then on (BUSYKEY).        *)
Accepts(n, s) == s \in importing[n] \/ s \in Claims(n)
\* A bug: one batch of keys is moved, whatever the slot holds.
KeysDoneOnce(n, s) == TRUE
KeysDone(n, s) == keys[n][s] = 0
MigrateKeys ==
  /\ At("keys") /\ Finish /\ NoFault
  /\ \/ KeysDone(This.a, This.s) /\ Pop(1) /\ UNCHANGED keys
     \/ /\ ~KeysDone(This.a, This.s) /\ Accepts(This.b, This.s)
        /\ <<This.b, This.s>> \notin copied
        /\ keys' = [keys EXCEPT ![This.a][This.s] = @ - 1, ![This.b][This.s] = @ + 1]
        /\ UNCHANGED todo
  /\ UNCHANGED <<view, epoch, importing, migrating, slaveof, member, told, copied>>

MigrateTimeout ==
  /\ At("keys") /\ ~KeysDone(This.a, This.s) /\ Accepts(This.b, This.s)
  /\ faults < MaxFaults /\ faults' = faults + 1
  /\ failed' = failed \cup {<<cmd.op, "timeout", This.s>>}
  /\ copied' = copied \cup {<<This.b, This.s>>}
  /\ Finish /\ UNCHANGED <<todo, view, epoch, importing, migrating, keys, slaveof, member, told>>

(* redis: SETSLOT NODE.  The importing target takes a new epoch; the source *)
(* refuses while it holds keys.                                             *)
NodeAtDst ==
  /\ At("dstnode") /\ Pop(1) /\ Finish /\ NoFault
  /\ view' = [view EXCEPT ![This.a][This.s] = This.a]
  /\ epoch' = IF This.s \in importing[This.a]
              THEN [epoch EXCEPT ![This.a] = 1 + CHOOSE e \in {epoch[n] : n \in Nodes} :
                                                   \A n \in Nodes : epoch[n] <= e]
              ELSE epoch
  /\ importing' = [importing EXCEPT ![This.a] = @ \ {This.s}]
  /\ UNCHANGED <<migrating, keys, slaveof, member, told, copied>>
NodeAtSrc ==
  /\ At("srcnode") /\ Pop(1) /\ Finish /\ NoFault
  /\ IF This.s \in Claims(This.a) /\ keys[This.a][This.s] > 0
     THEN UNCHANGED <<view, migrating, told, copied>>
     ELSE /\ view' = [view EXCEPT ![This.a][This.s] = This.b]
          /\ migrating' = [migrating EXCEPT ![This.a] = @ \ {This.s}]
  /\ UNCHANGED <<epoch, importing, keys, slaveof, member, told, copied>>

(* redis: FORGET unassigns the slots of the node.  From the first on it is  *)
(* no member any more; who was not told still lists it.                     *)
Forget ==
  /\ At("forget") /\ Pop(1) /\ Finish /\ NoFault
  /\ view' = [view EXCEPT ![This.a] =
                [s \in Slots |-> IF @[s] = This.b THEN None ELSE @[s]]]
  /\ member' = member \ {This.b} /\ told' = told \cup {<<This.a, This.b>>}
  /\ UNCHANGED <<epoch, importing, migrating, keys, slaveof, copied>>

(* redis: ADDSLOTS, refused if one is assigned; MEET; REPLICATE, refused by *)
(* a node that has slots.  SET_CONFIG_EPOCH is no redis command.            *)
AddSlots ==
  /\ At("addslots") /\ Pop(1) /\ NoFault
  /\ UNCHANGED <<cmds, cmd, panicked, strayed>>
  /\ view' = IF \E s \in This.s : view[This.a][s] # None THEN view
             ELSE [view EXCEPT ![This.a] =
                     [s \in Slots |-> IF s \in This.s THEN This.a ELSE @[s]]]
  /\ assigned' = assigned \cup {s \in This.s : view'[This.a][s] = This.a}
  /\ UNCHANGED <<epoch, importing, migrating, keys, slaveof, member, told, copied>>
SetConfigEpoch == At("epoch") /\ Pop(1) /\ Finish /\ NoFault /\ UNCHANGED redis
Meet ==
  /\ At("meet") /\ Pop(1) /\ Finish /\ NoFault
  /\ member' = member \cup {This.a, This.b}
  /\ told' = {t \in told : t[2] \notin {This.a, This.b}}
  /\ UNCHANGED <<view, epoch, importing, migrating, keys, slaveof, copied>>
SetSlave ==
  /\ At("slave") /\ Pop(1) /\ Finish /\ NoFault
  /\ \/ slaveof' = IF Claims(This.a) = {} /\ {This.a, This.b} \subseteq member
                   THEN [slaveof EXCEPT ![This.a] = This.b] ELSE slaveof
     \/ This.s = "met" /\ UNCHANGED slaveof    \* it does not know the master yet
  /\ UNCHANGED <<view, epoch, importing, migrating, keys, member, told, copied>>

(* consistent(): every node's view covers every slot, and they agree. *)
Covers(v, n) == \A s \in Slots : v[n][s] # None
Consistent(v) ==
  LET nodes == IF cmd.op = "create" THEN cmd.addrs ELSE member
  IN /\ \A n \in nodes : Covers(v, n)
     /\ \A n, m \in nodes : v[n] = v[m]
Wait ==
  /\ At("wait") /\ This.s = None
  /\ Consistent(Settled(view)) /\ view' = Settled(view)
  /\ Pop(1) /\ Finish /\ NoFault
  /\ UNCHANGED <<epoch, importing, migrating, keys, slaveof, member, told, copied>>

(* The end of Fix, before or after gossip: done if the seed's state is ok,  *)
(* else the seed is given the slots that the newest node, its state ok,     *)
(* takes for the seed's.                                                    *)
Diff ==
  /\ At("diff") /\ NoFault
  /\ \E v \in {view, Settled(view)} :
       LET seed == This.a
           newest == CHOOSE n \in member : \A m \in member : epoch[m] <= epoch[n]
           diff == {s \in Slots : v[newest][s] = seed /\ v[seed][s] # seed}
           more == IF Covers(v, newest) /\ diff # {} THEN <<Call("addslots", seed, None, diff)>> ELSE <<>>
       IN /\ view' = v
          /\ todo' = IF Covers(v, seed) THEN <<>> ELSE more \o Tail(todo)
  /\ Finish /\ UNCHANGED <<epoch, importing, migrating, keys, slaveof, member, told, copied>>

Next == \/ Begin \/ DeleteNode \/ Panics \/ Ignored \/ Broken \/ MigrateTimeout
        \/ Importing \/ Migrating \/ MigrateKeys \/ NodeAtDst \/ NodeAtSrc
        \/ Forget \/ AddSlots \/ SetConfigEpoch \/ Meet \/ SetSlave \/ Wait \/ Diff \/ Interrupt
Spec == Init /\ [][Next]_vars
-----------------------------------------------------------------------------
(***************************************************************************)
(* A slot that was assigned is always claimed by a member of the cluster,  *)
(* through migrations, interrupted ones too, resharding and the removal of *)
(* nodes: the target claims it before the source gives it up.  Two ignored *)
(* errors are exceptions: SETSLOT NODE failing at the target, and          *)
(* keysInSlot failing while the slot is moved off a node that deleteNode   *)
(* then forgets.  The third is a delete of several addresses: the list it  *)
(* reads between two of them may be older than the moves, so that a slot   *)
(* moved to the second node stays there when it is forgotten, and a slave  *)
(* of the first still lists it, so that slots are moved to a node that is  *)
(* no member.                                                              *)
(***************************************************************************)
SlotsServed ==
  \A s \in assigned :
    \/ \E n \in (IF cmd.op = "create" THEN Nodes ELSE member) : s \in Claims(n)
    \/ \E f \in failed : f[2] = "dstnode" /\ f[3] = s
    \/ <<"delete", "keys", s>> \in failed
    \/ s \in strayed

(***************************************************************************)
(* What a command that ran without a failing call and without a panic      *)
(* leaves behind: one owner for a slot, the keys with their owner; after a *)
(* reshard, sizes that divide() gives; after fix and create every slot     *)
(* assigned; after create the slaves spread evenly over the masters.  The  *)
(* panics are many: two of the five documented forms of migrate, a count   *)
(* with only the origin or only the target, always end in one.             *)
(***************************************************************************)
Masters == {n \in member : slaveof[n] = None}
Outcome ==
  todo = <<>> /\ failed = {} /\ ~panicked =>
    /\ \A n, m \in member : n # m => Claims(n) \cap Claims(m) = {}
    /\ \A n \in Nodes, s \in Slots : keys[n][s] > 0 => s \in Claims(n)
    /\ cmd.op = "reshard" =>
         \A n, m \in Masters : Cardinality(Claims(n)) - Cardinality(Claims(m)) <= 1
    /\ cmd.op \in {"fix", "create"} /\ member # {} => UNION {Claims(n) : n \in member} = Slots
    /\ cmd.op = "create" =>
         \A n, m \in Masters : Cardinality({x \in member : slaveof[x] = n})
                                  - Cardinality({x \in member : slaveof[x] = m}) <= 1

(***************************************************************************)
(* The two loops that have no way out end, unless a call failed before:    *)
(* migrateSlot goes round for ever only if the target was not marked       *)
(* importing, or if a MIGRATE timed out and left copies that the next one  *)
(* meets; a command waits for consistent() for ever only if a call failed  *)
(* or Add is run on a cluster that does not cover every slot.              *)
(***************************************************************************)
NoStall ==
  /\ At("keys") /\ ~KeysDone(This.a, This.s)
       /\ (~Accepts(This.b, This.s) \/ <<This.b, This.s>> \in copied)
       => \/ <<cmd.op, "importing", This.s>> \in failed
          \/ \E f \in failed : f[2] = "timeout" /\ f[3] = This.s
  /\ At("wait") /\ ~Consistent(Settled(view))
       => failed # {} \/ (cmd.op = "add" /\ assigned # Slots)
=============================================================================
