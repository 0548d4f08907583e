------------------------------ MODULE Placement ------------------------------
(***************************************************************************)
(* Where the instances of a cluster go: chunk.go and dist.go choose hosts  *)
(* and ports out of the offers of mesos, server_cluster.go divides the     *)
(* slots over the masters.  A redis cluster is a sequence of chunks, each  *)
(* of two masters and two slaves on a pair of hosts; a singleton is a list *)
(* of addresses.  The loops of the code are steps of this specification,   *)
(* so that one which never ends is a behaviour that never leaves its       *)
(* phase.  A plan is a world (what every host can hold) and the calls made *)
(* in it, one after the other; the offers of a call are what is left.      *)
(***************************************************************************)
EXTENDS Integers, Sequences, FiniteSets, SequencesExt

CONSTANTS Plans,     \* plans: [room, ports: host -> Nat, calls: Seq(call)]
          Slots,     \* ClusterSlotsCount (16384 in the code)
          MaxLinks   \* bound on an entry of the link table

ASSUME PlacementAssumption == Slots \in Nat \ {0} /\ MaxLinks \in Nat

VARIABLES plan,    \* the world and the calls, chosen at the start
          todo,    \* the calls still to make
          phase,   \* "idle", "called", "fill", "pair" or "panic"
          call,    \* the current call [op, num, hosts, host]
          offers,  \* its offers: Seq([host, fits, ports])
          cnt,     \* hosts of dpFillHostRes, then hrs: units per offer
          left,    \* units still to hand out
          new,     \* units the fill loop added, per offer
          table,   \* linkTable
          bases,   \* relateHost still to be linked (ChunksRecover)
          links,   \* links found so far: Seq(<<base, linkto>>)
          chunks,  \* the chunks of the cluster: Seq(Seq(address))
          dist,    \* the addresses of the singleton
          ranges,  \* slot range of every master, in chunk order
          err      \* the error of the last call, "" if none

vars == <<plan, todo, phase, call, offers, cnt, left, new, table, bases,
          links, chunks, dist, ranges, err>>
-----------------------------------------------------------------------------
(* What mesos offers (external): every host named by the call offers what *)
(* the deployed instances leave, split over its offers if it has several. *)
Deployed == UNION {ToSet(chunks[i]) : i \in DOMAIN chunks} \cup ToSet(dist)
Used(h) == {a[2] : a \in {x \in Deployed : x[1] = h}}
Offered(hosts) ==
  [i \in DOMAIN hosts |->
     LET h == hosts[i]
         used == Used(h)
         same == {j \in DOMAIN hosts : hosts[j] = h}
         n == Cardinality(same)
         r == Cardinality({j \in same : j < i})
         free == SelectSeq([p \in 1..plan.ports[h] |-> p], LAMBDA p : p \notin used)
     IN [host  |-> h,
         fits  |-> (plan.room[h] - Cardinality(used)) \div n,
         ports |-> [k \in 1..((Len(free) + n - 1 - r) \div n) |->
                      free[(k - 1) * n + r + 1]]]]

(* mapIntoHostRes: instances an offer holds, rounded down to even. *)
CountOf(o) ==
  LET m == IF o.fits < Len(o.ports) THEN o.fits ELSE Len(o.ports)
  IN 2 * (m \div 2)

Counts(os) == [i \in DOMAIN os |-> CountOf(os[i])]

(* sort.Sort(byCountDesc(hrs)): ascending, whatever its name. *)
Sorted(os) ==
  LET count == Counts(os)
      before(i, j) == count[i] < count[j] \/ (count[i] = count[j] /\ i < j)
      rank(i) == Cardinality({j \in DOMAIN os : before(j, i)}) + 1
  IN [k \in DOMAIN os |-> os[CHOOSE i \in DOMAIN os : rank(i) = k]]

Total(f) ==
  LET sum[k \in 0..Len(f)] == IF k = 0 THEN 0 ELSE sum[k - 1] + f[k] IN sum[Len(f)]
HostsOf(os) == {os[i].host : i \in DOMAIN os}

(* hrmap: a host's last index among the offers; 0 when it has none. *)
IndexOf(os, h) ==
  IF h \in HostsOf(os)
  THEN CHOOSE i \in DOMAIN os : /\ os[i].host = h
                                /\ \A j \in DOMAIN os : os[j].host = h => j <= i
  ELSE 0
(* mapIntoPortsMap: the ports of a host's last offer, in the order the     *)
(* offers came in (the sort is of the counts alone).                       *)
PortsOf(h) ==
  LET os == Offered(call.hosts)
  IN IF h \in HostsOf(os) THEN os[IndexOf(os, h)].ports ELSE <<>>

(* The two hosts of a chunk: Nodes[0] and Nodes[2] (or Nodes[3]). *)
Base(c) == c[1][1]
LinkTo(c) == c[3][1]
Halves(h) == Cardinality({i \in DOMAIN chunks : Base(chunks[i]) = h})
             + Cardinality({i \in DOMAIN chunks : LinkTo(chunks[i]) = h})
(* Units of the old chunks on the offers, as dpFillHostRes recovers them. *)
Recovered(os) ==
  [i \in DOMAIN os |->
     IF IndexOf(os, os[i].host) = i THEN 2 * Halves(os[i].host) ELSE 0]

(* ChunksRecover: the chunks with a half on the lost host, and the hosts *)
(* their other halves are on.                                            *)
Broken(h) == {i \in DOMAIN chunks : h \in {Base(chunks[i]), LinkTo(chunks[i])}}
Related(h) == {IF Base(chunks[i]) = h THEN LinkTo(chunks[i]) ELSE Base(chunks[i])
                 : i \in Broken(h)}
-----------------------------------------------------------------------------
Scale(c) == IF c.op = "dist" THEN 1 ELSE 2
Need(c) == CASE c.op \in {"create", "append"} -> c.num * 2
             [] c.op = "recover"              -> 2 * Cardinality(Broken(c.host))
             [] OTHER                         -> c.num

(* The early returns of checkChunk and of ChunksRecover. *)
Refusal(c, os) ==
  LET n == Cardinality(HostsOf(os)) IN
  CASE c.op = "dist" -> ""
    [] c.op = "recover" ->
         IF Total(Counts(os)) < Need(c) THEN "NotEnoughResource" ELSE ""
    [] OTHER -> IF c.num % 2 # 0 THEN "BadMasterNum"
                ELSE IF n < 3 THEN "NotEnoughHost"
                ELSE IF n = 3 /\ c.num = 4 THEN "Not3Not4"
                ELSE IF Total(Counts(os)) < Need(c) THEN "NotEnoughResource"
                ELSE ""

(* checkDist: no host holds half of the units or more. *)
BadDist(c, units) ==
  LET half == CASE c.op = "create"  -> c.num
                [] c.op = "append"  -> 2 * Len(chunks) + c.num
                [] c.op = "recover" -> 2 * Len(chunks)
                [] OTHER            -> c.num \div 2
  IN \E i \in DOMAIN units : units[i] >= half

(* Mutant: the capacity test lets a full host through. *)
FindMinHrsLoose(os, units, disabled, all, scale) ==
  LET caps == Counts(os)
      scan[k \in 0..Len(os)] ==
        IF k = 0 THEN [i |-> 1, min |-> all]
        ELSE LET best == scan[k - 1] IN
             IF /\ os[k].host \notin disabled
                /\ units[k] < best.min
                /\ caps[best.i] - units[k] >= 0
             THEN [i |-> k, min |-> units[k]]
             ELSE best
  IN scan[Len(os)].i

(* findMinHrs: the scan compares with the capacity of the best host so far *)
(* and answers the first host when none qualifies.                         *)
FindMinHrs(os, units, disabled, all, scale) ==
  LET caps == Counts(os)
      scan[k \in 0..Len(os)] ==
        IF k = 0 THEN [i |-> 1, min |-> all]
        ELSE LET best == scan[k - 1] IN
             IF /\ os[k].host \notin disabled
                /\ units[k] < best.min
                /\ caps[best.i] - units[k] >= scale
             THEN [i |-> k, min |-> units[k]]
             ELSE best
  IN scan[Len(os)].i

(* Mutant: the last host that has units left, not the fullest. *)
MaxHostLast(units) ==
  CHOOSE i \in DOMAIN units :
    \A j \in DOMAIN units : (units[j] # 0 => units[i] # 0 /\ j <= i)

(* maxHost: the first host with the largest count. *)
MaxHost(units) ==
  CHOOSE i \in DOMAIN units :
    \A j \in DOMAIN units : units[j] < units[i] \/ (units[j] = units[i] /\ i <= j)

(* Mutant: m is not skipped. *)
FindMinLinkSelf(t, m) ==
  CHOOSE p \in DOMAIN t :
    \A q \in DOMAIN t : t[m][p] < t[m][q] \/ (t[m][p] = t[m][q] /\ p <= q)

(* findMinLink: the first host, m excepted, with the fewest links to m. *)
FindMinLink(t, m) ==
  CHOOSE p \in DOMAIN t \ {m} :
    \A q \in DOMAIN t \ {m} : t[m][p] < t[m][q] \/ (t[m][p] = t[m][q] /\ p <= q)
Linked(t, i, j) == [t EXCEPT ![i][j] = @ + 1, ![j][i] = @ + 1]

(* The link table of the old chunks whose two hosts are both offered. *)
OldTable(os) ==
  [i \in DOMAIN os |-> [j \in DOMAIN os |->
     Cardinality({k \in DOMAIN chunks :
        LET a == IndexOf(os, Base(chunks[k]))
            b == IndexOf(os, LinkTo(chunks[k]))
        IN {a, b} = {i, j} /\ 0 \notin {a, b}})]]
-----------------------------------------------------------------------------
(* links2Chunks: two ports a half, in the order of the links. *)
FirstPort(ls, i, h) == 2 * Cardinality({j \in 1..(i - 1) : h \in {ls[j][1], ls[j][2]}})
NodesOf(ls, i) ==
  LET b == ls[i][1]
      l == ls[i][2]
      at(h, k) == <<h, PortsOf(h)[FirstPort(ls, i, h) + k]>>
  IN <<at(b, 1), at(b, 2), at(l, 1), at(l, 2)>>
PortsSuffice(ls) ==
  \A i \in DOMAIN ls : \A h \in {ls[i][1], ls[i][2]} :
    FirstPort(ls, i, h) + 2 <= Len(PortsOf(h))

(* Mutant: a range starts at the end of the one before. *)
RangesOverlap(masters, number) ==
  LET per == Slots \div number
      rest == Slots % number
      end(base, k) == LET e == base + per + (IF k <= rest THEN 1 ELSE 0)
                      IN IF e >= Slots THEN Slots - 1 ELSE e
      base[k \in 1..(masters + 1)] ==
        IF k = 1 THEN 0 ELSE end(base[k - 1], k - 1)
  IN [k \in 1..masters |-> <<base[k], end(base[k], k)>>]

(* divideSlots: every range ends sc after its base, hence holds sc + 1. *)
Ranges(masters, number) ==
  LET per == Slots \div number
      rest == Slots % number
      end(base, k) == LET e == base + per + (IF k <= rest THEN 1 ELSE 0)
                      IN IF e >= Slots THEN Slots - 1 ELSE e
      base[k \in 1..(masters + 1)] ==
        IF k = 1 THEN 0 ELSE end(base[k - 1], k - 1) + 1
  IN [k \in 1..masters |-> <<base[k], end(base[k], k)>>]

(* mapHostResIntoDist: the next ports of every host, in the order given. *)
Addresses(os, units) ==
  FlattenSeq([i \in DOMAIN os |->
     LET h == os[i].host
         first == Total([j \in 1..(i - 1) |-> IF os[j].host = h THEN units[j] ELSE 0])
     IN [k \in 1..units[i] |-> <<h, PortsOf(h)[first + k]>>]])
DistFits(os, units) ==
  \A h \in HostsOf(os) :
    Total([j \in DOMAIN os |-> IF os[j].host = h THEN units[j] ELSE 0])
      <= Len(PortsOf(h))
-----------------------------------------------------------------------------
Init ==
  /\ plan \in Plans
  /\ todo = plan.calls
  /\ phase = "idle"
  /\ call = [op |-> "none"]
  /\ offers = <<>> /\ cnt = <<>> /\ left = 0 /\ new = <<>> /\ table = <<>>
  /\ bases = <<>> /\ links = <<>> /\ chunks = <<>> /\ dist = <<>>
  /\ ranges = <<>> /\ err = ""

(* The next call, with the offers of the moment. *)
Call ==
  /\ phase = "idle" /\ todo # <<>>
  /\ call' = Head(todo)
  /\ todo' = Tail(todo)
  /\ offers' = Offered(call'.hosts)
  /\ phase' = "called"
  /\ err' = ""
  /\ UNCHANGED <<plan, cnt, left, new, table, bases, links, chunks, dist, ranges>>

(* Chunks, ChunksAppend, ChunksRecover and DistIt up to the fill loop. *)
(* DistIt does not sort its offers.                                    *)
Start ==
  /\ phase = "called" /\ call.op # "distappend"
  /\ offers' = IF call.op = "dist" THEN offers ELSE Sorted(offers)
  /\ err' = Refusal(call, offers')
  /\ phase' = IF err' = "" THEN "fill" ELSE "idle"
  /\ left' = Need(call)
  /\ cnt' = IF call.op = "dist" THEN [i \in DOMAIN offers' |-> 0] ELSE Recovered(offers')
  /\ new' = [i \in DOMAIN offers' |-> 0]
  /\ links' = <<>>
  /\ UNCHANGED <<plan, todo, call, table, bases, chunks, dist, ranges>>

(* One round of the loop of dpFillHostRes. *)
Fill ==
  /\ phase = "fill" /\ left > 0
  /\ LET disabled == IF call.op = "recover" THEN Related(call.host) ELSE {}
         all == (IF call.op = "dist" THEN 0 ELSE 2 * Len(chunks)) + Need(call)
         i == FindMinHrs(offers, cnt, disabled, all, Scale(call))
     IN /\ cnt' = [cnt EXCEPT ![i] = @ + Scale(call)]
        /\ new' = [new EXCEPT ![i] = @ + Scale(call)]
  /\ left' = left - Scale(call)
  /\ UNCHANGED <<plan, todo, phase, call, offers, table, bases, links, chunks,
                 dist, ranges, err>>

(* The loop is done: checkDist, then the pairing of the halves. *)
Filled ==
  /\ phase = "fill" /\ left = 0 /\ call.op # "dist"
  /\ IF BadDist(call, cnt)
     THEN /\ err' = "BadDist" /\ phase' = "idle"
          /\ UNCHANGED <<cnt, table, bases>>
     ELSE /\ phase' = "pair"
          /\ LET old == Recovered(offers) IN cnt' = [i \in DOMAIN cnt |-> cnt[i] - old[i]]
          /\ table' = OldTable(offers)
          /\ bases' \in IF call.op = "recover" THEN SetToSeqs(Related(call.host))
                        ELSE {<<>>}
          /\ UNCHANGED err
  /\ UNCHANGED <<plan, todo, call, offers, left, new, links, chunks, dist, ranges>>

(* The rest of DistIt. *)
DistIt ==
  /\ phase = "fill" /\ left = 0 /\ call.op = "dist"
  /\ IF BadDist(call, cnt)
     THEN err' = "BadDist" /\ phase' = "idle" /\ UNCHANGED dist
     ELSE IF DistFits(offers, cnt)
     THEN phase' = "idle" /\ dist' = Addresses(offers, cnt) /\ UNCHANGED err
     ELSE phase' = "panic" /\ UNCHANGED <<dist, err>>
  /\ UNCHANGED <<plan, todo, call, offers, cnt, left, new, table, bases, links,
                 chunks, ranges>>

(* One round of the pairing loop of Chunks and ChunksAppend: the fullest   *)
(* host with the host it has the fewest links to.  Only Chunks counts the  *)
(* new link.                                                               *)
Pair ==
  /\ phase = "pair" /\ call.op # "recover" /\ cnt[MaxHost(cnt)] # 0
  /\ LET h == offers[MaxHost(cnt)].host
         m == IndexOf(offers, h)
         p == FindMinLink(table, m)
     IN /\ table[m][p] < MaxLinks
        /\ IF cnt[p] < 2
           THEN table' = Linked(table, p, m) /\ UNCHANGED <<cnt, links>>
           ELSE /\ links' = Append(links, <<h, offers[p].host>>)
                /\ cnt' = [cnt EXCEPT ![m] = @ - 2, ![p] = @ - 2]
                /\ table' = IF call.op = "create" THEN Linked(table, p, m) ELSE table
  /\ UNCHANGED <<plan, todo, phase, call, offers, left, new, bases, chunks, dist,
                 ranges, err>>

(* One round of ChunksRecover: a new partner for a host that lost one. *)
PairRelated ==
  /\ phase = "pair" /\ call.op = "recover" /\ bases # <<>>
  /\ LET h == Head(bases)
         m == IF h \in HostsOf(offers) THEN IndexOf(offers, h) ELSE 1
         p == FindMinLink(table, m)
     IN /\ table[m][p] < MaxLinks
        /\ IF cnt[p] < 2
           THEN table' = Linked(table, p, m) /\ UNCHANGED <<cnt, links, bases>>
           ELSE /\ links' = Append(links, <<h, offers[p].host>>)
                /\ cnt' = [cnt EXCEPT ![p] = @ - 2]
                /\ bases' = Tail(bases)
                /\ UNCHANGED table
  /\ UNCHANGED <<plan, todo, phase, call, offers, left, new, chunks, dist,
                 ranges, err>>

(* links2Chunks, and divideSlots of the job that deploys the chunks; the   *)
(* job's Number is the number of masters it adds.                          *)
Paired ==
  /\ phase = "pair"
  /\ IF call.op = "recover" THEN bases = <<>> ELSE cnt[MaxHost(cnt)] = 0
  /\ LET kept == IF call.op = "recover"
                 THEN SelectSeq(chunks, LAMBDA c : call.host \notin {Base(c), LinkTo(c)})
                 ELSE chunks
     IN IF PortsSuffice(links)
        THEN /\ phase' = "idle"
             /\ chunks' = kept \o [i \in DOMAIN links |-> NodesOf(links, i)]
             /\ ranges' = IF call.op = "recover" THEN ranges
                          ELSE Ranges(2 * Len(chunks'), call.num)
        ELSE phase' = "panic" /\ UNCHANGED <<chunks, ranges>>
  /\ UNCHANGED <<plan, todo, call, offers, cnt, left, new, table, bases, links,
                 dist, err>>

(* DistAppendIt: one each for the hosts never used, smallest offer first, *)
(* then round and round the hosts in use, the most used first.            *)
FreshUnits(os, n) ==
  LET fresh == SelectSeq([k \in DOMAIN os |-> k],
                 LAMBDA k : os[k].host \notin {a[1] : a \in ToSet(dist)}
                            /\ \A j \in 1..(k - 1) : os[j].host # os[k].host)
  IN {fresh[k] : k \in 1..(IF n < Len(fresh) THEN n ELSE Len(fresh))}
Rounds(order, n, h) ==   \* how many of n turns of the round robin are h's
  Cardinality({k \in 1..n : order[((k - 1) % Len(order)) + 1] = h})
DistAppendIt ==
  /\ phase = "called" /\ call.op = "distappend"
  /\ offers' = Sorted(offers)
  /\ LET fresh == FreshUnits(offers', call.num)
         rest == call.num - Cardinality(fresh)
         got(h) == Cardinality({i \in fresh : offers'[i].host = h})
         deployed(h) == Cardinality({k \in DOMAIN dist : dist[k][1] = h}) + got(h)
         again == {h \in HostsOf(offers') : deployed(h) > 0}
     IN \E order \in {s \in SetToSeqs(again) :
                        \A i, j \in DOMAIN s :
                          i < j => deployed(s[i]) >= deployed(s[j])} :
          new' = [i \in DOMAIN offers' |->
                    LET h == offers'[i].host IN
                    IF IndexOf(offers', h) # i THEN 0
                    ELSE got(h) + (IF rest > 0 THEN Rounds(order, rest, h) ELSE 0)]
  /\ IF DistFits(offers', new')
     THEN dist' = dist \o Addresses(offers', new') /\ phase' = "idle"
     ELSE phase' = "panic" /\ UNCHANGED dist
  /\ UNCHANGED <<plan, todo, call, cnt, left, table, bases, links, chunks, ranges, err>>

(* The calls are made, a panic has ended the process, or the pairing loop *)
(* has gone round until the bound of the link table.                      *)
Stop ==
  /\ \/ phase = "panic"
     \/ phase = "idle" /\ todo = <<>>
     \/ phase = "pair" /\ \E i, j \in DOMAIN table : table[i][j] = MaxLinks
  /\ UNCHANGED vars

Next == Call \/ Start \/ Fill \/ Filled \/ DistIt \/ Pair \/ PairRelated \/ Paired
        \/ DistAppendIt \/ Stop
(* Nothing keeps the pairing loop of a call from its next turn. *)
Spec == Init /\ [][Next]_vars /\ WF_vars(Pair \/ PairRelated \/ Paired)
-----------------------------------------------------------------------------
(* Some call of the plan gets two offers of one host. *)
HostTwice == \E k \in DOMAIN plan.calls : ~ IsInjective(plan.calls[k].hosts)

(* setupSlaveOf: Nodes[1] replicates Nodes[2], Nodes[3] replicates Nodes[0]. *)
MasterOf == <<0, 3, 0, 1>>

(***************************************************************************)
(* A slave never shares its host with the master it replicates, and no     *)
(* address is given out twice, over create, append and recover (chunk.go   *)
(* links halves of different hosts, links2Chunks and mapHostResIntoDist    *)
(* take fresh ports), as long as no host makes two offers at a time.       *)
(***************************************************************************)
ReplicaElsewhere ==
  HostTwice \/
  /\ \A i \in DOMAIN chunks : \A k \in {2, 4} :
       chunks[i][k][1] # chunks[i][MasterOf[k]][1]
  /\ Cardinality(Deployed) = 4 * Len(chunks) + Len(dist)

(***************************************************************************)
(* findMinHrs compares with the capacity of another host, so a host may    *)
(* get more than it offers.  That happens to the host with the smallest    *)
(* offer alone, and only when an even share of all the units is more than  *)
(* that offer; links2Chunks then panics if the ports are short too.        *)
(***************************************************************************)
FillFits ==
  call.op \in {"create", "append"} /\ phase \in {"fill", "pair", "panic"} /\ ~HostTwice =>
    /\ \A i \in DOMAIN new :
         \/ new[i] <= CountOf(offers[i])
         \/ i = 1 /\ Total(new) + Total(Recovered(offers))
                      > Len(offers) * CountOf(offers[1])
    /\ phase = "panic" => new[1] > Len(offers[1].ports)

(***************************************************************************)
(* The pairing loop ends unless one host was given more than half of the   *)
(* new units: checkDist looks at old and new units together, so an append  *)
(* can put all the new ones on one fresh host and then loop for ever.      *)
(***************************************************************************)
Lopsided == \E i \in DOMAIN new : 2 * new[i] > Total(new)
PairingEnds ==
  (phase = "pair" /\ call.op # "recover" /\ ~HostTwice /\ ~Lopsided)
    ~> (phase # "pair")

(***************************************************************************)
(* The ranges divideSlots hands out cover every slot exactly once, and a   *)
(* master goes without only if the job adds so many masters that the extra *)
(* slot of each range uses up the last share, or if the cluster has more   *)
(* masters than the job's Number (a scale divides by the added ones).      *)
(***************************************************************************)
SlotsDivided ==
  ranges # <<>> /\ phase = "idle" /\ err = "" /\ call.op \in {"create", "append"} =>
    /\ \A s \in 0..(Slots - 1) :
         Cardinality({k \in DOMAIN ranges : ranges[k][1] <= s /\ s <= ranges[k][2]}) = 1
    /\ (\E k \in DOMAIN ranges : ranges[k][1] > ranges[k][2]) =>
         Len(ranges) > call.num \/ call.num > Slots \div call.num
=============================================================================
