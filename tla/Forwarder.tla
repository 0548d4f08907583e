------------------------------ MODULE Forwarder ------------------------------
(***************************************************************************)
(* The default forwarder (proxy/forwarder.go): a generation of connections *)
(* (server names, a pipe per address, a hash ring) that Forward reads      *)
(* without a lock, that a configuration reload replaces, that Close shuts  *)
(* down, and whose ring the pingers change while requests are routed.      *)
(*                                                                         *)
(* A configuration maps the names on the ring (the aliases, or the         *)
(* addresses themselves) to addresses, no two names to the same address.   *)
(* Which name a key hashes to is left open: any name on the ring.          *)
(***************************************************************************)
EXTENDS Integers, Sequences, Functions, FiniteSetsExt

CONSTANTS
  Addrs,          \* addresses of cache nodes
  Setups,         \* the proxies: [configs, handlers, ejects, closes, reloads]
  MaxGens,        \* bound: generations
  PingFailLimit   \* cc.PingFailLimit

ASSUME ForwarderAssumption ==
  /\ \A s \in Setups : \A conf \in s.configs : IsInjective(conf) /\ Range(conf) \subseteq Addrs
  /\ \A s \in Setups : s.reloads \in Nat /\ s.reloads < MaxGens
  /\ MaxGens \in Nat \ {0} /\ PingFailLimit \in Nat \ {0}

VARIABLES
  setup,    \* the proxy that runs
  state,    \* f.state
  gens,     \* every connections value made: [servers, pipe, ring, cancelled, ping]
  cur,      \* f.conns: the generation Forward loads
  updater,  \* the reload goroutine's place in Update
  unused,   \* the pipes Update still has to close
  closer,   \* Proxy.Close's place in defaultForwarder.Close
  closing,  \* the pipes whose go np.Close() has not run yet
  closed,   \* the pipes that are closed
  handler,  \* each handler in Forward: [pc, gen, got]
  up,       \* the addresses that answer a ping
  crashed   \* whether a pipe was closed twice, which panics

vars == <<setup, state, gens, cur, updater, unused, closer, closing, closed, handler, up,
          crashed>>

Configs == setup.configs     \* the server lists a reload may bring
Handlers == setup.handlers   \* handler goroutines
AutoEject == setup.ejects    \* cc.PingAutoEject
MayClose == setup.closes     \* whether Proxy.Close is called

\* a pipe is named by its address and the generation that made it
Pipes == Addrs \X (1..MaxGens)

TypeOK ==
  /\ setup \in Setups
  /\ state \in {"open", "closed"}
  /\ cur \in 1..MaxGens /\ cur = Len(gens)
  /\ \A g \in 1..cur :
       /\ gens[g].servers \in Configs
       /\ gens[g].pipe \in [Range(gens[g].servers) -> Pipes]
       /\ gens[g].ring \subseteq DOMAIN gens[g].servers
       /\ gens[g].cancelled \in BOOLEAN
       /\ DOMAIN gens[g].ping \subseteq DOMAIN gens[g].servers
       /\ \A n \in DOMAIN gens[g].ping :
            gens[g].ping[n].failure \in 0..PingFailLimit
  /\ updater \in {"idle", "cancel", "ping", "close"}
  /\ closer \in {"idle", "close", "done"}
  /\ unused \subseteq Pipes /\ closing \subseteq Pipes /\ closed \subseteq Pipes
  /\ handler \in [Handlers -> [pc : {"idle", "load", "push"}, gen : 0..MaxGens,
                               got : {"-", "sent", "refused", "nonode"}]]
  /\ up \subseteq Addrs /\ crashed \in BOOLEAN

-----------------------------------------------------------------------------
(* connections *)

\* recent: the results of the last PingFailLimit pings, oldest first
Pinger0 == [failure |-> 0, del |-> FALSE,
            recent |-> [i \in 1..PingFailLimit |-> TRUE]]

\* startPinger: one goroutine for every server
Started(servers) == IF AutoEject THEN [n \in DOMAIN servers |-> Pinger0] ELSE << >>

\* variant: pipes are looked up by name instead of by address
CopyByName(old, conf, g) ==
  [a \in Range(conf) |->
     IF \E n \in DOMAIN conf \cap DOMAIN old.servers : conf[n] = a
     THEN old.pipe[old.servers[CHOOSE n \in DOMAIN conf : conf[n] = a]] ELSE <<a, g>>]

\* connections.init: the pipe of an address that stays is taken over
Copy(old, conf, g) ==
  [a \in Range(conf) |-> IF a \in DOMAIN old.pipe THEN old.pipe[a] ELSE <<a, g>>]

NewConns(old, conf, g) ==
  [servers |-> conf, pipe |-> Copy(old, conf, g), ring |-> DOMAIN conf,
   cancelled |-> FALSE, ping |-> << >>]

NoConns == [pipe |-> << >>, servers |-> << >>]

Init ==
  /\ setup \in Setups
  /\ state = "open"
  /\ \E conf \in Configs :
       gens = <<[NewConns(NoConns, conf, 1) EXCEPT !.ping = Started(conf)]>>
  /\ cur = 1
  /\ updater = "idle" /\ unused = {}
  /\ closer = "idle" /\ closing = {} /\ closed = {}
  /\ handler = [h \in Handlers |-> [pc |-> "idle", gen |-> 0, got |-> "-"]]
  /\ up = Addrs
  /\ crashed = FALSE

-----------------------------------------------------------------------------
(* Update, called by the goroutine that watches the configuration file *)

\* parseChanged: the sorted server lists differ
Changed(conf) == conf # gens[cur].servers

\* build the new generation beside the old one and store it
Update(conf) ==
  /\ updater = "idle" /\ cur <= setup.reloads /\ Changed(conf)
  /\ gens' = Append(gens, NewConns(gens[cur], conf, cur + 1))
  /\ cur' = cur + 1
  /\ updater' = "cancel"
  /\ UNCHANGED <<state, unused, closer, closing, closed, handler, up, crashed>>

\* variant: the context of the new generation is cancelled
CancelNew ==
  /\ updater = "cancel"
  /\ gens' = [gens EXCEPT ![cur].cancelled = TRUE]
  /\ updater' = "ping"
  /\ UNCHANGED <<state, cur, unused, closer, closing, closed, handler, up, crashed>>

\* oldConns.cancel()
CancelOld ==
  /\ updater = "cancel"
  /\ gens' = [gens EXCEPT ![cur - 1].cancelled = TRUE]
  /\ updater' = "ping"
  /\ UNCHANGED <<state, cur, unused, closer, closing, closed, handler, up, crashed>>

\* variant: the pipes that were taken over are closed as well
AllOld == Range(gens[cur - 1].pipe)

Unused == Range(gens[cur - 1].pipe) \ Range(gens[cur].pipe)

\* newConns.startPinger(), and the start of the loop that closes what is unused
StartPinger ==
  /\ updater = "ping"
  /\ gens' = [gens EXCEPT ![cur].ping = Started(gens[cur].servers)]
  /\ unused' = Unused
  /\ updater' = "close"
  /\ UNCHANGED <<state, cur, closer, closing, closed, handler, up, crashed>>

\* NodeConnPipe.Close closes its error channel first: a second call panics
ClosePipe(p) ==
  /\ crashed' = (p \in closed)
  /\ closed' = closed \cup {p}

CloseUnused(p) ==
  /\ updater = "close"
  /\ ClosePipe(p)
  /\ unused' = unused \ {p}
  /\ UNCHANGED <<state, gens, cur, updater, closer, closing, handler, up>>

Updated ==
  /\ updater = "close" /\ unused = {}
  /\ updater' = "idle"
  /\ UNCHANGED <<state, gens, cur, unused, closer, closing, closed, handler, up, crashed>>

-----------------------------------------------------------------------------
(* Close *)

\* the compare-and-swap
CloseState ==
  /\ MayClose /\ closer = "idle"
  /\ state' = "closed" /\ closer' = "close"
  /\ UNCHANGED <<gens, cur, updater, unused, closing, closed, handler, up, crashed>>

\* load the connections, start a goroutine to close each pipe, cancel
CloseConns ==
  /\ closer = "close"
  /\ closing' = Range(gens[cur].pipe)
  /\ gens' = [gens EXCEPT ![cur].cancelled = TRUE]
  /\ closer' = "done"
  /\ UNCHANGED <<state, cur, updater, unused, closed, handler, up, crashed>>

CloseOne(p) ==
  /\ ClosePipe(p)
  /\ closing' = closing \ {p}
  /\ UNCHANGED <<state, gens, cur, updater, unused, closer, handler, up>>

-----------------------------------------------------------------------------
(* Forward *)

Enter(h) ==
  /\ handler[h].pc = "idle" /\ state = "open"
  /\ handler' = [handler EXCEPT ![h] = [pc |-> "load", gen |-> 0, got |-> "-"]]
  /\ UNCHANGED <<state, gens, cur, updater, unused, closer, closing, closed, up, crashed>>

Load(h) ==
  /\ handler[h].pc = "load"
  /\ handler' = [handler EXCEPT ![h].pc = "push", ![h].gen = cur]
  /\ UNCHANGED <<state, gens, cur, updater, unused, closer, closing, closed, up, crashed>>

\* getPipes and Push of one message: a closed pipe refuses it
Route(h) ==
  LET conns == gens[handler[h].gen] IN
  /\ handler[h].pc = "push"
  /\ \/ /\ conns.ring = {}
        /\ handler' = [handler EXCEPT ![h].pc = "idle", ![h].got = "nonode"]
     \/ \E n \in conns.ring :
          handler' = [handler EXCEPT ![h].got =
                        IF conns.pipe[conns.servers[n]] \in closed THEN "refused" ELSE "sent"]
  /\ UNCHANGED <<state, gens, cur, updater, unused, closer, closing, closed, up, crashed>>

\* the last message of the round
Return(h) ==
  /\ handler[h].pc = "push" /\ handler[h].got # "-"
  /\ handler' = [handler EXCEPT ![h].pc = "idle"]
  /\ UNCHANGED <<state, gens, cur, updater, unused, closer, closing, closed, up, crashed>>

-----------------------------------------------------------------------------
(* processPing: one turn of the loop.  It ends before the context is looked at   *)
(* again, and only the ring of its own generation can tell when it is cancelled. *)

\* variant: a success does not clear the count
PongKeepsCount(p) == [p EXCEPT !.del = FALSE]

Pong(p) == [p EXCEPT !.failure = 0, !.del = FALSE]

\* the count is capped: the code only compares it with the limit
Miss(p) ==
  LET n == Min({p.failure + 1, PingFailLimit}) IN
  [p EXCEPT !.failure = n, !.del = @ \/ n >= PingFailLimit]

\* a history of results, for EjectedAfterLimit
Seen(p, ok) == [p EXCEPT !.recent = Append(Tail(@), ok)]

\* the ring's lock makes each of them one step
AddNode(ring, n) == ring \cup {n}
DelNode(ring, n) == ring \ {n}

Ping(g, n) ==
  LET p == gens[g].ping[n]
      ok == gens[g].servers[n] \in up
      q == IF ok THEN Pong(p) ELSE Miss(p)
  IN /\ ~gens[g].cancelled
     /\ gens' = [gens EXCEPT
          ![g].ping[n] = Seen(q, ok),
          ![g].ring = IF ok /\ p.del THEN AddNode(@, n)
                      ELSE IF q.failure >= PingFailLimit /\ ~p.del THEN DelNode(@, n) ELSE @]
     /\ UNCHANGED <<state, cur, updater, unused, closer, closing, closed, handler, up,
                    crashed>>

\* the context is done: the goroutine returns
PingerStops(g, n) ==
  /\ gens[g].cancelled
  /\ gens' = [gens EXCEPT ![g].ping = Restrict(@, DOMAIN @ \ {n})]
  /\ UNCHANGED <<state, cur, updater, unused, closer, closing, closed, handler, up,
                 crashed>>

\* a cache node stops or starts answering
NodeChanges(a) ==
  /\ AutoEject
  /\ up' = IF a \in up THEN up \ {a} ELSE up \cup {a}
  /\ UNCHANGED <<state, gens, cur, updater, unused, closer, closing, closed, handler,
                 crashed>>

UpdateStep == CancelOld \/ StartPinger \/ (\E p \in unused : CloseUnused(p)) \/ Updated

Pinging == \E g \in 1..cur : \E n \in DOMAIN gens[g].ping : Ping(g, n) \/ PingerStops(g, n)

Next ==
  /\ ~crashed /\ UNCHANGED setup
  /\ \/ \E conf \in Configs : Update(conf)
     \/ UpdateStep
     \/ CloseState \/ CloseConns \/ (\E p \in closing : CloseOne(p))
     \/ \E h \in Handlers : Enter(h) \/ Load(h) \/ Route(h) \/ Return(h)
     \/ Pinging
     \/ \E a \in UNION {Range(conf) : conf \in Configs} : NodeChanges(a)

Spec == Init /\ [][Next]_vars

PingOf(g, n) == g <= cur /\ n \in DOMAIN gens[g].ping /\ Ping(g, n)

\* the reload goroutine and every pinger keep running
FairSpec ==
  /\ Spec
  /\ WF_vars(~crashed /\ UpdateStep /\ UNCHANGED setup)
  /\ \A g \in 1..MaxGens : \A n \in UNION {DOMAIN conf : conf \in UNION {s.configs : s \in Setups}} :
       WF_vars(~crashed /\ PingOf(g, n) /\ UNCHANGED setup)

-----------------------------------------------------------------------------
(* Properties *)

\* Across reloads, the pipe of an address leads to that address, the pipes of the
\* connections that Forward loads are open, and once a reload is over no other
\* pipe is: Update closes what the new list does not use, and only that.
PipesMatchConfig ==
  /\ \A g \in 1..cur : \A a \in DOMAIN gens[g].pipe : gens[g].pipe[a][1] = a
  /\ state = "open" =>
       /\ Range(gens[cur].pipe) \cap closed = {}
       /\ updater = "idle" =>
            \A g \in 1..cur : Range(gens[g].pipe) \ Range(gens[cur].pipe) \subseteq closed

\* A request is refused by a closed pipe only when a reload overtook the handler
\* or the proxy shuts down, never on the connections that are in use.
RefusedOnlyWhenOvertaken ==
  \A h \in Handlers :
    handler[h].got = "refused" /\ state = "open" => handler[h].gen < cur

\* A name leaves a ring only when the last PingFailLimit pings of its node have
\* all failed: the failures that count are consecutive.
EjectedAfterLimit ==
  [][\A g \in 1..cur : \A n \in gens[g].ring \ gens'[g].ring :
       \A i \in 1..PingFailLimit : ~gens'[g].ping[n].recent[i]]_vars

OnRing(a) == \A n \in DOMAIN gens[cur].servers :
               gens[cur].servers[n] = a => n \in gens[cur].ring
OffRing(a) == \A n \in DOMAIN gens[cur].servers :
                gens[cur].servers[n] = a => n \notin gens[cur].ring

\* A node that keeps answering ends up on the ring in use, and one that stays
\* silent off it, also when reloads replace the ring and the pingers meanwhile.
RingFollowsNodes ==
  \A a \in Addrs : /\ <>[](a \in up) => <>[]OnRing(a)
                   /\ <>[](a \notin up) => <>[]OffRing(a)

=============================================================================
