--------------------------- MODULE ForwarderProofs ---------------------------
(***************************************************************************)
(* The theorems about Forwarder: reloads close the pipes that are no       *)
(* longer used and no others, and a node is ejected only after as many     *)
(* consecutive failures as the limit says.                                 *)
(***************************************************************************)
EXTENDS Forwarder, TLAPS, SequenceTheorems

-----------------------------------------------------------------------------
(* The inductive invariant.                                                *)

Confs == UNION {s.configs : s \in Setups}
Names == UNION {DOMAIN conf : conf \in Confs}

Pinger == [failure : 0..PingFailLimit, del : BOOLEAN, recent : [1..PingFailLimit -> BOOLEAN]]

Conns == [servers : Confs, pipe : UNION {[S -> Pipes] : S \in SUBSET Addrs},
          ring : SUBSET Names, cancelled : BOOLEAN,
          ping : UNION {[S -> Pinger] : S \in SUBSET Names}]

\* Every generation has a pipe for each of its addresses and for no other, made
\* by itself or by an earlier one.
ConnsInv ==
  /\ setup \in Setups /\ cur \in 1..MaxGens
  /\ gens \in Seq(Conns) /\ Len(gens) = cur
  /\ \A g \in 1..cur :
       /\ DOMAIN gens[g].pipe = Range(gens[g].servers)
       /\ gens[g].ring \subseteq DOMAIN gens[g].servers
       /\ DOMAIN gens[g].ping \subseteq DOMAIN gens[g].servers
       /\ \A a \in DOMAIN gens[g].pipe :
            gens[g].pipe[a][1] = a /\ gens[g].pipe[a][2] \in 1..g

\* the pipes of generation g that generation f does not use are all in S
Released(g, f, S) == Range(gens[g].pipe) \ Range(gens[f].pipe) \subseteq S

\* What an update has closed, has still to close, and must not touch.
UpdateInv ==
  /\ updater \in {"idle", "cancel", "ping", "close"}
  /\ updater # "idle" => cur > 1
  /\ updater = "close" =>
       /\ unused \subseteq Range(gens[cur - 1].pipe) \ Range(gens[cur].pipe)
       /\ \A g \in 1..cur : Released(g, cur, closed \cup unused)
  /\ updater \in {"cancel", "ping"} => \A g \in 1..(cur - 1) : Released(g, cur - 1, closed)
  /\ updater = "idle" => \A g \in 1..cur : Released(g, cur, closed)

\* Until the proxy is closed, what is closed was made before and is not in use.
OpenInv ==
  state = "open" =>
    /\ closer = "idle" /\ closing = {}
    /\ \A p \in closed : p[2] \in 1..cur
    /\ Range(gens[cur].pipe) \cap closed = {}

HandlerRec == [pc : {"idle", "load", "push"}, gen : 0..MaxGens,
               got : {"-", "sent", "refused", "nonode"}]

\* A handler works on a generation that existed when it looked, and is refused
\* only by an earlier one.
Fits(r) ==
  /\ r.gen <= cur
  /\ r.pc = "push" => r.gen >= 1
  /\ r.pc = "load" => r.got = "-"
  /\ r.got = "refused" /\ state = "open" => r.gen < cur

HandlerInv ==
  /\ handler \in [Handlers -> HandlerRec]
  /\ \A h \in Handlers : Fits(handler[h])

\* the failures that count are the last ones
Counted(p) == \A i \in 1..PingFailLimit : i > PingFailLimit - p.failure => ~p.recent[i]

\* A pinger's count is the number of failures at the end of its history.
PingInv == \A g \in 1..cur : \A n \in DOMAIN gens[g].ping : Counted(gens[g].ping[n])

IInv == ConnsInv /\ UpdateInv /\ OpenInv /\ HandlerInv

-----------------------------------------------------------------------------
(* Generations.                                                            *)

\* A configuration names nodes.
LEMMA ConfFacts ==
  ASSUME NEW conf \in Confs
  PROVE  /\ Range(conf) \in SUBSET Addrs /\ DOMAIN conf \in SUBSET Names
         /\ \A n \in DOMAIN conf : conf[n] \in Range(conf)
<1>1. PICK s \in Setups : conf \in s.configs
  BY DEF Confs
<1>2. Range(conf) \subseteq Addrs
  BY <1>1, ForwarderAssumption
<1> QED
  BY <1>2 DEF Names, Range

\* the pipes, the addresses and the generation in use stay as they are
SamePipes ==
  /\ UNCHANGED <<setup, cur>>
  /\ \A g \in 1..cur : gens'[g].pipe = gens[g].pipe /\ gens'[g].servers = gens[g].servers

\* Changing the rest of a generation leaves the pipes alone.
LEMMA ReplaceConns ==
  ASSUME ConnsInv, NEW g \in 1..cur, NEW c \in Conns,
         c.pipe = gens[g].pipe, c.servers = gens[g].servers,
         c.ring \subseteq DOMAIN c.servers, DOMAIN c.ping \subseteq DOMAIN c.servers,
         gens' = [gens EXCEPT ![g] = c], UNCHANGED <<setup, cur>>
  PROVE  ConnsInv' /\ SamePipes
<1>1. gens' \in Seq(Conns) /\ Len(gens') = cur
  BY DEF ConnsInv
<1>2. \A f \in 1..cur : gens'[f] = IF f = g THEN c ELSE gens[f]
  BY DEF ConnsInv
<1> HIDE DEF Conns
<1> QED
  BY <1>1, <1>2 DEF ConnsInv, SamePipes

\* What a step that leaves pipes, updater and closer alone cannot disturb.
LEMMA PipesFrame ==
  ASSUME ConnsInv, UpdateInv, OpenInv, SamePipes,
         UNCHANGED <<state, updater, unused, closer, closing, closed>>
  PROVE  UpdateInv' /\ OpenInv'
<1>1. cur' = cur /\ cur \in Nat /\ cur >= 1
  BY DEF SamePipes, ConnsInv
<1>2. \A g \in 1..cur : Range(gens'[g].pipe) = Range(gens[g].pipe)
  BY DEF SamePipes
<1>3. OpenInv'
  BY <1>1, <1>2 DEF OpenInv
<1>4. updater # "idle" => cur - 1 \in 1..cur
  BY <1>1 DEF UpdateInv
<1>5. UpdateInv'
  BY <1>1, <1>2, <1>4 DEF UpdateInv, Released
<1> QED
  BY <1>3, <1>5

\* What a step that leaves generations and handlers alone cannot disturb.
LEMMA HandlerFrame ==
  ASSUME HandlerInv, UNCHANGED <<setup, cur, handler>>, state' = "open" => state = "open"
  PROVE  HandlerInv'
  BY DEF HandlerInv, Fits, Handlers

\* pipes that lead to their addresses and were made by generation g or before
MadeBy(pipe, g) ==
  \A a \in DOMAIN pipe : pipe[a] \in Pipes /\ pipe[a][1] = a /\ pipe[a][2] \in 1..g

\* a generation as ConnsInv asks for
WellFormed(c, g) ==
  /\ c \in Conns
  /\ DOMAIN c.pipe = Range(c.servers)
  /\ c.ring \subseteq DOMAIN c.servers /\ DOMAIN c.ping \subseteq DOMAIN c.servers
  /\ \A a \in DOMAIN c.pipe : c.pipe[a][1] = a /\ c.pipe[a][2] \in 1..g

\* A new generation is well formed: an address has the pipe of the generation
\* before, or one of its own.
LEMMA NewConnsType ==
  ASSUME NEW old, NEW conf \in Confs, NEW g \in 1..MaxGens, MadeBy(old.pipe, g)
  PROVE  /\ WellFormed(NewConns(old, conf, g), g)
         /\ NewConns(old, conf, g).pipe = Copy(old, conf, g)
<1> DEFINE c == NewConns(old, conf, g)
<1>1. Range(conf) \in SUBSET Addrs /\ DOMAIN conf \in SUBSET Names
  BY ConfFacts
<1>2. /\ c.servers = conf /\ c.pipe = Copy(old, conf, g) /\ c.ring = DOMAIN conf
      /\ DOMAIN c.ping = {}
  BY DEF NewConns
<1>3. \A a \in Range(conf) : <<a, g>> \in Pipes
  BY <1>1 DEF Pipes
<1>4. Copy(old, conf, g) \in [Range(conf) -> Pipes]
  BY <1>3 DEF Copy, MadeBy
<1>5. << >> \in [{} -> Pinger]
  OBVIOUS
<1>6. c \in Conns
  BY <1>1, <1>4, <1>5 DEF Conns, NewConns
<1>7. \A a \in Range(conf) : Copy(old, conf, g)[a][1] = a /\ Copy(old, conf, g)[a][2] \in 1..g
  BY DEF Copy, MadeBy
<1>8. DOMAIN c.pipe = Range(c.servers)
  BY <1>2 DEF Copy
<1> HIDE DEF c
<1>9. WellFormed(c, g)
  BY <1>2, <1>6, <1>7, <1>8 DEF WellFormed
<1> QED
  BY <1>2, <1>9 DEF c

\* The pingers of a generation start with a clean count.
LEMMA StartedType ==
  ASSUME NEW conf \in Confs
  PROVE  /\ Started(conf) \in UNION {[S -> Pinger] : S \in SUBSET Names}
         /\ DOMAIN Started(conf) \subseteq DOMAIN conf
         /\ \A n \in DOMAIN Started(conf) : Started(conf)[n] = Pinger0
<1>1. Pinger0 \in Pinger
  BY ForwarderAssumption DEF Pinger0, Pinger
<1>2. << >> \in [{} -> Pinger] /\ DOMAIN << >> = {}
  OBVIOUS
<1>3. DOMAIN conf \in SUBSET Names
  BY ConfFacts
<1>4. CASE AutoEject
  BY <1>1, <1>3, <1>4 DEF Started
<1>5. CASE ~AutoEject
  BY <1>2, <1>5 DEF Started
<1> QED
  BY <1>4, <1>5

\* The first state satisfies the invariant.
LEMMA InitIInv == Init => IInv
<1> SUFFICES ASSUME Init PROVE IInv
  OBVIOUS
<1>1. PICK conf \in Configs :
        gens = <<[NewConns(NoConns, conf, 1) EXCEPT !.ping = Started(conf)]>>
  BY DEF Init
<1> DEFINE c == NewConns(NoConns, conf, cur)
<1>2. conf \in Confs /\ cur \in 1..MaxGens
  BY <1>1, ForwarderAssumption DEF Init, Configs, Confs
<1>3. MadeBy(NoConns.pipe, cur)
  BY DEF NoConns, MadeBy
<1>4. WellFormed(c, cur)
  BY <1>2, <1>3, NewConnsType
<1>5. /\ Started(conf) \in UNION {[S -> Pinger] : S \in SUBSET Names}
      /\ DOMAIN Started(conf) \subseteq DOMAIN conf /\ c.servers = conf
  BY <1>2, StartedType DEF NewConns
<1> HIDE DEF c
<1> DEFINE d == [c EXCEPT !.ping = Started(conf)]
<1>6. WellFormed(d, cur)
  <2>1. c \in Conns
    BY <1>4 DEF WellFormed
  <2>2. /\ d \in Conns /\ d.pipe = c.pipe /\ d.servers = c.servers /\ d.ring = c.ring
        /\ d.ping = Started(conf)
    BY <1>5, <2>1 DEF Conns
  <2> HIDE DEF d
  <2> QED
    BY <1>4, <1>5, <2>2 DEF WellFormed
<1>7. gens = <<d>> /\ cur = 1
  BY <1>1 DEF c, Init
<1> HIDE DEF d
<1>8. gens \in Seq(Conns) /\ Len(gens) = 1 /\ gens[1] = d
  BY <1>6, <1>7 DEF WellFormed
<1>9. ConnsInv
  BY <1>2, <1>6, <1>7, <1>8 DEF Init, ConnsInv, WellFormed
<1>10. UpdateInv /\ OpenInv
  BY <1>7 DEF Init, UpdateInv, OpenInv, Released
<1>11. HandlerInv
  BY <1>7, ForwarderAssumption DEF Init, HandlerInv, HandlerRec, Fits
<1> QED
  BY <1>9, <1>10, <1>11 DEF IInv

-----------------------------------------------------------------------------
(* Update.                                                                 *)

\* Building a generation: the pipes it takes over were open, and its own are new.
LEMMA UpdateIInv ==
  ASSUME IInv, NEW conf \in Configs, Update(conf), UNCHANGED setup
  PROVE  IInv'
<1> DEFINE c == NewConns(gens[cur], conf, cur + 1)
<1>1. conf \in Confs /\ cur \in Nat /\ cur + 1 \in 1..MaxGens /\ cur \in 1..cur
  BY ForwarderAssumption DEF IInv, ConnsInv, Update, Configs, Confs
<1>2. MadeBy(gens[cur].pipe, cur + 1)
  <2>1. gens[cur] \in Conns
    BY <1>1 DEF IInv, ConnsInv
  <2>2. gens[cur].pipe \in UNION {[S -> Pipes] : S \in SUBSET Addrs}
    BY <2>1 DEF Conns
  <2> QED
    BY <1>1, <2>2 DEF IInv, ConnsInv, MadeBy
<1>3. WellFormed(c, cur + 1) /\ c.pipe = Copy(gens[cur], conf, cur + 1)
  BY <1>1, <1>2, NewConnsType
<1>4. gens' = Append(gens, c) /\ cur' = cur + 1
  BY DEF Update
<1> HIDE DEF c
<1>5. gens' \in Seq(Conns) /\ Len(gens') = cur' /\ gens'[cur + 1] = c
  BY <1>3, <1>4 DEF IInv, ConnsInv, WellFormed
<1>6. \A g \in 1..cur : gens'[g] = gens[g]
  BY <1>3, <1>4 DEF IInv, ConnsInv, WellFormed
<1>7. ConnsInv'
  BY <1>1, <1>3, <1>4, <1>5, <1>6 DEF IInv, ConnsInv, WellFormed
<1>8. UpdateInv'
  <2>1. \A g \in 1..cur : Released(g, cur, closed)
    BY DEF IInv, UpdateInv, Update
  <2>2. updater' = "cancel" /\ closed' = closed /\ cur' > 1 /\ cur' - 1 = cur
    BY <1>1, <1>4 DEF Update
  <2>3. \A g \in 1..(cur' - 1) : Range(gens'[g].pipe) \ Range(gens'[cur' - 1].pipe) \subseteq closed'
    BY <1>1, <1>6, <2>1, <2>2 DEF Released
  <2> QED
    BY <2>2, <2>3 DEF UpdateInv, Released
<1>9. OpenInv'
  <2> SUFFICES ASSUME state = "open"
               PROVE  (\A p \in closed : p[2] \in 1..(cur + 1)) /\ Range(c.pipe) \cap closed = {}
    BY <1>4, <1>5 DEF IInv, OpenInv, Update
  <2>1. \A p \in closed : p[2] \in 1..cur
    BY DEF IInv, OpenInv
  <2>2. ASSUME NEW a \in DOMAIN c.pipe PROVE c.pipe[a] \notin closed
    <3>1. CASE a \in DOMAIN gens[cur].pipe
      BY <1>3, <2>2, <3>1 DEF IInv, OpenInv, Copy, Range
    <3>2. CASE a \notin DOMAIN gens[cur].pipe
      <4>1. c.pipe[a] = <<a, cur + 1>>
        BY <1>3, <2>2, <3>2 DEF Copy
      <4> QED
        BY <1>1, <2>1, <4>1
    <3> QED
      BY <3>1, <3>2
  <2>3. \A p \in closed : p[2] \in 1..(cur + 1)
    BY <1>1, <2>1
  <2> QED
    BY <2>2, <2>3 DEF Range
<1>10. HandlerInv'
  <2>1. ASSUME NEW r \in HandlerRec, Fits(r) PROVE Fits(r)'
    BY <1>1, <1>4, <2>1 DEF HandlerRec, Fits, Update
  <2>2. handler' = handler /\ Handlers' = Handlers
    BY DEF Update, Handlers
  <2> QED
    BY <2>1, <2>2 DEF IInv, HandlerInv, Fits
<1> QED
  BY <1>7, <1>8, <1>9, <1>10 DEF IInv

\* Cancelling a generation's context leaves its pipes alone.
LEMMA CancelConns ==
  ASSUME ConnsInv, NEW g \in 1..cur, gens' = [gens EXCEPT ![g].cancelled = TRUE],
         UNCHANGED <<setup, cur>>
  PROVE  ConnsInv' /\ SamePipes
<1> DEFINE c == [gens[g] EXCEPT !.cancelled = TRUE]
<1>1. gens[g] \in Conns
  BY DEF ConnsInv
<1>2. /\ c \in Conns /\ c.pipe = gens[g].pipe /\ c.servers = gens[g].servers /\ c.ring = gens[g].ring
      /\ c.ping = gens[g].ping
  BY <1>1 DEF Conns
<1>3. gens' = [gens EXCEPT ![g] = c]
  OBVIOUS
<1> HIDE DEF c
<1> QED
  BY <1>2, <1>3, ReplaceConns DEF ConnsInv

\* Giving a generation its pingers leaves its pipes alone.
LEMMA PingConns ==
  ASSUME ConnsInv, NEW g \in 1..cur, NEW ping \in UNION {[S -> Pinger] : S \in SUBSET Names},
         DOMAIN ping \subseteq DOMAIN gens[g].servers,
         gens' = [gens EXCEPT ![g].ping = ping], UNCHANGED <<setup, cur>>
  PROVE  ConnsInv' /\ SamePipes
<1> DEFINE c == [gens[g] EXCEPT !.ping = ping]
<1>1. gens[g] \in Conns
  BY DEF ConnsInv
<1>2. /\ c \in Conns /\ c.pipe = gens[g].pipe /\ c.servers = gens[g].servers /\ c.ring = gens[g].ring
      /\ c.ping = ping
  BY <1>1 DEF Conns
<1>3. gens' = [gens EXCEPT ![g] = c]
  OBVIOUS
<1> HIDE DEF c
<1> QED
  BY <1>2, <1>3, ReplaceConns DEF ConnsInv

\* oldConns.cancel()
LEMMA CancelOldIInv ==
  ASSUME IInv, CancelOld, UNCHANGED setup
  PROVE  IInv'
<1>1. cur - 1 \in 1..cur
  BY DEF IInv, ConnsInv, UpdateInv, CancelOld
<1>2. ConnsInv' /\ SamePipes
  BY <1>1, CancelConns DEF IInv, CancelOld
<1>3. \A g \in 1..(cur - 1) : Released(g, cur - 1, closed)
  BY DEF IInv, UpdateInv, CancelOld
<1>4. \A g \in 1..(cur - 1) : Released(g, cur - 1, closed)'
  BY <1>1, <1>2, <1>3 DEF CancelOld, SamePipes, Released, IInv, ConnsInv
<1>5. UpdateInv'
  BY <1>4 DEF IInv, UpdateInv, CancelOld
<1>6. OpenInv'
  BY <1>1, <1>2 DEF IInv, OpenInv, CancelOld, SamePipes, ConnsInv
<1>7. HandlerInv'
  BY HandlerFrame DEF IInv, CancelOld
<1> QED
  BY <1>2, <1>5, <1>6, <1>7 DEF IInv

\* newConns.startPinger(): what the new list does not use is to be closed.
LEMMA StartPingerIInv ==
  ASSUME IInv, StartPinger, UNCHANGED setup
  PROVE  IInv'
<1>1. cur \in 1..cur /\ cur - 1 \in 1..cur /\ cur \in Nat
  BY DEF IInv, ConnsInv, UpdateInv, StartPinger
<1>2. gens[cur].servers \in Confs
  <2>1. gens[cur] \in Conns
    BY <1>1 DEF IInv, ConnsInv
  <2> QED
    BY <2>1 DEF Conns
<1>3. ConnsInv' /\ SamePipes
  <2> DEFINE ping == Started(gens[cur].servers)
  <2>1. /\ ping \in UNION {[S -> Pinger] : S \in SUBSET Names}
        /\ DOMAIN ping \subseteq DOMAIN gens[cur].servers
    BY <1>2, StartedType
  <2>2. gens' = [gens EXCEPT ![cur].ping = ping] /\ UNCHANGED <<setup, cur>>
    BY DEF StartPinger
  <2> HIDE DEF ping
  <2> QED
    BY <1>1, <2>1, <2>2, PingConns DEF IInv
<1>4. \A g \in 1..cur : Range(gens'[g].pipe) = Range(gens[g].pipe)
  BY <1>3 DEF SamePipes
<1>5. unused' = Range(gens[cur - 1].pipe) \ Range(gens[cur].pipe)
  BY DEF StartPinger, Unused
<1>6. \A g \in 1..(cur - 1) : Released(g, cur - 1, closed)
  BY DEF IInv, UpdateInv, StartPinger
<1>7. \A g \in 1..cur : Range(gens[g].pipe) \ Range(gens[cur].pipe) \subseteq closed \cup unused'
  <2> TAKE g \in 1..cur
  <2>1. CASE g = cur
    BY <2>1
  <2>2. CASE g \in 1..(cur - 1)
    BY <1>5, <1>6, <2>2 DEF Released
  <2> QED
    BY <1>1, <2>1, <2>2
<1>8. updater' = "close" /\ cur' = cur /\ closed' = closed /\ cur > 1
  BY DEF StartPinger, IInv, UpdateInv
<1>9. UpdateInv'
  <2>1. \A g \in 1..cur : Released(g, cur, closed \cup unused)'
    BY <1>1, <1>4, <1>7, <1>8 DEF Released
  <2>2. unused' \subseteq Range(gens'[cur - 1].pipe) \ Range(gens'[cur].pipe)
    BY <1>1, <1>4, <1>5
  <2> QED
    BY <1>8, <2>1, <2>2 DEF UpdateInv
<1>10. OpenInv'
  BY <1>1, <1>4 DEF IInv, OpenInv, StartPinger
<1>11. HandlerInv'
  BY HandlerFrame DEF IInv, StartPinger
<1> QED
  BY <1>3, <1>9, <1>10, <1>11 DEF IInv

\* The loop that closes what is unused closes no pipe of the new generation.
LEMMA CloseUnusedIInv ==
  ASSUME IInv, NEW p \in unused, CloseUnused(p), UNCHANGED setup
  PROVE  IInv'
<1>1. cur \in 1..cur /\ cur - 1 \in 1..cur
  BY DEF IInv, ConnsInv, UpdateInv, CloseUnused
<1>2. /\ closed' = closed \cup {p} /\ unused' = unused \ {p}
      /\ UNCHANGED <<state, gens, cur, updater, closer, closing, handler, up>> /\ updater = "close"
  BY DEF CloseUnused, ClosePipe
<1>3. ConnsInv'
  BY <1>2 DEF IInv, ConnsInv
<1>4. UpdateInv'
  BY <1>2 DEF IInv, UpdateInv, Released
<1>5. p \notin Range(gens[cur].pipe) /\ p[2] \in 1..cur
  <2>1. p \in Range(gens[cur - 1].pipe) \ Range(gens[cur].pipe)
    BY <1>2 DEF IInv, UpdateInv
  <2>2. PICK a \in DOMAIN gens[cur - 1].pipe : p = gens[cur - 1].pipe[a]
    BY <2>1 DEF Range
  <2>3. p[2] \in 1..(cur - 1)
    BY <1>1, <2>2 DEF IInv, ConnsInv
  <2> QED
    BY <1>1, <2>1, <2>3 DEF IInv, ConnsInv
<1>6. OpenInv'
  BY <1>2, <1>5 DEF IInv, OpenInv
<1>7. HandlerInv'
  BY <1>2, HandlerFrame DEF IInv
<1> QED
  BY <1>3, <1>4, <1>6, <1>7 DEF IInv

\* The end of an update.
LEMMA UpdatedIInv ==
  ASSUME IInv, Updated, UNCHANGED setup
  PROVE  IInv'
<1>1. ConnsInv' /\ OpenInv' /\ HandlerInv'
  BY HandlerFrame DEF IInv, ConnsInv, OpenInv, Updated
<1>2. UpdateInv'
  BY DEF IInv, UpdateInv, Updated, Released
<1> QED
  BY <1>1, <1>2 DEF IInv

-----------------------------------------------------------------------------
(* Close, Forward and the pingers.                                         *)

\* The compare-and-swap: from here on nothing is promised of the pipes in use.
LEMMA CloseStateIInv ==
  ASSUME IInv, CloseState, UNCHANGED setup
  PROVE  IInv'
<1>1. ConnsInv' /\ OpenInv' /\ HandlerInv'
  BY HandlerFrame DEF IInv, ConnsInv, OpenInv, CloseState
<1>2. UpdateInv'
  BY DEF IInv, UpdateInv, CloseState, Released
<1> QED
  BY <1>1, <1>2 DEF IInv

\* Close loads the connections: the state is closed already.
LEMMA CloseConnsIInv ==
  ASSUME IInv, CloseConns, UNCHANGED setup
  PROVE  IInv'
<1>1. cur \in 1..cur /\ cur \in Nat
  BY DEF IInv, ConnsInv
<1>2. ConnsInv' /\ SamePipes
  BY <1>1, CancelConns DEF IInv, CloseConns
<1>3. state' # "open" /\ state' = state
  BY DEF IInv, OpenInv, CloseConns
<1>4. \A g \in 1..cur : Range(gens'[g].pipe) = Range(gens[g].pipe)
  BY <1>2 DEF SamePipes
<1>5. updater # "idle" => cur - 1 \in 1..cur
  BY <1>1 DEF IInv, UpdateInv
<1>6. UpdateInv'
  BY <1>1, <1>4, <1>5 DEF IInv, UpdateInv, CloseConns, Released
<1>7. OpenInv' /\ HandlerInv'
  BY <1>3, HandlerFrame DEF IInv, OpenInv, CloseConns
<1> QED
  BY <1>2, <1>6, <1>7 DEF IInv

\* go np.Close()
LEMMA CloseOneIInv ==
  ASSUME IInv, NEW p \in closing, CloseOne(p), UNCHANGED setup
  PROVE  IInv'
<1>1. /\ closed' = closed \cup {p}
      /\ UNCHANGED <<state, gens, cur, updater, unused, closer, handler, up>>
  BY DEF CloseOne, ClosePipe
<1>2. state # "open"
  BY DEF IInv, OpenInv
<1>3. ConnsInv' /\ OpenInv' /\ HandlerInv'
  BY <1>1, <1>2, HandlerFrame DEF IInv, ConnsInv, OpenInv
<1>4. UpdateInv'
  BY <1>1 DEF IInv, UpdateInv, Released
<1> QED
  BY <1>3, <1>4 DEF IInv

\* A step of one handler.
LEMMA HandlerSteps ==
  ASSUME IInv, NEW h \in Handlers, NEW r \in HandlerRec, Fits(r),
         handler' = [handler EXCEPT ![h] = r],
         UNCHANGED <<setup, state, gens, cur, updater, unused, closer, closing, closed>>
  PROVE  IInv'
<1>1. ConnsInv' /\ UpdateInv' /\ OpenInv'
  BY DEF IInv, ConnsInv, UpdateInv, OpenInv, Released
<1>2. Handlers' = Handlers
  BY DEF Handlers
<1>3. HandlerInv'
  BY <1>2 DEF IInv, HandlerInv, Fits
<1> QED
  BY <1>1, <1>3 DEF IInv

\* A handler that loads the connections in use finds their pipes open.
LEMMA HandlerIInv ==
  ASSUME IInv, NEW h \in Handlers, Enter(h) \/ Load(h) \/ Route(h) \/ Return(h), UNCHANGED setup
  PROVE  IInv'
<1>1. UNCHANGED <<setup, state, gens, cur, updater, unused, closer, closing, closed>>
  BY DEF Enter, Load, Route, Return
<1> SUFFICES \E r \in HandlerRec : Fits(r) /\ handler' = [handler EXCEPT ![h] = r]
  BY <1>1, HandlerSteps
<1>2. cur \in Nat /\ cur >= 1 /\ cur \in 0..MaxGens
  BY ForwarderAssumption DEF IInv, ConnsInv
<1>3. handler[h] \in HandlerRec /\ handler \in [Handlers -> HandlerRec] /\ Fits(handler[h])
  BY DEF IInv, HandlerInv
<1>4. CASE Enter(h)
  <2> DEFINE r == [pc |-> "load", gen |-> 0, got |-> "-"]
  <2>1. handler' = [handler EXCEPT ![h] = r]
    BY <1>4 DEF Enter
  <2>2. r \in HandlerRec /\ Fits(r)
    BY <1>2, ForwarderAssumption DEF HandlerRec, Fits
  <2> QED
    BY <2>1, <2>2
<1>5. CASE Load(h)
  <2> DEFINE r == [handler[h] EXCEPT !.pc = "push", !.gen = cur]
  <2>1. handler' = [handler EXCEPT ![h] = r]
    BY <1>5 DEF Load
  <2>2. handler[h].got = "-"
    BY <1>3, <1>5 DEF Load, Fits
  <2>3. r \in HandlerRec /\ r.pc = "push" /\ r.gen = cur /\ r.got = "-"
    BY <1>2, <1>3, <2>2 DEF HandlerRec
  <2> HIDE DEF r
  <2>4. Fits(r)
    BY <1>2, <2>3 DEF Fits
  <2> QED
    BY <2>1, <2>3, <2>4
<1>6. CASE Return(h)
  <2> DEFINE r == [handler[h] EXCEPT !.pc = "idle"]
  <2>1. handler' = [handler EXCEPT ![h] = r]
    BY <1>6 DEF Return
  <2>2. r \in HandlerRec /\ r.pc = "idle" /\ r.gen = handler[h].gen /\ r.got = handler[h].got
    BY <1>3 DEF HandlerRec
  <2> HIDE DEF r
  <2>3. Fits(r)
    BY <1>3, <2>2 DEF Fits
  <2> QED
    BY <2>1, <2>2, <2>3
<1>7. CASE Route(h)
  <2> DEFINE g == handler[h].gen
  <2> DEFINE conns == gens[g]
  <2>1. g \in 1..cur /\ handler[h].pc = "push"
    <3>1. handler[h].pc = "push"
      BY <1>7 DEF Route
    <3>2. g \in Nat
      BY <1>3, ForwarderAssumption DEF HandlerRec
    <3> QED
      BY <1>2, <1>3, <3>1, <3>2 DEF Fits
  <2>2. CASE handler' = [handler EXCEPT ![h].pc = "idle", ![h].got = "nonode"]
    <3> DEFINE r == [handler[h] EXCEPT !.pc = "idle", !.got = "nonode"]
    <3>1. handler' = [handler EXCEPT ![h] = r]
      BY <1>3, <2>2
    <3>2. r \in HandlerRec /\ r.pc = "idle" /\ r.gen = g /\ r.got = "nonode"
      BY <1>3 DEF HandlerRec
    <3> HIDE DEF r
    <3>3. Fits(r)
      BY <1>2, <2>1, <3>2 DEF Fits
    <3> QED
      BY <3>1, <3>2, <3>3
  <2>3. ASSUME NEW n \in conns.ring,
               handler' = [handler EXCEPT ![h].got =
                 IF conns.pipe[conns.servers[n]] \in closed THEN "refused" ELSE "sent"]
        PROVE  \E r \in HandlerRec : Fits(r) /\ handler' = [handler EXCEPT ![h] = r]
    <3> DEFINE got == IF conns.pipe[conns.servers[n]] \in closed THEN "refused" ELSE "sent"
    <3> DEFINE r == [handler[h] EXCEPT !.got = got]
    <3>1. handler' = [handler EXCEPT ![h] = r]
      BY <2>3
    <3>2. got \in {"refused", "sent"}
      OBVIOUS
    <3>3. ASSUME got = "refused", state = "open" PROVE g < cur
      <4>1. conns.servers[n] \in DOMAIN conns.pipe
        BY <2>1, <2>3 DEF IInv, ConnsInv, Range
      <4>2. conns.pipe[conns.servers[n]] \in Range(conns.pipe) \cap closed
        BY <3>3, <4>1 DEF Range
      <4>3. g # cur
        BY <3>3, <4>2 DEF IInv, OpenInv
      <4> QED
        BY <1>2, <2>1, <4>3
    <3> HIDE DEF got
    <3>4. r \in HandlerRec /\ r.pc = "push" /\ r.gen = g /\ r.got = got
      BY <1>3, <2>1, <3>2 DEF HandlerRec
    <3> HIDE DEF r
    <3>5. Fits(r)
      BY <1>2, <2>1, <3>3, <3>4 DEF Fits
    <3> QED
      BY <3>1, <3>4, <3>5
  <2> QED
    BY <1>7, <2>2, <2>3 DEF Route
<1> QED
  BY <1>4, <1>5, <1>6, <1>7

\* The smaller of two numbers.
LEMMA MinPair ==
  ASSUME NEW m \in Int, NEW n \in Int
  PROVE  Min({m, n}) = IF m <= n THEN m ELSE n
<1>1. CASE m <= n
  <2>1. m \in {m, n} /\ \A y \in {m, n} : m <= y
    BY <1>1
  <2>2. \A x \in {m, n} : (\A y \in {m, n} : x <= y) => x = m
    BY <1>1
  <2> QED
    BY <1>1, <2>1, <2>2 DEF Min
<1>2. CASE ~(m <= n)
  <2>1. n \in {m, n} /\ \A y \in {m, n} : n <= y
    BY <1>2
  <2>2. \A x \in {m, n} : (\A y \in {m, n} : x <= y) => x = n
    BY <1>2
  <2> QED
    BY <1>2, <2>1, <2>2 DEF Min
<1> QED
  BY <1>1, <1>2

\* A window over the last results moves on by one.
LEMMA WindowMoves ==
  ASSUME NEW T, NEW L \in Nat, L >= 1, NEW w \in [1..L -> T], NEW x \in T
  PROVE  /\ Append(Tail(w), x) \in [1..L -> T]
         /\ \A i \in 1..L : Append(Tail(w), x)[i] = IF i = L THEN x ELSE w[i + 1]
<1>1. w \in Seq(T) /\ Len(w) = L
  BY SeqDef
<1> DEFINE r == Append(Tail(w), x)
<1>2. /\ r \in Seq(T) /\ Len(r) = L
      /\ \A i \in 1..L : r[i] = IF i = L THEN x ELSE w[i + 1]
  BY <1>1
<1> HIDE DEF r
<1>3. r \in [1..L -> T]
  BY <1>2
<1> QED
  BY <1>2, <1>3 DEF r

\* One turn of processPing keeps the count right.
LEMMA PingCounts ==
  ASSUME NEW p \in Pinger, NEW ok \in BOOLEAN, Counted(p)
  PROVE  LET q == IF ok THEN Pong(p) ELSE Miss(p) IN
         /\ Seen(q, ok) \in Pinger /\ Counted(Seen(q, ok))
         /\ Seen(q, ok).failure = q.failure
         /\ q.failure >= PingFailLimit => ~ok
<1> DEFINE L == PingFailLimit
           q == IF ok THEN Pong(p) ELSE Miss(p)
           n == IF p.failure + 1 <= L THEN p.failure + 1 ELSE L
           s == Seen(q, ok)
<1>1. L \in Nat /\ L >= 1 /\ p.failure \in 0..L /\ p.del \in BOOLEAN /\ p.recent \in [1..L -> BOOLEAN]
  BY ForwarderAssumption DEF Pinger
<1>2. Min({p.failure + 1, L}) = n
  BY <1>1, MinPair
<1>3. /\ q \in Pinger /\ q.recent = p.recent
      /\ ok => q.failure = 0
      /\ ~ok => q.failure = n
  <2>1. CASE ok
    <3> DEFINE del == FALSE
    <3>1. q = [p EXCEPT !.failure = 0, !.del = del] /\ del \in BOOLEAN
      BY <2>1 DEF Pong
    <3>2. 0 \in 0..L
      BY <1>1
    <3> HIDE DEF q, n, del
    <3>3. q \in Pinger
      BY <1>1, <3>1, <3>2 DEF Pinger
    <3>4. q.failure = 0 /\ q.recent = p.recent
      BY <3>1 DEF Pinger
    <3> QED
      BY <2>1, <3>3, <3>4
  <2>2. CASE ~ok
    <3> DEFINE del == p.del \/ n >= L
    <3>1. del \in BOOLEAN /\ n \in 0..L
      BY <1>1
    <3>2. q = [p EXCEPT !.failure = n, !.del = del]
      BY <1>2, <2>2 DEF Miss
    <3> HIDE DEF q, n, del
    <3> QED
      BY <1>1, <2>2, <3>1, <3>2 DEF Pinger
  <2> QED
    BY <2>1, <2>2
<1> HIDE DEF q
<1> DEFINE r == Append(Tail(p.recent), ok)
<1>5. /\ r \in [1..L -> BOOLEAN]
      /\ \A i \in 1..L : r[i] = IF i = L THEN ok ELSE p.recent[i + 1]
  BY <1>1, WindowMoves
<1> HIDE DEF r
<1>7. s = [q EXCEPT !.recent = r]
  BY <1>3 DEF Seen, r
<1>8. s \in Pinger /\ s.failure = q.failure /\ s.recent = r
  BY <1>3, <1>5, <1>7 DEF Pinger
<1> HIDE DEF s
<1>9. Counted(s)
  <2> SUFFICES ASSUME NEW i \in 1..L, i > L - q.failure PROVE ~r[i]
    BY <1>8 DEF Counted
  <2>1. ~ok /\ q.failure = n
    BY <1>1, <1>3
  <2>2. CASE i = L
    BY <1>5, <2>1, <2>2
  <2>3. CASE i < L
    <3>1. i + 1 \in 1..L /\ i + 1 > L - p.failure
      BY <1>1, <2>1, <2>3
    <3> QED
      BY <1>5, <2>3, <3>1 DEF Counted
  <2> QED
    BY <1>1, <2>2, <2>3
<1>10. q.failure >= L => ~ok
  BY <1>1, <1>3
<1> QED
  BY <1>8, <1>9, <1>10 DEF q, s

\* What one turn of processPing does to its generation.
LEMMA PingEffect ==
  ASSUME IInv, PingInv, NEW g \in 1..cur, NEW n \in DOMAIN gens[g].ping, Ping(g, n),
         UNCHANGED setup
  PROVE  /\ ConnsInv' /\ SamePipes /\ PingInv'
         /\ \A f \in 1..cur \ {g} : gens'[f] = gens[f]
         /\ n \in DOMAIN gens'[g].ping /\ gens'[g].ping[n].failure \in 0..PingFailLimit
         /\ gens[g].ring \ gens'[g].ring # {} =>
              /\ gens[g].ring \ gens'[g].ring \subseteq {n}
              /\ gens'[g].ping[n].failure >= PingFailLimit
<1> DEFINE p == gens[g].ping[n]
           ok == gens[g].servers[n] \in up
           q == IF ok THEN Pong(p) ELSE Miss(p)
           s == Seen(q, ok)
           ring == IF ok /\ p.del THEN AddNode(gens[g].ring, n)
                   ELSE IF q.failure >= PingFailLimit /\ ~p.del THEN DelNode(gens[g].ring, n)
                   ELSE gens[g].ring
           ping == [gens[g].ping EXCEPT ![n] = s]
           c == [gens[g] EXCEPT !.ping = ping, !.ring = ring]
<1>1. gens[g] \in Conns /\ cur' = cur /\ gens \in Seq(Conns) /\ Len(gens) = cur
  BY DEF IInv, ConnsInv, Ping
<1>2. gens' = [gens EXCEPT ![g] = c]
  BY <1>1 DEF Ping, Conns
<1>3. PICK S \in SUBSET Names : gens[g].ping \in [S -> Pinger]
  BY <1>1 DEF Conns
<1>4. p \in Pinger /\ Counted(p) /\ ok \in BOOLEAN
  BY <1>3 DEF PingInv, Counted
<1>5. /\ s \in Pinger /\ Counted(s) /\ s.failure = q.failure
      /\ q.failure >= PingFailLimit => ~ok
  BY <1>4, PingCounts
<1> HIDE DEF s
<1>6. ping \in [S -> Pinger] /\ DOMAIN ping = DOMAIN gens[g].ping
  BY <1>3, <1>5
<1>7. ping[n] = s /\ \A m \in DOMAIN ping \ {n} : ping[m] = gens[g].ping[m]
  BY <1>3
<1> HIDE DEF ping
<1>8. n \in DOMAIN gens[g].servers /\ gens[g].ring \subseteq DOMAIN gens[g].servers
      /\ DOMAIN gens[g].servers \subseteq Names /\ DOMAIN gens[g].ping \subseteq DOMAIN gens[g].servers
  <2>1. gens[g].servers \in Confs
    BY <1>1 DEF Conns
  <2> QED
    BY <2>1, ConfFacts DEF IInv, ConnsInv
<1>9. /\ ring \subseteq DOMAIN gens[g].servers
      /\ gens[g].ring \ ring # {} =>
           gens[g].ring \ ring \subseteq {n} /\ q.failure >= PingFailLimit
  BY <1>8 DEF AddNode, DelNode
<1> HIDE DEF ring, q
<1>10. /\ c \in Conns /\ c.pipe = gens[g].pipe /\ c.servers = gens[g].servers
       /\ c.ring = ring /\ c.ping = ping
  <2>1. ping \in UNION {[T -> Pinger] : T \in SUBSET Names} /\ ring \in SUBSET Names
    BY <1>6, <1>8, <1>9
  <2> QED
    BY <1>1, <2>1 DEF Conns
<1> HIDE DEF c
<1>11. ConnsInv' /\ SamePipes
  BY <1>1, <1>2, <1>6, <1>8, <1>9, <1>10, ReplaceConns DEF IInv
<1>12. gens'[g] = c /\ \A f \in 1..cur \ {g} : gens'[f] = gens[f]
  BY <1>1, <1>2
<1>13. PingInv'
  <2> SUFFICES ASSUME NEW f \in 1..cur, NEW m \in DOMAIN gens'[f].ping
               PROVE  Counted(gens'[f].ping[m])
    BY <1>1 DEF PingInv, Counted
  <2>1. CASE f # g
    BY <1>12, <2>1 DEF PingInv, Counted
  <2>2. CASE f = g /\ m = n
    BY <1>5, <1>7, <1>10, <1>12, <2>2
  <2>3. CASE f = g /\ m # n
    BY <1>6, <1>7, <1>10, <1>12, <2>3 DEF PingInv, Counted
  <2> QED
    BY <2>1, <2>2, <2>3
<1>14. s.failure \in 0..PingFailLimit /\ n \in DOMAIN ping
  BY <1>5, <1>6 DEF Pinger
<1> QED
  BY <1>5, <1>7, <1>9, <1>10, <1>11, <1>12, <1>13, <1>14

\* A pinger that ends takes nothing with it.
LEMMA PingerStopsEffect ==
  ASSUME IInv, PingInv, NEW g \in 1..cur, NEW n \in DOMAIN gens[g].ping, PingerStops(g, n),
         UNCHANGED setup
  PROVE  /\ ConnsInv' /\ SamePipes /\ PingInv'
         /\ \A f \in 1..cur : gens'[f].ring = gens[f].ring
<1> DEFINE old == gens[g].ping
           ping == Restrict(old, DOMAIN old \ {n})
<1>1. gens[g] \in Conns /\ cur' = cur /\ gens \in Seq(Conns) /\ Len(gens) = cur
  BY DEF IInv, ConnsInv, PingerStops
<1>2. PICK S \in SUBSET Names : old \in [S -> Pinger]
  BY <1>1 DEF Conns
<1>3. /\ ping \in [S \ {n} -> Pinger] /\ DOMAIN ping = DOMAIN old \ {n}
      /\ \A m \in DOMAIN ping : ping[m] = old[m]
  BY <1>2 DEF Restrict
<1>4. ping \in UNION {[T -> Pinger] : T \in SUBSET Names}
  BY <1>3
<1>5. gens' = [gens EXCEPT ![g].ping = ping]
  BY DEF PingerStops
<1> HIDE DEF ping
<1>6. DOMAIN ping \subseteq DOMAIN gens[g].servers
  BY <1>3 DEF IInv, ConnsInv
<1>7. ConnsInv' /\ SamePipes
  BY <1>1, <1>4, <1>5, <1>6, PingConns DEF IInv
<1>8. \A f \in 1..cur :
        /\ gens'[f].ring = gens[f].ring
        /\ gens'[f].ping = IF f = g THEN ping ELSE gens[f].ping
  BY <1>1, <1>5 DEF Conns
<1>9. PingInv'
  <2> SUFFICES ASSUME NEW f \in 1..cur, NEW m \in DOMAIN gens'[f].ping
               PROVE  Counted(gens'[f].ping[m])
    BY <1>1 DEF PingInv, Counted
  <2>1. m \in DOMAIN gens[f].ping /\ gens'[f].ping[m] = gens[f].ping[m]
    BY <1>3, <1>8
  <2> QED
    BY <2>1 DEF PingInv, Counted
<1> QED
  BY <1>7, <1>8, <1>9

\* The other steps that touch a generation.
LEMMA PingFrame ==
  ASSUME IInv, PingInv, UNCHANGED setup,
         \/ \E conf \in Configs : Update(conf)
         \/ CancelOld \/ StartPinger \/ CloseConns
  PROVE  /\ PingInv'
         /\ \A g \in 1..cur : gens'[g].ring = gens[g].ring
<1>1. /\ cur \in Nat /\ cur >= 1 /\ gens \in Seq(Conns) /\ Len(gens) = cur
      /\ \A g \in 1..cur : gens[g] \in Conns
  BY DEF IInv, ConnsInv
<1>2. ASSUME NEW conf \in Configs, Update(conf)
      PROVE  PingInv' /\ \A g \in 1..cur : gens'[g].ring = gens[g].ring
  <2> DEFINE c == NewConns(gens[cur], conf, cur + 1)
  <2>1. cur' = cur + 1 /\ gens' = Append(gens, c)
    BY <1>2 DEF Update
  <2>2. DOMAIN c.ping = {}
    BY DEF NewConns
  <2> HIDE DEF c
  <2>3. gens'[cur + 1] = c /\ \A g \in 1..cur : gens'[g] = gens[g]
    BY <1>1, <2>1
  <2> QED
    BY <1>1, <2>1, <2>2, <2>3 DEF PingInv, Counted
<1>3. ASSUME NEW h \in 1..cur, gens' = [gens EXCEPT ![h].cancelled = TRUE], cur' = cur
      PROVE  PingInv' /\ \A g \in 1..cur : gens'[g].ring = gens[g].ring
  <2>1. \A g \in 1..cur : gens'[g].ring = gens[g].ring /\ gens'[g].ping = gens[g].ping
    BY <1>1, <1>3 DEF Conns
  <2> QED
    BY <1>3, <2>1 DEF PingInv, Counted
<1>4. CASE CancelOld
  <2>1. cur - 1 \in 1..cur
    BY <1>1, <1>4 DEF CancelOld, IInv, UpdateInv
  <2> QED
    BY <1>3, <1>4, <2>1 DEF CancelOld
<1>5. CASE CloseConns
  <2>1. cur \in 1..cur
    BY <1>1
  <2> QED
    BY <1>3, <1>5, <2>1 DEF CloseConns
<1>6. CASE StartPinger
  <2> DEFINE ping == Started(gens[cur].servers)
  <2>1. gens[cur].servers \in Confs
    BY <1>1 DEF Conns
  <2>2. \A n \in DOMAIN ping : ping[n].failure = 0
    BY <2>1, StartedType DEF Pinger0
  <2>3. cur' = cur /\ gens' = [gens EXCEPT ![cur].ping = ping]
    BY <1>6 DEF StartPinger
  <2> HIDE DEF ping
  <2>4. \A g \in 1..cur :
          /\ gens'[g].ring = gens[g].ring
          /\ gens'[g].ping = IF g = cur THEN ping ELSE gens[g].ping
    BY <1>1, <2>3 DEF Conns
  <2>5. ASSUME NEW g \in 1..cur, NEW n \in DOMAIN gens'[g].ping
        PROVE  Counted(gens'[g].ping[n])
    <3>1. CASE g = cur
      <4>1. gens'[g].ping[n].failure = 0
        BY <2>2, <2>4, <2>5, <3>1
      <4> QED
        BY <4>1, ForwarderAssumption DEF Counted
    <3>2. CASE g # cur
      BY <2>4, <2>5, <3>2 DEF PingInv, Counted
    <3> QED
      BY <3>1, <3>2
  <2> QED
    BY <2>3, <2>4, <2>5 DEF PingInv, Counted
<1> QED
  BY <1>2, <1>4, <1>5, <1>6

-----------------------------------------------------------------------------
(* The theorems.                                                           *)

\* Every step preserves the invariants, and a name leaves a ring only after
\* enough failures in a row.
LEMMA NextStep ==
  ASSUME IInv, PingInv, [Next]_vars
  PROVE  /\ IInv' /\ PingInv'
         /\ \A g \in 1..cur : \A n \in gens[g].ring \ gens'[g].ring :
              \A i \in 1..PingFailLimit : ~gens'[g].ping[n].recent[i]
<1>1. ASSUME gens' = gens, cur' = cur
      PROVE  /\ PingInv'
             /\ \A g \in 1..cur : gens'[g].ring = gens[g].ring
  BY <1>1 DEF PingInv, Counted
<1>2. CASE UNCHANGED vars
  <2>1. IInv'
    BY <1>2, HandlerFrame
    DEF IInv, vars, ConnsInv, UpdateInv, OpenInv, Released
  <2> QED
    BY <1>1, <1>2, <2>1 DEF vars
<1> SUFFICES ASSUME Next
             PROVE  /\ IInv' /\ PingInv'
                    /\ \A g \in 1..cur : \A n \in gens[g].ring \ gens'[g].ring :
                         \A i \in 1..PingFailLimit : ~gens'[g].ping[n].recent[i]
  BY <1>2
<1>3. UNCHANGED setup
  BY DEF Next
<1>4. CASE \/ \E conf \in Configs : Update(conf)
           \/ CancelOld \/ StartPinger \/ CloseConns
  <2>1. IInv'
    BY <1>3, <1>4, UpdateIInv, CancelOldIInv, StartPingerIInv, CloseConnsIInv
  <2> QED
    BY <1>3, <1>4, <2>1, PingFrame
<1>5. CASE \/ (\E p \in unused : CloseUnused(p)) \/ Updated
           \/ CloseState \/ (\E p \in closing : CloseOne(p))
  <2>1. IInv'
    BY <1>3, <1>5, CloseUnusedIInv, UpdatedIInv, CloseStateIInv, CloseOneIInv
  <2>2. gens' = gens /\ cur' = cur
    BY <1>5 DEF CloseUnused, Updated, CloseState, CloseOne
  <2> QED
    BY <1>1, <2>1, <2>2
<1>6. CASE \E h \in Handlers : Enter(h) \/ Load(h) \/ Route(h) \/ Return(h)
  <2>1. IInv'
    BY <1>3, <1>6, HandlerIInv
  <2>2. gens' = gens /\ cur' = cur
    BY <1>6 DEF Enter, Load, Route, Return
  <2> QED
    BY <1>1, <2>1, <2>2
<1>7. CASE \E a \in UNION {Range(conf) : conf \in Configs} : NodeChanges(a)
  <2>1. UNCHANGED <<setup, state, gens, cur, updater, unused, closer, closing, closed, handler>>
    BY <1>3, <1>7 DEF NodeChanges
  <2>2. IInv'
    BY <2>1, HandlerFrame DEF IInv, ConnsInv, UpdateInv, OpenInv, Released
  <2> QED
    BY <1>1, <2>1, <2>2
<1>8. ASSUME NEW g \in 1..cur, NEW n \in DOMAIN gens[g].ping, Ping(g, n)
      PROVE  /\ IInv' /\ PingInv'
             /\ \A f \in 1..cur : \A m \in gens[f].ring \ gens'[f].ring :
                  \A i \in 1..PingFailLimit : ~gens'[f].ping[m].recent[i]
  <2>1. /\ ConnsInv' /\ SamePipes /\ PingInv'
        /\ \A f \in 1..cur \ {g} : gens'[f] = gens[f]
        /\ n \in DOMAIN gens'[g].ping /\ gens'[g].ping[n].failure \in 0..PingFailLimit
        /\ gens[g].ring \ gens'[g].ring # {} =>
             /\ gens[g].ring \ gens'[g].ring \subseteq {n}
             /\ gens'[g].ping[n].failure >= PingFailLimit
    BY <1>3, <1>8, PingEffect
  <2>2. UNCHANGED <<state, cur, updater, unused, closer, closing, closed, handler>>
    BY <1>8 DEF Ping
  <2>3. IInv'
    BY <1>3, <2>1, <2>2, PipesFrame, HandlerFrame DEF IInv
  <2>4. ASSUME NEW f \in 1..cur, NEW m \in gens[f].ring \ gens'[f].ring, NEW i \in 1..PingFailLimit
        PROVE  ~gens'[f].ping[m].recent[i]
    <3>1. f = g /\ m = n /\ gens'[g].ping[n].failure >= PingFailLimit
      BY <2>1, <2>4
    <3>2. i > PingFailLimit - gens'[g].ping[n].failure
      BY <2>1, <3>1, ForwarderAssumption
    <3> QED
      BY <2>1, <2>2, <3>1, <3>2 DEF PingInv, Counted
  <2> QED
    BY <2>1, <2>3, <2>4
<1>9. ASSUME NEW g \in 1..cur, NEW n \in DOMAIN gens[g].ping, PingerStops(g, n)
      PROVE  /\ IInv' /\ PingInv'
             /\ \A f \in 1..cur : gens'[f].ring = gens[f].ring
  <2>1. /\ ConnsInv' /\ SamePipes /\ PingInv'
        /\ \A f \in 1..cur : gens'[f].ring = gens[f].ring
    BY <1>3, <1>9, PingerStopsEffect
  <2>2. UNCHANGED <<state, cur, updater, unused, closer, closing, closed, handler>>
    BY <1>9 DEF PingerStops
  <2>3. IInv'
    BY <1>3, <2>1, <2>2, PipesFrame, HandlerFrame DEF IInv
  <2> QED
    BY <2>1, <2>3
<1> QED
  BY <1>4, <1>5, <1>6, <1>7, <1>8, <1>9 DEF Next, UpdateStep, Pinging

\* The pingers of the first generation start with a clean count.
LEMMA InitPing == Init => PingInv
<1> SUFFICES ASSUME Init PROVE PingInv
  OBVIOUS
<1>1. PICK conf \in Configs :
        gens = <<[NewConns(NoConns, conf, 1) EXCEPT !.ping = Started(conf)]>>
  BY DEF Init
<1>2. conf \in Confs
  BY <1>1 DEF Init, Configs, Confs
<1>3. gens[1].ping = Started(conf) /\ cur = 1
  BY <1>1 DEF NewConns, Init
<1>4. \A n \in DOMAIN gens[1].ping : gens[1].ping[n].failure = 0
  BY <1>2, <1>3, StartedType DEF Pinger0
<1> QED
  BY <1>3, <1>4, ForwarderAssumption DEF PingInv, Counted

\* The invariants hold in every reachable state of the forwarder.
THEOREM ForwarderInvariance == Spec => [](IInv /\ PingInv)
<1>1. Init => IInv /\ PingInv
  BY InitIInv, InitPing
<1>2. IInv /\ PingInv /\ [Next]_vars => (IInv /\ PingInv)'
  BY NextStep
<1> QED
  BY <1>1, <1>2, PTL DEF Spec

\* Across any number of reloads, beside handlers, pingers and Close, the pipes of
\* the connections in use are open and lead to their addresses, and a finished
\* reload has closed all the others.
THEOREM ReloadsMatchPipes == Spec => []PipesMatchConfig
<1>1. IInv => PipesMatchConfig
  <2> SUFFICES ASSUME IInv PROVE PipesMatchConfig
    OBVIOUS
  <2>1. \A g \in 1..cur : \A a \in DOMAIN gens[g].pipe : gens[g].pipe[a][1] = a
    BY DEF IInv, ConnsInv
  <2> QED
    BY <2>1 DEF IInv, UpdateInv, OpenInv, Released, PipesMatchConfig
<1> QED
  BY <1>1, ForwarderInvariance, PTL

\* While the proxy is open, a pipe refuses a request only of a handler that a
\* reload overtook.
THEOREM NeverRefusedInUse == Spec => []RefusedOnlyWhenOvertaken
<1>1. IInv => RefusedOnlyWhenOvertaken
  BY DEF IInv, HandlerInv, Fits, RefusedOnlyWhenOvertaken
<1> QED
  BY <1>1, ForwarderInvariance, PTL

\* processPing takes a name off the ring only when the last PingFailLimit pings
\* of its node have all failed.
THEOREM EjectionNeedsFailures == Spec => EjectedAfterLimit
<1>1. IInv /\ PingInv /\ [Next]_vars =>
        [\A g \in 1..cur : \A n \in gens[g].ring \ gens'[g].ring :
           \A i \in 1..PingFailLimit : ~gens'[g].ping[n].recent[i]]_vars
  BY NextStep
<1> QED
  BY <1>1, ForwarderInvariance, PTL DEF Spec, EjectedAfterLimit

=============================================================================
