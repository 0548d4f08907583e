-------------------------- MODULE RedisClusterProofs --------------------------
(***************************************************************************)
(* The theorems about RedisCluster, for every set of nodes, slots, worlds  *)
(* and handlers and any number of changes of the cluster.                  *)
(***************************************************************************)
EXTENDS RedisCluster, TLAPS

-----------------------------------------------------------------------------
(* The inductive invariant.                                                *)

PipeInv ==
  /\ made \in [Addrs -> Nat]
  /\ closed \subseteq Pipes
  /\ DOMAIN table.pipe \subseteq Addrs
  /\ \A a \in DOMAIN table.pipe : \E k \in 1..made[a] : table.pipe[a] = <<a, k>>
  /\ stale \cap Range(table.pipe) = {}
  /\ fetcher # "close" => stale = {}
  /\ PipesMatchTable

\* there has been a table since the first initSlotNode stored one
Ready == fetcher = "close" \/ (booted /\ fetcher # "none")

\* the table is that of a world, although perhaps of one long gone
FromWorld ==
  \E w \in Worlds : /\ table.slot = SlotOwner(w.lines)
                    /\ DOMAIN table.pipe = Masters(w.lines)

\* Where tryFetch stands and what it has: after a first fetch that failed the
\* forwarder is closed and never has a table; a forwarder that Close closed
\* keeps its table, and fetchproc keeps replacing it.
StageInv ==
  /\ setup \in Setups /\ world \in Worlds
  /\ fetcher \in {"fetch", "install", "close", "sleep", "select", "none"}
  /\ ~booted => fetcher \in {"fetch", "install", "close"}
  /\ fetcher = "none" => state = "closed"
  /\ state = "closed" => shut \/ fetcher = "none"
  /\ fetcher = "install" => \E w \in Worlds : answer = w.lines
  /\ Ready => FromWorld
  /\ ~Ready => table = NoTable

HandlerRec ==
  [pc : {"idle", "route", "push"}, slot : Slots \cup {NoAddr},
   pipe : (Addrs \X Nat) \cup {<< >>}, got : {"-", "sent", "refused", "closed"}]

\* a handler past the check of the state finds a table
HandlerInv ==
  /\ handler \in [Handlers -> HandlerRec]
  /\ \A h \in Handlers : handler[h].pc # "idle" => Ready

IInv == PipeInv /\ StageInv /\ HandlerInv
-----------------------------------------------------------------------------
(* What keeps the parts of the invariant.                                  *)

\* The masters that a world's CLUSTER NODES lists are addresses of nodes.
LEMMA MastersAreAddrs ==
  ASSUME setup \in Setups, NEW w \in Worlds
  PROVE  Masters(w.lines) \subseteq Addrs
BY ClusterAssumption DEF Masters, Worlds

\* A pipe is an address and one of the numbers of pipes made for it.
LEMMA PipesAre ==
  ASSUME made \in [Addrs -> Nat], NEW p
  PROVE  p \in Pipes <=> \E a \in Addrs : \E k \in 1..made[a] : p = <<a, k>>
BY DEF Pipes

\* The pipes are as they were when nothing is made, stored or closed.
LEMMA PipeFrame ==
  ASSUME PipeInv, UNCHANGED <<made, closed, table, stale, crashed>>,
         fetcher' # "close" => stale = {}
  PROVE  PipeInv'
<1>1. Pipes' = Pipes /\ Range(table.pipe)' = Range(table.pipe)
  BY DEF Pipes
<1> QED
  BY <1>1 DEF PipeInv, PipesMatchTable, Open

\* Handlers are as they were while a table, once stored, stays.
LEMMA HandlerFrame ==
  ASSUME HandlerInv, UNCHANGED <<setup, handler>>, Ready => Ready'
  PROVE  HandlerInv'
BY DEF HandlerInv, HandlerRec, Handlers

\* One handler moves; it is busy only if there is a table.
LEMMA HandlerMoves ==
  ASSUME HandlerInv, UNCHANGED setup, NEW h \in Handlers, NEW r \in HandlerRec,
         r.pc # "idle" => Ready, Set(h, r), Ready => Ready'
  PROVE  HandlerInv'
<1>1. handler' \in [Handlers -> HandlerRec]
  BY DEF HandlerInv, Set
<1>2. ASSUME NEW g \in Handlers, handler'[g].pc # "idle" PROVE Ready'
  BY <1>2 DEF HandlerInv, Set
<1> QED
  BY <1>1, <1>2 DEF HandlerInv, HandlerRec, Handlers

\* The goroutines and the environment that do not touch the forwarder's state.
LEMMA OthersIInv ==
  ASSUME IInv, UNCHANGED <<setup, fwdVars, fetchVars, shut, crashed, handler>>,
         world' \in Worlds
  PROVE  IInv'
<1>1. PipeInv'
  BY PipeFrame DEF IInv, PipeInv, fwdVars, fetchVars
<1>2. StageInv' /\ Ready' = Ready
  BY DEF IInv, StageInv, Ready, FromWorld, fwdVars, fetchVars, Worlds
<1> QED
  BY <1>1, <1>2, HandlerFrame DEF IInv

-----------------------------------------------------------------------------
(* tryFetch.                                                               *)

\* NewForwarder starts without a table and without a pipe.
LEMMA InitIInv ==
  ASSUME Init PROVE IInv
<1>1. Pipes = {} /\ Range(table.pipe) = {}
  BY DEF Init, Pipes, NoTable, Range
<1>2. PipeInv
  BY <1>1 DEF Init, PipeInv, PipesMatchTable, Open, NoTable
<1>3. StageInv
  BY DEF Init, StageInv, Ready
<1>4. Idle \in HandlerRec
  BY DEF Idle, HandlerRec
<1>5. HandlerInv
  BY <1>4 DEF Init, HandlerInv, Idle
<1> QED
  BY <1>2, <1>3, <1>5 DEF IInv

\* tryFetch asks one server.
LEMMA FetchIInv ==
  ASSUME IInv, UNCHANGED setup, Fetch
  PROVE  IInv'
<1>1. /\ fetcher = "fetch" /\ fetcher' \in {"fetch", "install"}
      /\ fetcher' = "install" => answer' = world.lines
      /\ UNCHANGED <<setup, fwdVars, stale, world, handler, shut, crashed>>
  BY DEF Fetch, envVars
<1>2. PipeInv'
  BY <1>1, PipeFrame DEF IInv, PipeInv, fwdVars
<1>3. Ready' = Ready
  BY <1>1 DEF Ready, fwdVars
<1>4. StageInv'
  BY <1>1, <1>3 DEF IInv, StageInv, FromWorld, fwdVars, Worlds
<1> QED
  BY <1>1, <1>2, <1>3, <1>4, HandlerFrame DEF IInv

\* tryFetch gives up: the first time the forwarder never gets a table.
LEMMA FetchFailsIInv ==
  ASSUME IInv, UNCHANGED setup, FetchFails
  PROVE  IInv'
<1>1. PipeInv'
  BY PipeFrame DEF IInv, PipeInv, FetchFails
<1>2. /\ booted => fetcher' = "sleep" /\ state' = state
      /\ ~booted => fetcher' = "none" /\ state' = "closed"
      /\ booted' /\ fetcher = "fetch"
      /\ UNCHANGED <<setup, table, answer, world, handler, shut>>
  BY DEF FetchFails, envVars
<1>3. Ready' = Ready
  BY <1>2 DEF Ready
<1>4. FromWorld' = FromWorld
  BY <1>2 DEF FromWorld, Worlds
<1>5. StageInv'
  BY <1>2, <1>3, <1>4 DEF IInv, StageInv, Worlds
<1> QED
  BY <1>1, <1>2, <1>3, <1>5, HandlerFrame DEF IInv

\* fetchproc starts over, sleeps or waits: the forwarder's state stays.
LEMMA FetchprocIInv ==
  ASSUME IInv, UNCHANGED setup, fetcher \in {"sleep", "select"},
         fetcher' \in {"select", "fetch"},
         UNCHANGED <<fwdVars, answer, stale, envVars, handler, shut, crashed>>
  PROVE  IInv'
<1>1. PipeInv'
  BY PipeFrame DEF IInv, PipeInv, fwdVars
<1>2. Ready' = Ready
  BY DEF Ready, fwdVars, IInv, StageInv
<1>3. FromWorld' = FromWorld
  BY DEF FromWorld, Worlds, fwdVars
<1>4. StageInv'
  BY <1>2, <1>3 DEF IInv, StageInv, Worlds, fwdVars, envVars
<1> QED
  BY <1>1, <1>2, <1>4, HandlerFrame DEF IInv

\* initSlotNode returns.
LEMMA FetchDoneIInv ==
  ASSUME IInv, UNCHANGED setup, FetchDone
  PROVE  IInv'
<1>1. PipeInv'
  BY PipeFrame DEF IInv, PipeInv, FetchDone
<1>2. /\ booted' /\ fetcher = "close" /\ fetcher' \in {"sleep", "select"}
      /\ UNCHANGED <<setup, table, answer, world, handler, shut, state>>
  BY DEF FetchDone, envVars
<1>3. Ready' /\ Ready
  BY <1>2 DEF Ready
<1>4. FromWorld' = FromWorld
  BY <1>2 DEF FromWorld, Worlds
<1>5. StageInv'
  BY <1>2, <1>3, <1>4 DEF IInv, StageInv, Worlds
<1> QED
  BY <1>1, <1>2, <1>3, <1>5, HandlerFrame DEF IInv
\* initSlotNode closes a pipe that the new table does not use.
LEMMA CloseStaleIInv ==
  ASSUME IInv, UNCHANGED setup, CloseStale
  PROVE  IInv'
<1>1. PICK p \in stale : ClosePipe(p) /\ stale' = stale \ {p}
  BY DEF CloseStale
<1>2. /\ fetcher = "close" /\ closed' = closed \cup {p}
      /\ UNCHANGED <<setup, state, table, made, booted, fetcher, answer, world, handler,
                     shut>>
  BY <1>1 DEF CloseStale, ClosePipe, envVars
<1>3. Pipes' = Pipes /\ Range(table.pipe)' = Range(table.pipe)
  BY <1>2 DEF Pipes
<1>4. p \in Pipes \ closed /\ p \notin Range(table.pipe)
  BY DEF IInv, PipeInv, PipesMatchTable, Open
<1>5. crashed' = crashed
  BY <1>1, <1>4 DEF ClosePipe
<1>6. PipesMatchTable'
  BY <1>1, <1>2, <1>3, <1>4, <1>5 DEF IInv, PipeInv, PipesMatchTable, Open
<1>7. PipeInv'
  BY <1>1, <1>2, <1>3, <1>4, <1>6 DEF IInv, PipeInv
<1>8. Ready' = Ready /\ FromWorld' = FromWorld
  BY <1>2 DEF Ready, FromWorld, Worlds
<1>9. StageInv'
  BY <1>2, <1>8 DEF IInv, StageInv, Worlds
<1> QED
  BY <1>2, <1>7, <1>8, <1>9, HandlerFrame DEF IInv

\* initSlotNode makes the pipes that are missing and stores the new table: a
\* pipe that both tables have stays open, one that only the old one has is
\* left to close.
LEMMA InstallIInv ==
  ASSUME IInv, UNCHANGED setup, Install
  PROVE  IInv'
<1> DEFINE fresh == Masters(answer) \ DOMAIN table.pipe
           old == table.pipe
           new == NewTable.pipe
<1>0. PICK w \in Worlds : answer = w.lines
  BY DEF IInv, StageInv, Install
<1>1. Masters(answer) \subseteq Addrs
  BY <1>0, MastersAreAddrs DEF IInv, StageInv
<1>2. /\ fetcher = "install" /\ stale = {} /\ fetcher' = "close"
      /\ table' = NewTable /\ stale' = Range(old) \ Range(new)
      /\ made' = [a \in Addrs |-> IF a \in fresh THEN made[a] + 1 ELSE made[a]]
      /\ UNCHANGED <<setup, state, closed, booted, world, handler, shut, crashed>>
  BY DEF IInv, PipeInv, Install, Unused, Fresh, envVars
<1>3. /\ DOMAIN new = Masters(answer)
      /\ \A a \in Masters(answer) :
           new[a] = IF a \in fresh THEN <<a, made[a] + 1>> ELSE old[a]
  BY DEF NewTable, Fresh
<1>4. made \in [Addrs -> Nat] /\ made' \in [Addrs -> Nat]
  BY <1>2 DEF IInv, PipeInv
<1>5. \A a \in DOMAIN old : \E k \in 1..made[a] : old[a] = <<a, k>>
  BY DEF IInv, PipeInv
<1>6. \A a \in DOMAIN new : \E k \in 1..made'[a] : new[a] = <<a, k>>
  <2>1. SUFFICES ASSUME NEW a \in Masters(answer)
                 PROVE  \E k \in 1..made'[a] : new[a] = <<a, k>>
    BY <1>3
  <2>2. CASE a \in fresh
    <3>1. new[a] = <<a, made[a] + 1>> /\ made'[a] = made[a] + 1 /\ made[a] \in Nat
      BY <1>1, <1>2, <1>3, <1>4, <2>2
    <3> QED
      BY <3>1
  <2>3. CASE a \notin fresh
    <3>1. new[a] = old[a] /\ made'[a] = made[a] /\ a \in DOMAIN old
      BY <1>1, <1>2, <1>3, <2>3
    <3> QED
      BY <1>5, <3>1
  <2> QED
    BY <2>2, <2>3
<1>7. \A p : p \in Pipes' <=> p \in Pipes \/ \E a \in fresh : p = <<a, made[a] + 1>>
  <2>1. TAKE p
  <2>2. p \in Pipes' <=> \E a \in Addrs : \E k \in 1..made'[a] : p = <<a, k>>
    BY <1>4 DEF Pipes
  <2>3. p \in Pipes <=> \E a \in Addrs : \E k \in 1..made[a] : p = <<a, k>>
    BY <1>4, PipesAre
  <2>4. ASSUME NEW a \in Addrs
        PROVE  \A k : k \in 1..made'[a] <=> k \in 1..made[a]
                                            \/ (a \in fresh /\ k = made[a] + 1)
    BY <1>2, <1>4
  <2> QED
    BY <1>1, <2>2, <2>3, <2>4
<1>8. ASSUME NEW a \in fresh PROVE <<a, made[a] + 1>> \notin Pipes
  BY <1>1, <1>4, PipesAre
<1>9. Open = Range(old)
  BY <1>2 DEF IInv, PipeInv, PipesMatchTable
<1>10. \A p : p \in Open' <=> p \in Open \/ \E a \in fresh : p = <<a, made[a] + 1>>
  BY <1>2, <1>7, <1>8 DEF Open, IInv, PipeInv
<1>11. \A p : /\ p \in Range(old) <=> \E a \in DOMAIN old : p = old[a]
              /\ p \in Range(new) <=> \E a \in DOMAIN new : p = new[a]
  BY DEF Range
<1>12. \A p : p \in Range(new) \cup Range(old)
              <=> p \in Range(old) \/ \E a \in fresh : p = <<a, made[a] + 1>>
  <2>1. TAKE p
  <2>2. ASSUME NEW a \in fresh PROVE <<a, made[a] + 1>> \in Range(new)
    <3>1. a \in DOMAIN new /\ new[a] = <<a, made[a] + 1>>
      BY <1>3
    <3> QED
      BY <1>11, <3>1
  <2>3. ASSUME NEW a \in DOMAIN new, a \notin fresh PROVE new[a] \in Range(old)
    <3>1. new[a] = old[a] /\ a \in DOMAIN old
      BY <1>3, <2>3
    <3> QED
      BY <1>11, <3>1
  <2>4. ASSUME NEW a \in fresh PROVE new[a] = <<a, made[a] + 1>>
    BY <1>3
  <2> HIDE DEF new, old
  <2> QED
    BY <1>11, <2>2, <2>3, <2>4
<1>13. Open' = Range(new) \cup Range(old)
  BY <1>9, <1>10, <1>12
<1>14. table'.pipe = new
  BY <1>2
<1>15. Range(table'.pipe) = Range(new)
  BY <1>14
<1>16. PipesMatchTable'
  <2>1. Open' = Range(table'.pipe) \cup stale'
    BY <1>2, <1>13, <1>15
  <2>2. \A a \in DOMAIN new : new[a][1] = a
    BY <1>6
  <2>3. crashed' # "closed twice"
    BY <1>2 DEF IInv, PipeInv, PipesMatchTable
  <2> QED
    BY <1>14, <2>1, <2>2, <2>3 DEF PipesMatchTable
<1>17. PipeInv'
  <2>1. closed' \subseteq Pipes'
    BY <1>2, <1>7 DEF IInv, PipeInv
  <2>2. stale' \cap Range(table'.pipe) = {}
    BY <1>2, <1>15
  <2>3. DOMAIN table'.pipe \subseteq Addrs
    BY <1>1, <1>3, <1>14
  <2>4. \A a \in DOMAIN table'.pipe : \E k \in 1..made'[a] : table'.pipe[a] = <<a, k>>
    BY <1>6, <1>14
  <2> QED
    BY <1>2, <1>4, <1>16, <2>1, <2>2, <2>3, <2>4 DEF PipeInv
<1>18. FromWorld' /\ Ready'
  <2>1. table'.slot = SlotOwner(answer) /\ DOMAIN table'.pipe = Masters(answer)
    BY <1>2, <1>3, <1>14 DEF NewTable
  <2>2. Worlds' = Worlds
    BY DEF Worlds
  <2> QED
    BY <1>0, <1>2, <2>1, <2>2 DEF FromWorld, Ready
<1>19. StageInv'
  BY <1>2, <1>18 DEF IInv, StageInv, Worlds
<1> QED
  BY <1>2, <1>17, <1>18, <1>19, HandlerFrame DEF IInv
-----------------------------------------------------------------------------
(* Forward and Close.                                                      *)

\* Forward checks the state: unless it is closed there is a table.
LEMMA EnterIInv ==
  ASSUME IInv, UNCHANGED setup, NEW h \in Handlers, NEW s \in Slots, Enter(h, s)
  PROVE  IInv'
<1>1. PipeInv' /\ StageInv' /\ Ready' = Ready
  <2>1. UNCHANGED <<setup, fwdVars, fetchVars, world, shut, crashed>>
    BY DEF Enter, envVars
  <2>2. PipeInv'
    BY <2>1, PipeFrame DEF IInv, PipeInv, fwdVars, fetchVars
  <2> QED
    BY <2>1, <2>2 DEF IInv, StageInv, Ready, FromWorld, fwdVars, fetchVars, Worlds
<1>2. PICK r \in HandlerRec : Set(h, r) /\ (r.pc # "idle" => state # "closed" /\ booted)
  <2>1. /\ [Idle EXCEPT !.got = "closed"] \in HandlerRec
        /\ [Idle EXCEPT !.got = "closed"].pc = "idle"
        /\ [Idle EXCEPT !.pc = "route", !.slot = s] \in HandlerRec
    BY DEF Idle, HandlerRec
  <2> QED
    BY <2>1 DEF Enter
<1>3. r.pc # "idle" => Ready
  BY <1>2 DEF IInv, StageInv, Ready
<1>4. HandlerInv'
  BY <1>1, <1>2, <1>3, HandlerMoves DEF IInv
<1> QED
  BY <1>1, <1>4 DEF IInv

\* getPipe, from the table of the moment.
LEMMA RouteIInv ==
  ASSUME IInv, UNCHANGED setup, NEW h \in Handlers, Route(h)
  PROVE  IInv'
<1> DEFINE a == table.slot[handler[h].slot]
           r == [handler[h] EXCEPT !.pc = "push", !.pipe = table.pipe[a], !.got = "-"]
<1>1. /\ UNCHANGED <<setup, fwdVars, fetchVars, world, shut>>
      /\ \/ a \in DOMAIN table.pipe /\ Set(h, r) /\ UNCHANGED crashed
         \/ crashed' = "nopipe" /\ UNCHANGED handler
  BY DEF Route, envVars
<1>2. PipeInv'
  <2>1. Pipes' = Pipes /\ Range(table.pipe)' = Range(table.pipe)
    BY <1>1 DEF Pipes, fwdVars
  <2> QED
    BY <1>1, <2>1 DEF IInv, PipeInv, PipesMatchTable, Open, fwdVars, fetchVars
<1>3. StageInv' /\ Ready' = Ready
  BY <1>1 DEF IInv, StageInv, Ready, FromWorld, fwdVars, fetchVars, Worlds
<1>4. CASE a \in DOMAIN table.pipe /\ Set(h, r)
  <2>1. table.pipe[a] \in Addrs \X Nat
    <3>1. PICK k \in 1..made[a] : table.pipe[a] = <<a, k>>
      BY <1>4 DEF IInv, PipeInv
    <3>2. a \in Addrs /\ k \in Nat
      BY <1>4 DEF IInv, PipeInv
    <3> HIDE DEF a
    <3> QED
      BY <3>1, <3>2
  <2>2. r \in HandlerRec /\ Ready
    BY <2>1 DEF IInv, HandlerInv, HandlerRec, Route
  <2> HIDE DEF r
  <2>3. HandlerInv'
    BY <1>3, <1>4, <2>2, HandlerMoves DEF IInv
  <2> QED
    BY <1>2, <1>3, <2>3 DEF IInv
<1>5. CASE UNCHANGED handler
  BY <1>2, <1>3, <1>5, HandlerFrame DEF IInv
<1> QED
  BY <1>1, <1>4, <1>5

\* Push, and the handler's next message: the state is not checked again.
LEMMA PushIInv ==
  ASSUME IInv, UNCHANGED setup, NEW h \in Handlers, Push(h)
  PROVE  IInv'
<1>1. PipeInv' /\ StageInv' /\ Ready' = Ready
  <2>1. UNCHANGED <<setup, fwdVars, fetchVars, world, shut, crashed>>
    BY DEF Push, envVars
  <2>2. PipeInv'
    BY <2>1, PipeFrame DEF IInv, PipeInv, fwdVars, fetchVars
  <2> QED
    BY <2>1, <2>2 DEF IInv, StageInv, Ready, FromWorld, fwdVars, fetchVars, Worlds
<1>2. Ready
  BY DEF Push, IInv, HandlerInv
<1>3. PICK r \in HandlerRec : Set(h, r)
  <2> DEFINE q == [Idle EXCEPT !.got = IF Refuses(handler[h].pipe) THEN "refused"
                                                                   ELSE "sent"]
  <2>1. /\ q \in HandlerRec
        /\ \A s \in Slots : [q EXCEPT !.pc = "route", !.slot = s] \in HandlerRec
    BY DEF Idle, HandlerRec
  <2> QED
    BY <2>1 DEF Push
<1>4. HandlerInv'
  BY <1>1, <1>2, <1>3, HandlerMoves DEF IInv
<1> QED
  BY <1>1, <1>4 DEF IInv

\* Proxy.Close: what it closes is nothing, for it closes the pipes only when the
\* forwarder was closed before, and then there are none.
LEMMA CloseIInv ==
  ASSUME IInv, UNCHANGED setup, Close
  PROVE  IInv'
<1>1. /\ booted /\ ~shut /\ shut' /\ state' = "closed"
      /\ UNCHANGED <<setup, table, made, booted, fetcher, answer, stale, world, handler,
                     crashed>>
  BY DEF Close, fetchVars, envVars
<1>2. closed' = closed
  <2>1. CASE state = "closed"
    <3>1. table = NoTable
      BY <1>1, <2>1 DEF IInv, StageInv, Ready
    <3>2. Range(table.pipe) = {}
      BY <3>1 DEF NoTable, Range
    <3> QED
      BY <2>1, <3>2 DEF Close
  <2> QED
    BY <2>1 DEF Close
<1>3. PipeInv'
  BY <1>1, <1>2, PipeFrame DEF IInv, PipeInv
<1>4. Ready' = Ready /\ FromWorld' = FromWorld
  BY <1>1 DEF Ready, FromWorld, Worlds
<1>5. StageInv'
  BY <1>1, <1>4 DEF IInv, StageInv, Worlds
<1> QED
  BY <1>1, <1>3, <1>4, <1>5, HandlerFrame DEF IInv

-----------------------------------------------------------------------------
(* The theorems.                                                           *)

\* Every step keeps the invariant.
LEMMA NextIInv ==
  ASSUME IInv, [Next]_vars
  PROVE  IInv'
<1>1. CASE UNCHANGED vars
  <2>1. world' \in Worlds
    BY <1>1 DEF IInv, StageInv, vars, envVars
  <2> QED
    BY <1>1, <2>1, OthersIInv DEF vars
<1>2. CASE Next
  <2>1. UNCHANGED setup
    BY <1>2 DEF Next
  <2>2. CASE Fetcher
    <3>1. CASE Timer
      BY <2>1, <3>1, FetchprocIInv DEF Timer, TimerFires, Wakes
    <3>2. CASE Slept
      BY <2>1, <3>2, FetchprocIInv DEF Slept
    <3> QED
      BY <2>1, <2>2, <3>1, <3>2, FetchIInv, FetchFailsIInv, InstallIInv, CloseStaleIInv,
         FetchDoneIInv DEF Fetcher
  <2>3. CASE Moved
    BY <2>1, <2>3, FetchprocIInv DEF Moved, Wakes
  <2>4. CASE Close
    BY <2>1, <2>4, CloseIInv
  <2>5. CASE WorldChanges
    BY <2>1, <2>5, OthersIInv DEF WorldChanges
  <2>6. ASSUME NEW p \in DOMAIN event,
               PipeFails(p) \/ TakeError(p) \/ Signal(p) \/ EventEnds(p)
        PROVE  IInv'
    <3>1. CASE Signal(p)
      BY <2>1, <3>1, FetchprocIInv DEF Signal, Heard, Wakes
    <3>2. CASE PipeFails(p) \/ TakeError(p) \/ EventEnds(p)
      <4>1. UNCHANGED <<fwdVars, fetchVars, envVars, shut, crashed, handler>>
        BY <3>2 DEF PipeFails, TakeError, EventEnds
      <4>2. world' \in Worlds
        BY <4>1 DEF IInv, StageInv, envVars
      <4> QED
        BY <2>1, <4>1, <4>2, OthersIInv
    <3> QED
      BY <2>6, <3>1, <3>2
  <2>7. ASSUME NEW h \in Handlers, (\E s \in Slots : Enter(h, s)) \/ Route(h) \/ Push(h)
        PROVE  IInv'
    BY <2>1, <2>7, EnterIInv, RouteIInv, PushIInv
  <2> QED
    BY <1>2, <2>2, <2>3, <2>4, <2>5, <2>6, <2>7 DEF Next
<1> QED
  BY <1>1, <1>2

\* The slot table, its pipes, tryFetch and the handlers agree in every state.
THEOREM ClusterInvariance == Spec => []IInv
BY InitIInv, NextIInv, PTL DEF Spec

\* However often the cluster changes, initSlotNode leaves no pipe open that the
\* table lost, closes none that it has, and closes none twice; Close adds none.
THEOREM TablesMatchPipes == Spec => []PipesMatchTable
<1>1. IInv => PipesMatchTable
  BY DEF IInv, PipeInv
<1> QED
  BY <1>1, ClusterInvariance, PTL

\* getPipe finds a pipe for every slot that has a normal master throughout,
\* whichever table it loads.
THEOREM ServedRequestsRouted == Spec => []ServedSlotsRouted
<1>1. ASSUME IInv PROVE ServedSlotsRouted
  <2>1. SUFFICES ASSUME NEW h \in Handlers, handler[h].pc = "route",
                        handler[h].slot \in ServedSlots
                 PROVE  table.slot[handler[h].slot] \in DOMAIN table.pipe
    BY DEF ServedSlotsRouted
  <2>2. FromWorld
    BY <1>1, <2>1 DEF IInv, HandlerInv, StageInv
  <2> QED
    BY <2>1, <2>2 DEF FromWorld, ServedSlots
<1> QED
  BY <1>1, ClusterInvariance, PTL

=============================================================================
