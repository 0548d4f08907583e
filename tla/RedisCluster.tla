----------------------------- MODULE RedisCluster -----------------------------
(***************************************************************************)
(* The redis cluster forwarder (proxy/proto/redis/cluster/cluster.go):     *)
(* a slot table with a pipe for every master, replaced as a whole when     *)
(* fetchproc has read CLUSTER NODES from one of the servers it knows.  A   *)
(* pipe that loses its connection, a MOVED reply and a timer wake          *)
(* fetchproc.  Handlers load the table without a lock.                     *)
(*                                                                         *)
(* A world is what the redis cluster looks like from outside: the lines    *)
(* that CLUSTER NODES returns and the nodes that answer it.                *)
(***************************************************************************)
EXTENDS Integers, Sequences, Functions, FiniteSetsExt

CONSTANTS
  Addrs,        \* addresses of redis nodes
  Slots,        \* 0..slotsCount-1 in the code
  Seeds,        \* the servers of the configuration
  Setups,       \* what is looked at: [worlds, changes, handlers, closes]
  MaxChanges,   \* bound: how often the world changes
  NoAddr        \* the address of a slot without a master, "" in the code

ASSUME ClusterAssumption ==
  /\ Seeds \subseteq Addrs /\ NoAddr \notin Addrs
  /\ MaxChanges \in Nat /\ \A s \in Setups : s.changes <= MaxChanges
  /\ \A s \in Setups : \A w \in s.worlds : \A i \in DOMAIN w.lines :
       w.lines[i].addr \in Addrs

VARIABLES
  setup,    \* the setup that runs
  state,    \* c.state
  table,    \* c.slotNode: [slot, pipe], with no slots and no pipes before the first
  servers,  \* c.servers
  made,     \* how many pipes were made for each address
  closed,   \* the pipes that are closed
  errs,     \* the pipes with an error in their error channel, of capacity 1
  event,    \* for each pipe made, where its pipeEvent goroutine is
  senders,  \* those that wait to send on c.action, in the order they came
  fetcher,  \* where the goroutine is that runs tryFetch
  untried,  \* the servers tryFetch has not asked yet
  answer,   \* the lines it got
  stale,    \* the pipes initSlotNode still has to close
  booted,   \* whether NewForwarder has returned
  handler,  \* each handler in Forward: [pc, slot, pipe, got]
  shut,     \* whether Proxy.Close has run
  crashed,  \* "no", or why the process panicked
  world, changes

fwdVars == <<state, table, servers, made, closed, booted>>
fetchVars == <<fetcher, untried, answer, stale>>
eventVars == <<errs, event, senders>>
envVars == <<world, changes>>
vars == <<setup, fwdVars, fetchVars, eventVars, envVars, handler, shut, crashed>>

Worlds == setup.worlds       \* the worlds: [lines, up]
Handlers == setup.handlers   \* handler goroutines
MayClose == setup.closes     \* whether Proxy.Close is called

-----------------------------------------------------------------------------
(* slot.go: from the lines of CLUSTER NODES to masters and slots.          *)

\* parseSlotField: a slot that is MIGRATING away counts, one that is
\* IMPORTING does not
FieldSlots(f) ==
  CASE f.kind = "range" -> f.first..f.last
    [] f.kind = "migrating" -> {f.first}
    [] OTHER -> {}

LineSlots(line) == UNION {FieldSlots(f) : f \in line.fields}

\* setFlags
IsMaster(line) == "master" \in line.flags

IsNormal(line) ==
  line.flags \subseteq {"master", "slave", "myself"} /\ line.link = "connected"

\* slots[slot] = node.addr for every master in turn: the last line wins.  The
\* slots of the slaves are computed too, but nothing reads them.
SlotOwner(lines) ==
  [s \in Slots |->
     LET of == {i \in DOMAIN lines : IsMaster(lines[i]) /\ s \in LineSlots(lines[i])}
     IN IF of = {} THEN NoAddr ELSE lines[Max(of)].addr]

\* getMasters
Masters(lines) ==
  {lines[i].addr : i \in {j \in DOMAIN lines : IsMaster(lines[j]) /\ IsNormal(lines[j])}}

-----------------------------------------------------------------------------
Pipes == UNION {{<<a, k>> : k \in 1..made[a]} : a \in Addrs}
Open == Pipes \ closed

NoTable == [slot |-> << >>, pipe |-> << >>]

TypeOK ==
  /\ state \in {"opening", "closed"}
  /\ table = NoTable \/ /\ table.slot \in [Slots -> Addrs \cup {NoAddr}]
                        /\ IsInjective(table.pipe)
                        /\ \A a \in DOMAIN table.pipe : table.pipe[a] \in Pipes
  /\ servers \subseteq Addrs /\ untried \subseteq servers
  /\ made \in [Addrs -> 0..(MaxChanges + 1)]
  /\ closed \subseteq Pipes /\ errs \subseteq Pipes /\ stale \subseteq Open
  /\ event \in [Pipes -> {"wait", "send", "gone"}]
  /\ fetcher \in {"fetch", "install", "close", "sleep", "select", "none"}
  /\ booted \in BOOLEAN /\ shut \in BOOLEAN
  /\ \A h \in Handlers :
       /\ handler[h].pc \in {"idle", "route", "push"}
       /\ handler[h].pc = "push" => handler[h].pipe \in Pipes
       /\ handler[h].got \in {"-", "sent", "refused", "closed"}
  /\ crashed \in {"no", "nopipe", "closed twice"}
  /\ world \in Worlds /\ changes \in 0..MaxChanges

Idle == [pc |-> "idle", slot |-> NoAddr, pipe |-> << >>, got |-> "-"]

\* NewForwarder is about to call tryFetch
Init ==
  /\ setup \in Setups
  /\ state = "opening" /\ table = NoTable /\ servers = Seeds
  /\ made = [a \in Addrs |-> 0] /\ closed = {} /\ booted = FALSE
  /\ errs = {} /\ event = << >> /\ senders = << >>
  /\ fetcher = "fetch" /\ untried = Seeds /\ answer = << >> /\ stale = {}
  /\ handler = [h \in Handlers |-> Idle]
  /\ shut = FALSE /\ crashed = "no"
  /\ world \in Worlds /\ changes = 0

-----------------------------------------------------------------------------
(* tryFetch and initSlotNode, first in NewForwarder, then in fetchproc.    *)

\* the servers are asked in any order until one answers
Fetch ==
  /\ fetcher = "fetch"
  /\ \E s \in untried :
       IF s \in world.up
         THEN /\ answer' = world.lines /\ untried' = {} /\ fetcher' = "install"
         ELSE /\ untried' = untried \ {s} /\ UNCHANGED <<answer, fetcher>>
  /\ UNCHANGED <<fwdVars, stale, eventVars, envVars, handler, shut, crashed>>

\* none did: NewForwarder closes the forwarder and starts no fetchproc
FetchFails ==
  /\ fetcher = "fetch" /\ untried = {}
  /\ state' = IF booted THEN state ELSE "closed"
  /\ fetcher' = IF booted THEN "sleep" ELSE "none"
  /\ booted' = TRUE
  /\ UNCHANGED <<table, servers, made, closed, untried, answer, stale, eventVars,
                 envVars, handler, shut, crashed>>

\* the masters that have no pipe yet
Fresh(masters) == masters \ DOMAIN table.pipe

\* variant: only the new pipes are put in the table
FreshOnly ==
  LET fresh == Fresh(Masters(answer)) IN
  [slot |-> SlotOwner(answer), pipe |-> [a \in fresh |-> <<a, made[a] + 1>>]]

NewTable ==
  LET masters == Masters(answer) IN
  [slot |-> SlotOwner(answer),
   pipe |-> [a \in masters |-> IF a \in Fresh(masters) THEN <<a, made[a] + 1>>
                                                       ELSE table.pipe[a]]]

\* the old pipes that are left over; variant: all of them
OldPipes(new) == Range(table.pipe)

Unused(new) == Range(table.pipe) \ Range(new.pipe)

\* initSlotNode up to slotNode.Store
Install ==
  /\ fetcher = "install"
  /\ table' = NewTable
  /\ stale' = Unused(NewTable)
  /\ LET fresh == Fresh(Masters(answer)) IN
     /\ made' = [a \in Addrs |-> IF a \in fresh THEN made[a] + 1 ELSE made[a]]
     /\ event' = [p \in DOMAIN event \cup {<<a, made[a] + 1>> : a \in fresh} |->
                    IF p \in DOMAIN event THEN event[p] ELSE "wait"]
  /\ servers' = Masters(answer)
  /\ answer' = << >>
  /\ fetcher' = "close"
  /\ UNCHANGED <<state, closed, booted, untried, errs, senders, envVars, handler, shut,
                 crashed>>

\* NodeConnPipe.Close: closing a closed channel panics
ClosePipe(p) ==
  /\ crashed' = IF p \in closed THEN "closed twice" ELSE crashed
  /\ closed' = closed \cup {p}

CloseStale ==
  /\ fetcher = "close"
  /\ \E p \in stale : ClosePipe(p) /\ stale' = stale \ {p}
  /\ UNCHANGED <<state, table, servers, made, booted, fetcher, untried, answer,
                 eventVars, envVars, handler, shut>>

\* initSlotNode returns: NewForwarder starts fetchproc, fetchproc sleeps
FetchDone ==
  /\ fetcher = "close" /\ stale = {}
  /\ fetcher' = IF booted THEN "sleep" ELSE "select"
  /\ booted' = TRUE
  /\ UNCHANGED <<state, table, servers, made, closed, untried, answer, stale,
                 eventVars, envVars, handler, shut, crashed>>

Wakes == fetcher' = "fetch" /\ untried' = servers /\ UNCHANGED <<answer, stale>>

\* the second of sleep is over
Slept ==
  /\ fetcher = "sleep" /\ fetcher' = "select"
  /\ UNCHANGED <<fwdVars, untried, answer, stale, eventVars, envVars, handler, shut,
                 crashed>>

\* time.After(30 * time.Minute); variant: there is no timer
NoTimer == FALSE

TimerFires == fetcher = "select"

Timer ==
  /\ TimerFires /\ Wakes
  /\ UNCHANGED <<fwdVars, eventVars, envVars, handler, shut, crashed>>

\* nodeConn.Read got MOVED: a send that is dropped unless fetchproc waits
Moved ==
  /\ fetcher = "select" /\ table.slot # SlotOwner(world.lines) /\ Wakes
  /\ UNCHANGED <<fwdVars, eventVars, envVars, handler, shut, crashed>>

-----------------------------------------------------------------------------
(* pipeEvent: one goroutine for every pipe made.                           *)

\* reNewNc reports on the pipe's error channel without blocking
PipeFails(p) ==
  /\ p \in Open /\ errs' = errs \cup {p}
  /\ UNCHANGED <<fwdVars, fetchVars, event, senders, envVars, handler, shut, crashed>>

\* a buffered error is received also after the channel is closed
TakeError(p) ==
  /\ event[p] = "wait" /\ p \in errs
  /\ errs' = errs \ {p}
  /\ event' = [event EXCEPT ![p] = "send"] /\ senders' = Append(senders, p)
  /\ UNCHANGED <<fwdVars, fetchVars, envVars, handler, shut, crashed>>

\* fetchproc receives from the action channel; variant: each table has an
\* action channel of its own
HeardIfCurrent(p) == fetcher = "select" /\ p \in Range(table.pipe)

Heard(p) == fetcher = "select"

\* c.action <- struct{}{}, unbuffered: the sender that came first is served
Signal(p) ==
  /\ senders # << >> /\ p = Head(senders) /\ Heard(p) /\ Wakes
  /\ event' = [event EXCEPT ![p] = "wait"] /\ senders' = Tail(senders)
  /\ UNCHANGED <<fwdVars, errs, envVars, handler, shut, crashed>>

EventEnds(p) ==
  /\ event[p] = "wait" /\ p \in closed \ errs
  /\ event' = [event EXCEPT ![p] = "gone"]
  /\ UNCHANGED <<fwdVars, fetchVars, errs, senders, envVars, handler, shut, crashed>>

-----------------------------------------------------------------------------
(* Forward and Close.                                                      *)

Set(h, r) == handler' = [handler EXCEPT ![h] = r]

Enter(h, s) ==
  /\ booted /\ handler[h].pc = "idle"
  /\ IF state = "closed" THEN Set(h, [Idle EXCEPT !.got = "closed"])
                         ELSE Set(h, [Idle EXCEPT !.pc = "route", !.slot = s])
  /\ UNCHANGED <<fwdVars, fetchVars, eventVars, envVars, shut, crashed>>

\* getPipe: an address without a pipe gives a nil pipe, and Push on it panics
Route(h) ==
  /\ handler[h].pc = "route"
  /\ LET a == table.slot[handler[h].slot] IN
     IF a \in DOMAIN table.pipe
       THEN /\ Set(h, [handler[h] EXCEPT !.pc = "push", !.pipe = table.pipe[a],
                                              !.got = "-"])
            /\ UNCHANGED crashed
       ELSE crashed' = "nopipe" /\ UNCHANGED handler
  /\ UNCHANGED <<fwdVars, fetchVars, eventVars, envVars, shut>>

\* Push finds no open input
Refuses(p) == p \in closed

\* Push takes the message or marks it failed; then the next message, or return
Push(h) ==
  /\ handler[h].pc = "push"
  /\ LET r == [Idle EXCEPT !.got = IF Refuses(handler[h].pipe) THEN "refused"
                                                                ELSE "sent"]
     IN \/ Set(h, r)
        \/ \E s \in Slots : Set(h, [r EXCEPT !.pc = "route", !.slot = s])
  /\ UNCHANGED <<fwdVars, fetchVars, eventVars, envVars, shut, crashed>>

\* cluster.Close, called by Proxy.Close: only a call that finds the forwarder
\* closed closes the pipes, and then there is no table
Close ==
  /\ MayClose /\ booted /\ ~shut
  /\ shut' = TRUE /\ state' = "closed"
  /\ closed' = IF state = "closed" THEN closed \cup Range(table.pipe) ELSE closed
  /\ UNCHANGED <<table, servers, made, booted, fetchVars, eventVars, envVars, handler,
                 crashed>>

\* the redis cluster fails over, reshards, loses and regains nodes
WorldChanges ==
  /\ changes < setup.changes /\ changes' = changes + 1
  /\ world' \in Worlds \ {world}
  /\ UNCHANGED <<fwdVars, fetchVars, eventVars, handler, shut, crashed>>

-----------------------------------------------------------------------------
Fetcher == Fetch \/ FetchFails \/ Install \/ CloseStale \/ FetchDone \/ Slept \/ Timer

Next ==
  /\ crashed = "no" /\ UNCHANGED setup
  /\ \/ Fetcher \/ Moved \/ Close \/ WorldChanges
     \/ \E p \in DOMAIN event : PipeFails(p) \/ TakeError(p) \/ Signal(p) \/ EventEnds(p)
     \/ \E h \in Handlers : (\E s \in Slots : Enter(h, s)) \/ Route(h) \/ Push(h)

Spec == Init /\ [][Next]_vars

\* goroutines run and dials and reads have deadlines; fetchproc's select does
\* not pass over a sender for ever
Fairness ==
  /\ WF_vars(crashed = "no" /\ Fetcher /\ UNCHANGED setup)
  /\ SF_vars(crashed = "no" /\ (\E p \in DOMAIN event : Signal(p)) /\ UNCHANGED setup)

FairSpec == Spec /\ Fairness

-----------------------------------------------------------------------------
(* Properties.                                                             *)

\* Through every sequence of failovers and fetches the open pipes are those of
\* the table and those initSlotNode is about to close: none leaks, none in use
\* is closed, and each address has one pipe.
PipesMatchTable ==
  /\ Open = Range(table.pipe) \cup stale
  /\ \A a \in DOMAIN table.pipe : table.pipe[a][1] = a
  /\ crashed # "closed twice"

\* the slots that have a normal master in every world
ServedSlots ==
  {s \in Slots : \A w \in Worlds : SlotOwner(w.lines)[s] \in Masters(w.lines)}

\* A request for a slot that never loses its master finds a pipe, however the
\* table is replaced between the check of the state and getPipe.
ServedSlotsRouted ==
  \A h \in Handlers :
    handler[h].pc = "route" /\ handler[h].slot \in ServedSlots
      => table.slot[handler[h].slot] \in DOMAIN table.pipe

\* A pipe's event goroutine that waits to wake fetchproc is heard, also when
\* fetchproc is fetching, closing that very pipe, or closed itself: the queue of
\* those that wait, served in order, is empty or served again and again.
EventsHeard ==
  []<>(senders = << >> \/ crashed # "no") \/ []<><<\E p \in DOMAIN event : Signal(p)>>_vars

\* The table follows the cluster: once the world stays as it is, the table
\* becomes the one of that world and stays so, although MOVED replies that
\* arrive while fetchproc is busy are dropped.  Only a failed first fetch, or an
\* earlier answer whose masters are all gone, stops it.
TableCatchesUp ==
  <>[](\/ crashed # "no" \/ fetcher = "none" \/ servers \cap world.up = {}
       \/ /\ table.slot = SlotOwner(world.lines)
          /\ DOMAIN table.pipe = Masters(world.lines))

=============================================================================
