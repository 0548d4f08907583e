---------------------------- MODULE RedisRedirect ----------------------------
(***************************************************************************)
(* Redirects in the redis cluster (proxy/proto/redis/cluster/node_conn.go).*)
(* A reply MOVED or ASK makes nodeConn.Read send the request again on a    *)
(* new connection to the node named in the reply, whose own Read may do    *)
(* the same, at most maxRedirects deep.                                    *)
(*                                                                         *)
(* One key and its slot are followed while the cluster moves the slot.     *)
(* The pipes' connections share nothing but the cluster, and each reads    *)
(* one message at a time, so one request at a time is enough.              *)
(*                                                                         *)
(* A new connection also starts DoAuth (see RedisNodeConn) on the writer   *)
(* and the reader that the redirected request uses: raced says that the    *)
(* two met.                                                                *)
(***************************************************************************)
EXTENDS Integers

CONSTANTS
  Nodes,         \* redis nodes
  NoNode,
  MaxRedirects,  \* maxRedirects
  MaxChanges     \* bound: changes of the cluster

ASSUME RedirectAssumption ==
  NoNode \notin Nodes /\ MaxRedirects \in Nat \ {0} /\ MaxChanges \in Nat

VARIABLES
  owner,      \* the node that owns the slot
  target,     \* the node the slot is migrating to, or NoNode
  keyMoved,   \* whether the key has been migrated already
  changes,    \* how often the cluster changed
  home,       \* the node the proxy's slot table names
  woken,      \* whether fetchproc was woken
  redirects,  \* nc.redirects of the pipe's connection to each node
  at,         \* the node where the request is, or NoNode: no request is read
  pipe,       \* the node whose pipe carries it
  asking,     \* whether ASKING was sent before it
  hop,        \* the redirects field of the innermost nodeConn
  dials,      \* connections opened for this request
  reply,      \* what the node at replied, or None
  executed,   \* how often the request has been executed by a node
  raced,      \* whether DoAuth got in the way of this request
  since,      \* changes when the request was sent
  outcome     \* how the last request ended

clusterVars == <<owner, target, keyMoved, changes>>
proxyVars == <<home, woken>>
chainVars == <<redirects, at, pipe, asking, hop, dials>>
vars == <<clusterVars, proxyVars, chainVars, reply, executed, raced, since, outcome>>

None == [kind |-> "none", to |-> NoNode]

\* the reply to another command: ASKING or AUTH
Foreign == [kind |-> "foreign", to |-> NoNode]

TypeOK ==
  /\ owner \in Nodes /\ target \in (Nodes \cup {NoNode}) \ {owner}
  /\ keyMoved \in BOOLEAN /\ (keyMoved => target # NoNode)
  /\ home \in Nodes /\ woken \in BOOLEAN
  /\ redirects \in [Nodes -> 0..MaxRedirects] /\ hop \in 0..MaxRedirects
  /\ at \in Nodes \cup {NoNode} /\ pipe \in Nodes \cup {NoNode}
  /\ asking \in BOOLEAN /\ changes \in 0..MaxChanges /\ since \in 0..MaxChanges
  /\ dials \in Nat /\ executed \in Nat
  /\ reply \in [kind : {"none", "value", "error", "moved", "ask", "foreign"}, to : Nodes \cup {NoNode}]
  /\ raced \in BOOLEAN
  /\ outcome \in {"-", "value", "error", "redirect", "foreign", "broken"}

Init ==
  /\ owner \in Nodes /\ target = NoNode /\ keyMoved = FALSE /\ changes = 0
  /\ home \in Nodes /\ woken = FALSE
  /\ redirects = [n \in Nodes |-> 0]
  /\ at = NoNode /\ pipe = NoNode /\ asking = FALSE /\ hop = 0 /\ dials = 0
  /\ reply = None /\ executed = 0 /\ raced = FALSE /\ since = 0 /\ outcome = "-"

-----------------------------------------------------------------------------
(* The redis cluster.                                                      *)

\* SETSLOT MIGRATING, MIGRATE, SETSLOT NODE, or a failover
Migrate ==
  \/ /\ target = NoNode /\ target' \in Nodes \ {owner} /\ UNCHANGED <<owner, keyMoved>>
  \/ /\ target # NoNode /\ ~keyMoved /\ keyMoved' = TRUE /\ UNCHANGED <<owner, target>>
  \/ /\ target # NoNode /\ keyMoved
     /\ owner' = target /\ target' = NoNode /\ keyMoved' = FALSE
  \/ /\ owner' \in Nodes \ {owner} /\ target' = NoNode /\ keyMoved' = FALSE

ClusterChanges ==
  /\ changes < MaxChanges /\ changes' = changes + 1
  /\ Migrate
  /\ UNCHANGED <<proxyVars, chainVars, reply, executed, raced, since, outcome>>

\* what a node replies to the request; an error is the reply of a command
\* that the node did execute
Replies(n, ask) ==
  IF n = owner
    THEN IF keyMoved THEN {[kind |-> "ask", to |-> target]}
         ELSE [kind : {"value", "error"}, to : {NoNode}]
    ELSE IF n = target /\ ask THEN [kind : {"value", "error"}, to : {NoNode}]
         ELSE {[kind |-> "moved", to |-> owner]}

\* what the Read after a redirect decodes when DoAuth keeps apart: one reply,
\* and that to ASKING comes first
FirstReply(r) == IF asking THEN Foreign ELSE r

\* When they meet, AUTH may come between ASKING and the request, which ends the
\* effect of ASKING, and each may decode the reply meant for the other.
Serve ==
  /\ at # NoNode /\ reply = None
  /\ \E race \in {FALSE, dials > 0} :
       /\ raced' = (raced \/ race)
       /\ \E ask \in {asking, asking /\ ~race} : \E r \in Replies(at, ask) :
            /\ executed' = executed + (IF r.kind \in {"value", "error"} THEN 1 ELSE 0)
            /\ reply' \in IF race THEN {r, Foreign} ELSE {FirstReply(r)}
  /\ UNCHANGED <<clusterVars, proxyVars, chainVars, since, outcome>>

-----------------------------------------------------------------------------
(* nodeConn.                                                               *)

\* the pipe of the node the table names writes the request
Write ==
  /\ at = NoNode
  /\ at' = home /\ pipe' = home /\ asking' = FALSE
  /\ hop' = redirects[home] /\ dials' = 0
  /\ executed' = 0 /\ raced' = FALSE /\ since' = changes /\ outcome' = "-"
  /\ UNCHANGED <<clusterVars, proxyVars, redirects, reply>>

\* the value of nc.redirects after Read; variant: it is not reset
NotReset == redirects[pipe]

AfterRead == 0

\* all the Reads on the chain return
Return(how) ==
  /\ outcome' = how
  /\ at' = NoNode /\ pipe' = NoNode /\ reply' = None /\ hop' = 0 /\ asking' = FALSE
  /\ redirects' = [redirects EXCEPT ![pipe] = AfterRead]
  /\ UNCHANGED dials

IsRedirect == reply.kind \in {"moved", "ask"}

AtLimit == hop >= MaxRedirects

\* nodeConn.Read of the innermost connection returns to its caller
ReadReturns ==
  /\ reply # None
  /\ ~IsRedirect \/ AtLimit
  /\ Return(IF IsRedirect THEN "redirect" ELSE reply.kind)
  /\ UNCHANGED <<clusterVars, proxyVars, executed, raced, since>>

\* tmp.redirects = nc.redirects after the increment
NextHop == hop + 1

SendsAsking == reply.kind = "ask"

\* redirectProcess; MOVED also wakes fetchproc if it waits
Redirect ==
  /\ reply # None /\ IsRedirect /\ ~AtLimit
  /\ woken' \in IF reply.kind = "moved" THEN {woken, TRUE} ELSE {woken}
  /\ redirects' = [redirects EXCEPT ![pipe] = IF dials = 0 THEN @ + 1 ELSE @]
  /\ at' = reply.to
  /\ asking' = SendsAsking
  /\ hop' = NextHop /\ dials' = dials + 1
  /\ reply' = None
  /\ UNCHANGED <<clusterVars, home, pipe, executed, raced, since, outcome>>

\* variant: the request is sent again to the pipe's own node
BreaksRetries ==
  /\ at # NoNode
  /\ at' = pipe /\ reply' = None /\ asking' = FALSE
  /\ UNCHANGED <<clusterVars, proxyVars, redirects, pipe, hop, dials, executed, raced, since,
                 outcome>>

\* a dial, write or read on the chain fails: Read returns the error and the
\* pipe replaces its own connection
Breaks ==
  /\ at # NoNode
  /\ Return("broken")
  /\ UNCHANGED <<clusterVars, proxyVars, executed, raced, since>>

\* fetchproc installs the owner of the moment
Refresh ==
  /\ woken /\ woken' = FALSE /\ home' = owner
  /\ UNCHANGED <<clusterVars, chainVars, reply, executed, raced, since, outcome>>

Next == ClusterChanges \/ Serve \/ Write \/ ReadReturns \/ Redirect \/ Breaks \/ Refresh

Spec == Init /\ [][Next]_vars

-----------------------------------------------------------------------------
(* Properties.                                                             *)

\* A request that ends with a node's own reply was executed once, one that
\* ends with a redirect not at all, and one whose connection broke at most
\* once: following a redirect never repeats a command that took effect.
ExecutedOnce ==
  /\ executed <= 1
  /\ outcome \in {"value", "error"} => executed = 1
  /\ outcome = "redirect" => executed = 0

\* The client sees a redirect only when DoAuth got in the way or the cluster
\* changed at least maxRedirects times while the request was under way: a stale
\* table, a slot under migration or the redirects of earlier requests on the
\* same connection are not enough.
RedirectOnlyUnderChurn ==
  outcome = "redirect" /\ ~raced => changes - since >= MaxRedirects

=============================================================================
