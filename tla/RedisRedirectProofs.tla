------------------------- MODULE RedisRedirectProofs -------------------------
(***************************************************************************)
(* The theorems about RedisRedirect: a redirect never repeats a command    *)
(* that took effect, and the client sees one only under churn.             *)
(***************************************************************************)
EXTENDS RedisRedirect, TLAPS

-----------------------------------------------------------------------------
(* The inductive invariant.                                                *)

\* The chain of one request: it hangs on the connection of one pipe, whose
\* redirects count is the only one that is not zero.
ChainInv ==
  /\ at = NoNode => pipe = NoNode /\ reply = None
  /\ at # NoNode => pipe \in Nodes /\ hop = dials /\ outcome = "-"
  /\ \A n \in Nodes : n # pipe \/ dials = 0 => redirects[n] = 0

\* A request is sent on only while nobody has executed it.
ExecInv ==
  /\ ExecutedOnce
  /\ reply.kind = "none" => reply = None
  /\ at # NoNode /\ reply = None => executed = 0
  /\ reply.kind \in {"value", "error"} => executed = 1
  /\ reply.kind \in {"moved", "ask"} => executed = 0 /\ reply.to \in Nodes

\* how often the cluster changed while the request was under way
Changed == changes - since

\* the changes since the slot got its owner: a new owner starts without a
\* migration, the key moves after the migration has begun
Progress == IF keyMoved THEN 2 ELSE IF target # NoNode THEN 1 ELSE 0

\* A request that reached n by h redirects has seen a new owner for each but
\* the first, and for that one too if n is no longer the owner.
Chased(h, n) ==
  /\ Changed >= h - 1
  /\ n # owner => Changed >= h + Progress
  /\ n = owner /\ h >= 2 => Changed >= h - 1 + Progress

\* Redirects against changes, while DoAuth keeps apart.  ASKING ends a chain:
\* the reply to it is what Read returns.
ChurnInv ==
  /\ changes >= since
  /\ RedirectOnlyUnderChurn
  /\ at # NoNode /\ ~raced =>
       /\ reply = None /\ ~asking /\ hop >= 1 => Chased(hop, at)
       /\ reply.kind = "moved" => Chased(hop + 1, reply.to) /\ Changed >= hop
       /\ reply.kind = "ask" /\ hop >= 2 => Changed > hop
       /\ asking => reply.kind \in {"none", "foreign"}

IInv == TypeOK /\ ChainInv /\ ExecInv

-----------------------------------------------------------------------------
(* Execution.                                                              *)

\* A reply to a request that the node does not execute names a node to go to.
LEMMA RepliesType ==
  ASSUME TypeOK, NEW n \in Nodes, NEW ask \in BOOLEAN, NEW r \in Replies(n, ask)
  PROVE  /\ r \in [kind : {"value", "error", "moved", "ask"}, to : Nodes \cup {NoNode}]
         /\ r.kind \in {"moved", "ask"} => r.to \in Nodes
         /\ r.kind = "ask" => n = owner /\ keyMoved /\ r.to = target
         /\ r.kind = "moved" => n # owner /\ r.to = owner
  BY DEF TypeOK, Replies

\* The first state satisfies the invariant.
LEMMA InitIInv == Init => IInv
<1> SUFFICES ASSUME Init PROVE IInv
  OBVIOUS
<1> USE RedirectAssumption DEF Init
<1>1. /\ keyMoved \in BOOLEAN /\ (keyMoved => target # NoNode)
      /\ woken \in BOOLEAN /\ asking \in BOOLEAN /\ raced \in BOOLEAN
  OBVIOUS
<1>2. TypeOK
  BY <1>1 DEF TypeOK, None
<1>3. ChainInv /\ ExecInv
  BY DEF ChainInv, ExecInv, ExecutedOnce, None
<1> QED
  BY <1>2, <1>3 DEF IInv

\* A change of the cluster does not touch the request.
LEMMA ClusterIInv ==
  ASSUME IInv, ClusterChanges
  PROVE  IInv'
<1>1. /\ owner' \in Nodes /\ target' \in (Nodes \cup {NoNode}) \ {owner'}
      /\ keyMoved' \in BOOLEAN /\ (keyMoved' => target' # NoNode)
  BY RedirectAssumption DEF IInv, TypeOK, ClusterChanges, Migrate
<1>2. changes' \in 0..MaxChanges
  BY RedirectAssumption DEF IInv, TypeOK, ClusterChanges
<1>3. TypeOK'
  BY <1>1, <1>2 DEF IInv, TypeOK, ClusterChanges, proxyVars, chainVars
<1>4. ChainInv' /\ ExecInv'
  BY DEF IInv, ChainInv, ExecInv, ExecutedOnce, ClusterChanges, proxyVars, chainVars, None
<1> QED
  BY <1>3, <1>4 DEF IInv

\* A node executes the request when it replies to it itself, and only then.
LEMMA ServeIInv ==
  ASSUME IInv, Serve
  PROVE  IInv'
<1> USE RedirectAssumption DEF IInv
<1>0. PICK race \in {FALSE, dials > 0} :
        /\ raced' = (raced \/ race)
        /\ \E ask \in {asking, asking /\ ~race} : \E r \in Replies(at, ask) :
            /\ executed' = executed + (IF r.kind \in {"value", "error"} THEN 1 ELSE 0)
            /\ reply' \in IF race THEN {r, Foreign} ELSE {FirstReply(r)}
  BY DEF Serve
<1>1. PICK ask \in {asking, asking /\ ~race} : \E r \in Replies(at, ask) :
        /\ executed' = executed + (IF r.kind \in {"value", "error"} THEN 1 ELSE 0)
        /\ reply' \in IF race THEN {r, Foreign} ELSE {FirstReply(r)}
  BY <1>0
<1>2. at \in Nodes /\ reply = None /\ executed = 0 /\ ask \in BOOLEAN /\ race \in BOOLEAN
  <2>1. at \in Nodes /\ reply = None /\ executed = 0
    BY DEF Serve, TypeOK, ExecInv
  <2>2. asking \in BOOLEAN
    BY DEF TypeOK
  <2>3. (dials > 0) \in BOOLEAN
    BY DEF TypeOK
  <2> QED
    BY <1>1, <2>1, <2>2, <2>3
<1>3. PICK r \in Replies(at, ask) :
        /\ executed' = IF r.kind \in {"value", "error"} THEN 1 ELSE 0
        /\ reply' \in {r, Foreign}
  BY <1>1, <1>2 DEF FirstReply
<1>4. /\ r \in [kind : {"value", "error", "moved", "ask"}, to : Nodes \cup {NoNode}]
      /\ r.kind \in {"moved", "ask"} => r.to \in Nodes
  BY <1>2, RepliesType
<1>5. UNCHANGED <<owner, target, keyMoved, changes, home, woken, redirects, at, pipe, asking,
                  hop, dials, since, outcome>>
  BY DEF Serve, clusterVars, proxyVars, chainVars
<1>6. raced' \in BOOLEAN
  BY <1>0, <1>2 DEF TypeOK
<1>7. TypeOK'
  BY <1>3, <1>4, <1>5, <1>6 DEF TypeOK, Foreign
<1>8. ChainInv' /\ ExecInv'
  BY <1>2, <1>3, <1>4, <1>5 DEF Serve, ChainInv, ExecInv, ExecutedOnce, Foreign, None
<1> QED
  BY <1>7, <1>8

\* A request starts with no redirects: its connection's count was reset.
LEMMA WriteIInv ==
  ASSUME IInv, Write
  PROVE  IInv' /\ hop' = 0
<1> USE RedirectAssumption DEF IInv
<1>1. redirects[home] = 0
  BY DEF Write, ChainInv, TypeOK
<1>2. TypeOK'
  BY <1>1 DEF Write, TypeOK, clusterVars, proxyVars
<1>3. ChainInv' /\ ExecInv'
  BY <1>1 DEF Write, TypeOK, ChainInv, ExecInv, ExecutedOnce, None, clusterVars, proxyVars
<1> QED
  BY <1>1, <1>2, <1>3 DEF Write

\* All the Reads of a chain returning leaves every count at zero.
LEMMA ReturnIInv ==
  ASSUME IInv, at # NoNode, NEW how \in {"value", "error", "redirect", "foreign", "broken"},
         Return(how), UNCHANGED <<clusterVars, proxyVars, executed, raced, since>>,
         how \in {"value", "error"} => executed = 1,
         how = "redirect" => executed = 0
  PROVE  IInv'
<1> USE RedirectAssumption DEF IInv, clusterVars, proxyVars
<1>1. redirects' = [n \in Nodes |-> 0]
  BY DEF Return, AfterRead, TypeOK, ChainInv
<1>2. TypeOK'
  <2>1. asking' \in BOOLEAN
    BY DEF Return
  <2>2. redirects' \in [Nodes -> 0..MaxRedirects]
    BY <1>1
  <2>3. /\ at' = NoNode /\ pipe' = NoNode /\ reply' = None /\ dials' = dials
        /\ hop' = 0 /\ outcome' = how
    BY DEF Return
  <2> QED
    BY <2>1, <2>2, <2>3 DEF TypeOK, None
<1>3. ChainInv' /\ ExecInv'
  BY <1>1 DEF Return, ChainInv, ExecInv, ExecutedOnce, None
<1> QED
  BY <1>2, <1>3

\* The innermost Read hands the reply, or the redirect it may not follow, up.
LEMMA ReadReturnsIInv ==
  ASSUME IInv, ReadReturns
  PROVE  IInv'
<1> DEFINE how == IF IsRedirect THEN "redirect" ELSE reply.kind
<1>1. at # NoNode
  BY DEF IInv, ReadReturns, ChainInv
<1>2. how \in {"value", "error", "redirect", "foreign"}
  BY DEF IInv, ReadReturns, TypeOK, ExecInv, IsRedirect
<1>3. /\ how \in {"value", "error"} => executed = 1
      /\ how = "redirect" => executed = 0
  BY <1>2 DEF IInv, TypeOK, ExecInv, IsRedirect
<1>4. Return(how) /\ UNCHANGED <<clusterVars, proxyVars, executed, raced, since>>
  BY DEF ReadReturns
<1> HIDE DEF how
<1> QED
  BY <1>1, <1>2, <1>3, <1>4, ReturnIInv

\* redirectProcess sends a request on that nobody has executed.
LEMMA RedirectIInv ==
  ASSUME IInv, Redirect
  PROVE  IInv'
<1> USE RedirectAssumption DEF IInv
<1>1. /\ reply.to \in Nodes /\ executed = 0 /\ at # NoNode /\ pipe \in Nodes
      /\ hop = dials /\ hop \in Nat /\ hop < MaxRedirects
  BY DEF Redirect, IsRedirect, AtLimit, ExecInv, ChainInv, TypeOK
<1>2. /\ redirects' \in [Nodes -> 0..MaxRedirects]
      /\ \A n \in Nodes : n # pipe => redirects'[n] = 0
  BY <1>1 DEF Redirect, TypeOK, ChainInv
<1>3. TypeOK'
  <2>1. woken' \in BOOLEAN /\ asking' \in BOOLEAN
    BY DEF Redirect, TypeOK, SendsAsking
  <2> QED
    BY <1>1, <1>2, <2>1 DEF Redirect, TypeOK, NextHop, None, clusterVars
<1>4. ChainInv' /\ ExecInv'
  BY <1>1, <1>2 DEF Redirect, TypeOK, NextHop, ChainInv, ExecInv, ExecutedOnce, None, clusterVars
<1> QED
  BY <1>3, <1>4

\* Every step preserves the invariant.
LEMMA NextIInv ==
  ASSUME IInv, [Next]_vars
  PROVE  IInv'
<1>1. CASE Breaks
  BY <1>1, ReturnIInv DEF Breaks
<1>2. CASE Refresh
  <2>1. TypeOK'
    <3>1. woken' \in BOOLEAN
      BY <1>2 DEF Refresh
    <3> QED
      BY <1>2, <3>1 DEF IInv, TypeOK, Refresh, clusterVars, chainVars
  <2>2. ChainInv' /\ ExecInv'
    BY <1>2 DEF IInv, ChainInv, ExecInv, ExecutedOnce, Refresh, chainVars, None
  <2> QED
    BY <2>1, <2>2 DEF IInv
<1>3. CASE UNCHANGED vars
  <2>1. TypeOK'
    BY <1>3 DEF IInv, TypeOK, vars, clusterVars, proxyVars, chainVars
  <2>2. ChainInv' /\ ExecInv'
    BY <1>3 DEF IInv, ChainInv, ExecInv, ExecutedOnce, vars, chainVars, None
  <2> QED
    BY <2>1, <2>2 DEF IInv
<1> QED
  BY <1>1, <1>2, <1>3, ClusterIInv, ServeIInv, WriteIInv, ReadReturnsIInv, RedirectIInv
  DEF Next

\* The invariant holds in every reachable state of a redirected request.
THEOREM RedirectInvariance == Spec => []IInv
  BY InitIInv, NextIInv, PTL DEF Spec

\* Following redirects never repeats a command that took effect: a request
\* that ends with a node's own reply was executed once, one that ends with a
\* redirect not at all.
THEOREM RedirectNeverRepeats == Spec => []ExecutedOnce
<1>1. IInv => ExecutedOnce
  BY DEF IInv, ExecInv
<1> QED
  BY <1>1, RedirectInvariance, PTL

-----------------------------------------------------------------------------
(* Churn.                                                                  *)

\* While the request is under way its hop count and the cluster's count of
\* changes are numbers.
LEMMA Counts ==
  ASSUME TypeOK
  PROVE  /\ changes \in Nat /\ since \in Nat /\ hop \in Nat /\ MaxRedirects \in Nat
         /\ Progress \in 0..2
  BY RedirectAssumption DEF TypeOK, Progress

\* A change of the cluster keeps up with the redirects it can cause: it moves
\* the slot on by one step of a migration, or starts over with a new owner.
LEMMA ClusterMoves ==
  ASSUME TypeOK, ClusterChanges
  PROVE  /\ changes' = changes + 1 /\ since' = since
         /\ \/ owner' = owner /\ Progress' = Progress + 1
            \/ owner' # owner /\ Progress' = 0
<1>1. /\ changes' = changes + 1 /\ since' = since
  BY DEF ClusterChanges
<1>2. target \in (Nodes \cup {NoNode}) \ {owner} /\ (keyMoved => target # NoNode)
  BY DEF TypeOK
<1> SUFFICES \/ owner' = owner /\ Progress' = Progress + 1
             \/ owner' # owner /\ Progress' = 0
  BY <1>1
<1>3. CASE target = NoNode /\ target' \in Nodes \ {owner} /\ UNCHANGED <<owner, keyMoved>>
  <2>1. ~keyMoved /\ ~keyMoved' /\ target' # NoNode
    BY <1>2, <1>3, RedirectAssumption
  <2> QED
    BY <1>3, <2>1 DEF Progress
<1>4. CASE target # NoNode /\ ~keyMoved /\ keyMoved' = TRUE /\ UNCHANGED <<owner, target>>
  <2>1. keyMoved'
    BY <1>4
  <2> QED
    BY <1>4, <2>1 DEF Progress
<1>5. CASE /\ target # NoNode /\ keyMoved
           /\ owner' = target /\ target' = NoNode /\ keyMoved' = FALSE
  <2>1. ~keyMoved'
    BY <1>5
  <2> QED
    BY <1>2, <1>5, <2>1 DEF Progress
<1>6. CASE owner' \in Nodes \ {owner} /\ target' = NoNode /\ keyMoved' = FALSE
  <2>1. ~keyMoved'
    BY <1>6
  <2> QED
    BY <1>6, <2>1 DEF Progress
<1> QED
  BY <1>3, <1>4, <1>5, <1>6 DEF ClusterChanges, Migrate

\* A change of the cluster preserves the bound.
LEMMA ClusterChurn ==
  ASSUME IInv, ChurnInv, ClusterChanges
  PROVE  ChurnInv'
<1>1. UNCHANGED <<at, reply, asking, hop, raced, since, outcome>>
  BY DEF ClusterChanges, chainVars
<1>2. changes' = changes + 1
  BY DEF ClusterChanges
<1>3. hop \in Nat /\ hop + 1 \in Nat /\ hop + 1 >= 1 /\ changes \in Nat /\ since \in Nat
      /\ MaxRedirects \in Nat
  BY Counts DEF IInv
<1>4. changes' >= since' /\ RedirectOnlyUnderChurn'
  BY <1>1, <1>2, <1>3 DEF ChurnInv, RedirectOnlyUnderChurn
<1> SUFFICES ASSUME at # NoNode, ~raced
             PROVE  /\ reply = None /\ ~asking /\ hop >= 1 => Chased(hop, at)'
                    /\ reply.kind = "moved" => Chased(hop + 1, reply.to)' /\ Changed' >= hop
                    /\ reply.kind = "ask" /\ hop >= 2 => Changed' > hop
                    /\ asking => reply.kind \in {"none", "foreign"}
  BY <1>1, <1>4 DEF ChurnInv, Chased
<1>5. ASSUME reply = None, ~asking, hop >= 1 PROVE Chased(hop, at)'
  <2>1. Chased(hop, at)
    BY <1>5 DEF ChurnInv
  <2> QED
    BY <1>1, <1>3, <2>1, ClusterMoves, Counts DEF IInv, Chased, Changed
<1>6. ASSUME reply.kind = "moved" PROVE Chased(hop + 1, reply.to)' /\ Changed' >= hop
  <2>1. Chased(hop + 1, reply.to) /\ Changed >= hop
    BY <1>6 DEF ChurnInv
  <2>2. Chased(hop + 1, reply.to)'
    BY <1>1, <1>3, <2>1, ClusterMoves, Counts DEF IInv, Chased, Changed
  <2> QED
    BY <1>1, <1>2, <1>3, <2>1, <2>2 DEF Changed
<1>7. ASSUME reply.kind = "ask", hop >= 2 PROVE Changed' > hop
  BY <1>1, <1>2, <1>3, <1>7 DEF ChurnInv, Changed
<1> QED
  BY <1>5, <1>6, <1>7 DEF ChurnInv

\* A node that is not the owner redirects to the owner; the owner redirects
\* only when the key has moved.
LEMMA ServeChurn ==
  ASSUME IInv, ChurnInv, Serve
  PROVE  ChurnInv'
<1>1. UNCHANGED <<owner, target, keyMoved, changes, at, asking, hop, since, outcome>>
  BY DEF Serve, clusterVars, chainVars
<1>2. at # NoNode /\ reply = None /\ at \in Nodes /\ outcome = "-" /\ TypeOK
  BY DEF Serve, IInv, TypeOK, ChainInv
<1>3. hop \in Nat /\ changes \in Nat /\ since \in Nat /\ Progress \in 0..2
  BY <1>2, Counts
<1>4. changes' >= since' /\ RedirectOnlyUnderChurn'
  BY <1>1, <1>2 DEF ChurnInv, RedirectOnlyUnderChurn
<1> SUFFICES ASSUME ~raced'
             PROVE  /\ reply' # None
                    /\ reply'.kind = "moved" => Chased(hop + 1, reply'.to) /\ Changed >= hop
                    /\ reply'.kind = "ask" /\ hop >= 2 => Changed > hop
                    /\ asking => reply'.kind = "foreign"
  BY <1>1, <1>4 DEF ChurnInv, Chased, Changed, Progress
<1>5. ~raced /\ \E r \in Replies(at, asking) : reply' = FirstReply(r)
  <2>1. PICK race \in {FALSE, dials > 0} :
          /\ raced' = (raced \/ race)
          /\ \E ask \in {asking, asking /\ ~race} : \E r \in Replies(at, ask) :
               reply' \in IF race THEN {r, Foreign} ELSE {FirstReply(r)}
    BY DEF Serve
  <2>2. ~race /\ ~raced
    BY <2>1
  <2>3. PICK ask \in {asking, asking /\ ~race} : \E r \in Replies(at, ask) : reply' = FirstReply(r)
    BY <2>1, <2>2
  <2>4. ask = asking
    BY <1>2, <2>2, <2>3 DEF TypeOK
  <2> QED
    BY <2>2, <2>3, <2>4
<1>6. PICK r \in Replies(at, asking) : reply' = FirstReply(r)
  BY <1>5
<1>7. CASE asking
  BY <1>6, <1>7 DEF FirstReply, Foreign, None
<1>8. CASE ~asking
  <2>1. reply' = r
    BY <1>6, <1>8 DEF FirstReply
  <2>2. asking \in BOOLEAN
    BY <1>2 DEF TypeOK
  <2>3. /\ r \in [kind : {"value", "error", "moved", "ask"}, to : Nodes \cup {NoNode}]
        /\ r.kind = "ask" => at = owner /\ keyMoved
        /\ r.kind = "moved" => at # owner /\ r.to = owner
    BY <1>2, <1>6, <2>2, RepliesType
  <2>4. hop >= 1 => Chased(hop, at)
    BY <1>2, <1>5, <1>8 DEF ChurnInv
  <2>5. reply' # None
    BY <2>1, <2>3 DEF None
  <2>6. ASSUME r.kind = "moved" PROVE Chased(hop + 1, r.to) /\ Changed >= hop
    BY <1>3, <2>3, <2>4, <2>6 DEF ChurnInv, Chased, Changed
  <2>7. ASSUME r.kind = "ask", hop >= 2 PROVE Changed > hop
    <3>1. Progress = 2
      BY <2>3, <2>7 DEF Progress
    <3> QED
      BY <1>3, <2>3, <2>4, <2>7, <3>1 DEF Chased, Changed
  <2> QED
    BY <1>8, <2>1, <2>5, <2>6, <2>7
<1> QED
  BY <1>7, <1>8

\* When Read gives up, the chain has been chased by as many changes as there
\* were redirects.
LEMMA ReadReturnsChurn ==
  ASSUME MaxRedirects > 1, IInv, ChurnInv, ReadReturns
  PROVE  ChurnInv'
<1>1. UNCHANGED <<changes, since, raced>> /\ at' = NoNode
  BY DEF ReadReturns, Return, clusterVars
<1>2. hop \in 0..MaxRedirects /\ MaxRedirects \in Nat /\ changes \in Nat /\ since \in Nat
  BY Counts DEF IInv, TypeOK
<1>3. ASSUME outcome' = "redirect", ~raced PROVE changes - since >= MaxRedirects
  <2>1. IsRedirect
    BY <1>3 DEF ReadReturns, Return, IInv, TypeOK
  <2>2. hop = MaxRedirects
    BY <1>2, <2>1 DEF ReadReturns, AtLimit
  <2>3. at # NoNode
    BY DEF ReadReturns, IInv, ChainInv
  <2> QED
    BY <1>2, <1>3, <2>1, <2>2, <2>3 DEF ChurnInv, IsRedirect, Changed
<1> QED
  BY <1>1, <1>3 DEF ChurnInv, RedirectOnlyUnderChurn

\* A redirect followed takes the bound along.
LEMMA RedirectChurn ==
  ASSUME IInv, ChurnInv, Redirect
  PROVE  ChurnInv'
<1>1. /\ UNCHANGED <<owner, target, keyMoved, changes, since, raced, outcome>>
      /\ at' = reply.to /\ hop' = hop + 1 /\ reply' = None /\ asking' = (reply.kind = "ask")
  BY DEF Redirect, NextHop, SendsAsking, clusterVars
<1>2. at # NoNode /\ reply.kind \in {"moved", "ask"}
  BY DEF Redirect, IsRedirect, IInv, ChainInv
<1>3. changes' >= since' /\ RedirectOnlyUnderChurn'
  BY <1>1 DEF ChurnInv, RedirectOnlyUnderChurn
<1>4. ASSUME ~raced, reply.kind = "moved" PROVE Chased(hop + 1, reply.to)
  BY <1>2, <1>4 DEF ChurnInv
<1>5. ASSUME ~raced', ~asking' PROVE Chased(hop, at)'
  BY <1>1, <1>2, <1>4, <1>5 DEF Chased, Changed, Progress
<1>6. reply'.kind = "none"
  BY <1>1 DEF None
<1> QED
  BY <1>3, <1>5, <1>6 DEF ChurnInv

\* Every step preserves the bound.
LEMMA NextChurn ==
  ASSUME MaxRedirects > 1, IInv, ChurnInv, [Next]_vars
  PROVE  ChurnInv'
<1>1. CASE Write
  <2>1. changes' = changes /\ since' = changes /\ outcome' = "-" /\ reply' = None /\ ~asking'
        /\ changes \in Nat
    BY <1>1, Counts DEF Write, clusterVars, IInv, ChainInv
  <2>2. hop' = 0
    BY <1>1, WriteIInv
  <2> QED
    BY <2>1, <2>2 DEF ChurnInv, RedirectOnlyUnderChurn, None
<1>2. CASE Breaks
  <2>1. changes' = changes /\ since' = since /\ outcome' = "broken" /\ at' = NoNode
    BY <1>2 DEF Breaks, Return, clusterVars
  <2> QED
    BY <2>1 DEF ChurnInv, RedirectOnlyUnderChurn
<1>3. CASE Refresh \/ UNCHANGED vars
  <2>1. UNCHANGED <<owner, target, keyMoved, changes, at, asking, hop, reply, raced, since,
                    outcome>>
    BY <1>3 DEF Refresh, vars, clusterVars, chainVars
  <2> QED
    BY <2>1 DEF ChurnInv, RedirectOnlyUnderChurn, Chased, Changed, Progress, None
<1> QED
  BY <1>1, <1>2, <1>3, ClusterChurn, ServeChurn, ReadReturnsChurn, RedirectChurn DEF Next

\* The client sees a redirect only when DoAuth got in the way or the cluster
\* changed at least maxRedirects times meanwhile.  With a limit of one it would
\* not be so: a stale table and a slot under migration cost two redirects
\* without any change.  The code's maxRedirects is 5.
THEOREM RedirectNeedsChurn ==
  ASSUME MaxRedirects > 1
  PROVE  Spec => []RedirectOnlyUnderChurn
<1>1. Init => ChurnInv
  BY DEF Init, ChurnInv, RedirectOnlyUnderChurn
<1>2. IInv /\ ChurnInv /\ [Next]_vars => ChurnInv'
  BY NextChurn
<1>3. ChurnInv => RedirectOnlyUnderChurn
  BY DEF ChurnInv
<1> QED
  BY <1>1, <1>2, <1>3, RedirectInvariance, PTL DEF Spec

=============================================================================
