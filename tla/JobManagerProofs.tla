--------------------------- MODULE JobManagerProofs ---------------------------
(***************************************************************************)
(* The theorems about PlatformApi and JobManager, for any number of        *)
(* requests, clusters, appids, faults and crashes: first what the requests *)
(* of PlatformApi keep true of the keys in etcd, then the job manager.     *)
(***************************************************************************)
EXTENDS JobManager, TLAPS

-----------------------------------------------------------------------------
(* The inductive invariant.                                                *)

\* labels at which a request has neither a port nor half a pair
Calm == {"start", "end", "seq", "info", "check", "job", "pending", "assign"}

Labels == Calm \cup {"seqset", "port", "key", "list", "entries", "rmdir"}

JobRec == [op : Ops, name : Clusters, num : Nat]
ReqRec == [pc : Labels, val : Nat \cup {None} \cup Appids,
           todo : SUBSET (Appids \cup Entry)]

JStates == {None, "pending", "deploying", "done"}

TypeInv ==
  /\ DOMAIN req \subseteq Requests /\ req \in [DOMAIN req -> ReqRec]
  /\ seq \in Nat \cup {None} /\ nextId \in Nat
  /\ cdir \in [Clusters -> DirRec \cup {None}]
  /\ adir \in [Appids -> (SUBSET Entry) \cup {Absent}]
  /\ jobs \in Seq(JobRec) /\ jstate \in Seq(JStates)
  /\ Len(jstate) = Len(jobs)

\* What a request holds where: val and todo by label, and which operations
\* get there.
Holds(r, x) ==
  /\ x.pc = "seqset" => x.val \in Nat \cup {None}
  /\ x.pc = "port" => x.val \in Nat
  /\ x.pc = "info" => r.op \in {"destroy", "assign"}
  /\ x.pc = "check" => r.op = "assign"
  /\ x.pc \in {"assign", "key"} => r.op \in {"assign", "create"}
  /\ x.pc = "key" => x.val \in Appids
  /\ x.pc \in {"list", "entries"} => r.op = "unassign" /\ x.val \in r.apps
  /\ x.pc = "entries" => \A e \in x.todo : e \in Entry /\ e.name = r.name
  /\ x.pc = "rmdir" => r.op = "delappid"

HoldsInv == \A r \in DOMAIN req : Holds(r, req[r])

\* a request that has a port and has not written it
HasPort(r) == At(r, "port")

\* Until the sequence is set back, a port is stored or about to be stored only
\* once, and the sequence is past all of them.
PortInv ==
  reset \/
  /\ \A c \in Clusters : Dir(c).port # None => seq # None /\ Dir(c).port <= seq
  /\ \A r \in DOMAIN req : HasPort(r) => seq # None /\ req[r].val <= seq
  /\ \A r \in DOMAIN req :
       At(r, "seqset") /\ req[r].val # None => seq # None /\ req[r].val <= seq
  /\ \A c, d \in Clusters : c # d /\ Dir(c).port # None => Dir(c).port # Dir(d).port
  /\ \A c \in Clusters, r \in DOMAIN req : HasPort(r) => Dir(c).port # req[r].val
  /\ \A r, q \in DOMAIN req : r # q /\ HasPort(r) /\ HasPort(q) => req[r].val # req[q].val

\* the entries of an appid that name a cluster
Listed(c, a) == IF adir[a] = Absent THEN {} ELSE {e \in adir[a] : e.name = c}

Unassigns(r, c, a) ==
  req[r].pc \in {"list", "entries"} /\ r.name = c /\ req[r].val = a

Assigns(r, c, a) == req[r].pc = "key" /\ r.name = c /\ req[r].val = a

\* What a request in the middle of a pair may rely on, unless the pair is messy:
\* an assign its entry, an unassign that the key is gone and that it has seen
\* all entries, and a removal of the appid that it has none.
PairOK(c, a) ==
  /\ \/ \E r \in DOMAIN req : Assigns(r, c, a) \/ Unassigns(r, c, a)
     \/ a \in Dir(c).appids <=> Listed(c, a) # {}
  /\ \A r \in DOMAIN req : Assigns(r, c, a) =>
       Listed(c, a) # {} /\ \A q \in DOMAIN req : ~Unassigns(q, c, a)
  /\ \A r \in DOMAIN req : Unassigns(r, c, a) => a \notin Dir(c).appids
  /\ \A r \in DOMAIN req :
       Unassigns(r, c, a) /\ req[r].pc = "entries" => Listed(c, a) \subseteq req[r].todo
  /\ \A r \in DOMAIN req : req[r].pc = "rmdir" /\ a \in r.apps => Listed(c, a) = {}

PairInv == \A c \in Clusters, a \in Appids : <<c, a>> \in messy \/ PairOK(c, a)

ApiInv == TypeInv /\ HoldsInv /\ PortInv /\ PairInv
-----------------------------------------------------------------------------
(* Requests move one at a time.                                            *)

Moves(r, x) == x \in ReqRec /\ Holds(r, x) /\ req' = [req EXCEPT ![r] = x]

\* request r ends up calm, or has just read the sequence
CalmsDown(r) ==
  \E x \in ReqRec : Moves(r, x) /\ (x.pc \in Calm \/ (x.pc = "seqset" /\ x.val = seq))

\* every request stays as it is or ends up so
CalmStep ==
  /\ DOMAIN req' = DOMAIN req
  /\ \A q \in DOMAIN req : \/ req'[q] = req[q] \/ req'[q].pc \in Calm
                           \/ req'[q].pc = "seqset" /\ req'[q].val = seq

\* nobody gets a port, or a sequence number it has not just read
PortStep ==
  /\ DOMAIN req' = DOMAIN req
  /\ \A q \in DOMAIN req : \/ req'[q] = req[q] \/ req'[q].pc \notin {"port", "seqset"}
                           \/ req'[q].pc = "seqset" /\ req'[q].val = seq

\* A request that goes to a label keeps its todo.
LEMMA GotoIs ==
  ASSUME TypeInv, NEW r \in DOMAIN req, NEW l \in Labels,
         NEW v \in Nat \cup {None} \cup Appids, Goto(r, l, v)
  PROVE  \E x \in ReqRec : /\ x.pc = l /\ x.val = v /\ x.todo = req[r].todo
                           /\ req' = [req EXCEPT ![r] = x]
<1> DEFINE x == [req[r] EXCEPT !.pc = l, !.val = v]
<1>1. req[r] \in ReqRec
  BY Zenon DEF TypeInv
<1>2. x \in ReqRec /\ x.pc = l /\ x.val = v /\ x.todo = req[r].todo
  BY <1>1, Zenon DEF ReqRec
<1>3. req' = [req EXCEPT ![r] = x]
  BY <1>1, Zenon DEF TypeInv, ReqRec, Goto
<1> HIDE DEF x
<1> QED
  BY <1>2, <1>3, Zenon

\* Going to a calm label, with the label an operation may go to.
LEMMA GotoCalms ==
  ASSUME TypeInv, NEW r \in DOMAIN req, NEW l \in Calm,
         NEW v \in Nat \cup {None} \cup Appids, Goto(r, l, v),
         l = "info" => r.op \in {"destroy", "assign"},
         l = "check" => r.op = "assign",
         l = "assign" => r.op \in {"assign", "create"}
  PROVE  CalmsDown(r)
<1>1. PICK x \in ReqRec : x.pc = l /\ x.val = v /\ req' = [req EXCEPT ![r] = x]
  BY GotoIs DEF Labels
<1>2. Holds(r, x)
  BY <1>1, Zenon DEF Holds, Calm
<1> QED
  BY <1>1, <1>2, Zenon DEF CalmsDown, Moves

\* A request that returns is calm.
LEMMA EndCalms ==
  ASSUME TypeInv, NEW r \in DOMAIN req, End(r)
  PROVE  CalmsDown(r)
BY GotoCalms, Zenon DEF End, Calm

\* A move keeps the type of the requests and what they hold.
LEMMA MovesType ==
  ASSUME TypeInv, HoldsInv, NEW r \in DOMAIN req, NEW x \in ReqRec, Moves(r, x)
  PROVE  /\ DOMAIN req' = DOMAIN req /\ req' \in [DOMAIN req -> ReqRec]
         /\ req'[r] = x /\ \A q \in DOMAIN req : q # r => req'[q] = req[q]
         /\ HoldsInv'
<1>1. /\ DOMAIN req' = DOMAIN req /\ req' \in [DOMAIN req -> ReqRec]
      /\ req'[r] = x /\ \A q \in DOMAIN req : q # r => req'[q] = req[q]
  BY Zenon DEF TypeInv, Moves
<1>2. \A q \in DOMAIN req' : Holds(q, req'[q])
  BY <1>1, Zenon DEF HoldsInv, Moves
<1> QED
  BY <1>1, <1>2, Zenon DEF HoldsInv, Holds

\* A request that calms down keeps the types, and disturbs no other request.
LEMMA CalmsDownType ==
  ASSUME TypeInv, HoldsInv, NEW r \in DOMAIN req, CalmsDown(r)
  PROVE  CalmStep /\ HoldsInv' /\ req' \in [DOMAIN req -> ReqRec]
<1>1. PICK x \in ReqRec : Moves(r, x) /\ (x.pc \in Calm \/ (x.pc = "seqset" /\ x.val = seq))
  BY Zenon DEF CalmsDown
<1> QED
  BY <1>1, MovesType, Zenon DEF CalmStep

\* The requests that only look, and answer or go on.
Looks(r) ==
  \/ CheckName(r) \/ SequenceGet(r) \/ CheckAppids(r) \/ CheckInfo(r) \/ FindInstance(r)
  \/ Scale(r) \/ StartAssign(r) \/ CheckKey(r)

\* Looking at keys (CreateCluster up to the name, RemoveCluster, AssignAppid and
\* the like) writes none of them and leaves the request calm.
LEMMA LooksCalms ==
  ASSUME TypeInv, HoldsInv, NEW r \in DOMAIN req, Looks(r)
  PROVE  CalmsDown(r) /\ UNCHANGED <<etcd, apiHistory>>
<1>0. UNCHANGED <<etcd, apiHistory>>
  BY Zenon DEF Looks, CheckName, SequenceGet, CheckAppids, CheckInfo, FindInstance, Scale,
         StartAssign, CheckKey
<1>1. CASE SequenceGet(r)
  <2>1. PICK x \in ReqRec : /\ x.pc = "seqset" /\ x.val = seq
                             /\ req' = [req EXCEPT ![r] = x]
    <3>1. seq \in Nat \cup {None} \cup Appids /\ Goto(r, "seqset", seq)
      BY <1>1, Zenon DEF SequenceGet, TypeInv
    <3>2. "seqset" \in Labels
      BY Zenon DEF Labels
    <3> QED
      BY <3>1, <3>2, GotoIs
  <2>2. Holds(r, x)
    BY <2>1, Zenon DEF Holds, TypeInv
  <2> QED
    BY <1>0, <2>1, <2>2, Zenon DEF CalmsDown, Moves
<1>2. CASE CheckInfo(r)
  <2>1. r.op \in {"destroy", "assign"}
    BY <1>2, Zenon DEF CheckInfo, At, HoldsInv, Holds
  <2> QED
    BY <1>0, <1>2, <2>1, EndCalms, GotoCalms, Zenon DEF CheckInfo, Calm
<1>3. CASE CheckKey(r)
  <2>1. r.op = "assign"
    BY <1>3, Zenon DEF CheckKey, At, HoldsInv, Holds
  <2> QED
    BY <1>0, <1>3, <2>1, EndCalms, GotoCalms, Zenon DEF CheckKey, Calm
<1>4. CASE CheckName(r)
  BY <1>0, <1>4, EndCalms, GotoCalms, Zenon DEF CheckName, Calm
<1>5. CASE CheckAppids(r)
  BY <1>0, <1>5, EndCalms, GotoCalms, Zenon DEF CheckAppids, Calm
<1>6. CASE FindInstance(r)
  BY <1>0, <1>6, EndCalms, GotoCalms, Zenon DEF FindInstance, Calm
<1>7. CASE Scale(r)
  BY <1>0, <1>7, EndCalms, Zenon DEF Scale
<1>8. CASE StartAssign(r)
  BY <1>0, <1>8, GotoCalms, Zenon DEF StartAssign, Calm
<1> QED
  BY <1>1, <1>2, <1>3, <1>4, <1>5, <1>6, <1>7, <1>8, Zenon DEF Looks
-----------------------------------------------------------------------------
(* What keeps the parts of the invariant.                                  *)

\* A sequence is a function from the numbers up to its length.
LEMMA SeqLength ==
  ASSUME NEW S, NEW q \in Seq(S)
  PROVE  q \in [1..Len(q) -> S] /\ Len(q) \in Nat /\ DOMAIN q = 1..Len(q)
OBVIOUS

\* A function from the numbers up to some length is a sequence.
LEMMA SeqMade ==
  ASSUME NEW S, NEW n \in Nat, NEW q \in [1..n -> S]
  PROVE  q \in Seq(S)
OBVIOUS

\* A sequence with one more element, and one without its first.
LEMMA SeqGrowShrink ==
  ASSUME NEW S, NEW q \in Seq(S)
  PROVE  /\ \A x \in S : Append(q, x) \in Seq(S)
         /\ q # << >> => Head(q) \in S /\ Tail(q) \in Seq(S)
OBVIOUS

Written(s, t, i, v) == t = [s EXCEPT ![i] = v]

\* Writing one element of a sequence.
LEMMA WriteSeq ==
  ASSUME NEW S, NEW s \in Seq(S), NEW i, NEW v \in S, NEW t, Written(s, t, i, v)
  PROVE  /\ t \in Seq(S) /\ Len(t) = Len(s)
         /\ \A j \in DOMAIN s : t[j] = IF j = i THEN v ELSE s[j]
<1>1. s \in [1..Len(s) -> S] /\ Len(s) \in Nat
  BY SeqLength, Zenon
<1>2. t \in [1..Len(s) -> S] /\ \A j \in DOMAIN s : t[j] = IF j = i THEN v ELSE s[j]
  BY <1>1, Zenon DEF Written
<1>3. t \in Seq(S)
  BY <1>1, <1>2, SeqMade, Zenon
<1>4. Len(t) = Len(s)
  BY <1>1, <1>2, <1>3, SeqLength
<1> QED
  BY <1>2, <1>3, <1>4, Zenon

\* The keys of the directories, and the jobs, keep their type.
LEMMA TypeFrame ==
  ASSUME TypeInv, DOMAIN req' = DOMAIN req, req' \in [DOMAIN req -> ReqRec],
         UNCHANGED etcd
  PROVE  TypeInv'
BY Zenon DEF TypeInv, etcd

\* A stored port stays or goes, nobody gets one: the ports stay distinct.
LEMMA PortKept ==
  ASSUME TypeInv, HoldsInv, PortInv, PortStep, UNCHANGED <<seq, reset>>,
         \A c \in Clusters : Dir(c)'.port \in {Dir(c).port, None}
  PROVE  PortInv'
<1>1. ASSUME NEW r \in DOMAIN req, At(r, "port")' PROVE At(r, "port") /\ req'[r] = req[r]
  BY <1>1, Zenon DEF At, PortStep
<1>2. ASSUME NEW r \in DOMAIN req, At(r, "seqset")'
      PROVE  (At(r, "seqset") /\ req'[r] = req[r]) \/ req'[r].val = seq
  BY <1>2, Zenon DEF At, PortStep
<1>3. seq # None => seq \in Nat
  BY Zenon DEF TypeInv
<1>4. CASE reset
  BY <1>4, Zenon DEF PortInv
<1>5. CASE ~reset
  <2>1. DOMAIN req' = DOMAIN req
    BY Zenon DEF PortStep
  <2>2. \A c \in Clusters : Dir(c)'.port # None => seq' # None /\ Dir(c)'.port <= seq'
    BY <1>5, Zenon DEF PortInv
  <2>3. \A r \in DOMAIN req : At(r, "port")' => seq' # None /\ req'[r].val <= seq'
    BY <1>1, <1>5, Zenon DEF PortInv, HasPort
  <2>4. \A r \in DOMAIN req :
          At(r, "seqset")' /\ req'[r].val # None => seq' # None /\ req'[r].val <= seq'
    BY <1>2, <1>3, <1>5 DEF PortInv
  <2>5. \A c, d \in Clusters :
          c # d /\ Dir(c)'.port # None => Dir(c)'.port # Dir(d)'.port
    BY <1>5, Zenon DEF PortInv
  <2>6. \A c \in Clusters, r \in DOMAIN req : At(r, "port")' => Dir(c)'.port # req'[r].val
    <3>1. \A r \in DOMAIN req : At(r, "port") => req[r].val # None
      BY ApiAssumption, Zenon DEF At, HoldsInv, Holds
    <3> QED
      BY <1>1, <1>5, <3>1, Zenon DEF PortInv, HasPort
  <2>7. \A r, q \in DOMAIN req :
          r # q /\ At(r, "port")' /\ At(q, "port")' => req'[r].val # req'[q].val
    BY <1>1, <1>5, Zenon DEF PortInv, HasPort
  <2> QED
    BY <2>1, <2>2, <2>3, <2>4, <2>5, <2>6, <2>7, Zenon DEF PortInv, HasPort
<1> QED
  BY <1>4, <1>5, Zenon

\* Calm requests have no port.
LEMMA PortFrame ==
  ASSUME TypeInv, HoldsInv, PortInv, CalmStep, UNCHANGED <<seq, reset>>,
         \A c \in Clusters : Dir(c)'.port \in {Dir(c).port, None}
  PROVE  PortInv'
<1>1. PortStep
  BY Zenon DEF CalmStep, PortStep, Calm
<1> QED
  BY <1>1, PortKept, Zenon

\* The pairs that no request has half written agree.
LEMMA PairsAgree ==
  ASSUME PairInv PROVE AppidsAgree
<1>1. SUFFICES ASSUME NEW c \in Clusters, NEW a \in Appids, <<c, a>> \notin messy
               PROVE  \/ \E r \in DOMAIN req : <<c, a>> \in Half(r)
                      \/ a \in Dir(c).appids
                           <=> (adir[a] # Absent /\ \E e \in adir[a] : e.name = c)
  BY Zenon DEF AppidsAgree
<1>2. \A r \in DOMAIN req : Assigns(r, c, a) \/ Unassigns(r, c, a) => <<c, a>> \in Half(r)
  BY Zenon DEF Half, Assigns, Unassigns
<1>3. (adir[a] # Absent /\ \E e \in adir[a] : e.name = c) <=> Listed(c, a) # {}
  BY Zenon DEF Listed
<1>4. PairOK(c, a)
  BY <1>1, Zenon DEF PairInv
<1> QED
  BY <1>2, <1>3, <1>4, Zenon DEF PairOK

\* A pair whose keys stay, and that no request begins or ends to write, stays as
\* it is.
LEMMA PairKept ==
  ASSUME NEW c, NEW a, PairOK(c, a), DOMAIN req' = DOMAIN req,
         (a \in Dir(c).appids)' <=> a \in Dir(c).appids, Listed(c, a)' = Listed(c, a),
         \A r \in DOMAIN req :
           /\ Assigns(r, c, a)' <=> Assigns(r, c, a)
           /\ Unassigns(r, c, a)' <=> Unassigns(r, c, a)
           /\ Unassigns(r, c, a) /\ req'[r].pc = "entries"
                => req[r].pc = "entries" /\ req'[r].todo = req[r].todo
           /\ req'[r].pc = "rmdir" => req[r].pc = "rmdir"
  PROVE  PairOK(c, a)'
BY Zenon DEF PairOK

\* When every request stays or ends up calm, and one that leaves a pair half
\* written makes it messy, the pairs are as good as before.
LEMMA PairFrame ==
  ASSUME PairInv, CalmStep, messy \subseteq messy',
         \A c \in Clusters, a \in Appids :
           /\ (a \in Dir(c).appids)' <=> a \in Dir(c).appids
           /\ Listed(c, a)' = Listed(c, a),
         \A r \in DOMAIN req : req'[r] = req[r] \/ Half(r) \subseteq messy'
  PROVE  PairInv'
<1>1. SUFFICES ASSUME NEW c \in Clusters, NEW a \in Appids, <<c, a>> \notin messy'
               PROVE  PairOK(c, a)'
  BY Zenon DEF PairInv
<1>2. PairOK(c, a) /\ DOMAIN req' = DOMAIN req
  BY <1>1, Zenon DEF PairInv, CalmStep
<1>3. ASSUME NEW r \in DOMAIN req
      PROVE  /\ Assigns(r, c, a)' <=> Assigns(r, c, a)
             /\ Unassigns(r, c, a)' <=> Unassigns(r, c, a)
             /\ Unassigns(r, c, a) /\ req'[r].pc = "entries"
                  => req[r].pc = "entries" /\ req'[r].todo = req[r].todo
             /\ req'[r].pc = "rmdir" => req[r].pc = "rmdir"
  <2>1. CASE req'[r] = req[r]
    BY <2>1, Zenon DEF Assigns, Unassigns
  <2>2. CASE req'[r].pc \in Calm \cup {"seqset"} /\ Half(r) \subseteq messy'
    BY <1>1, <2>2, Zenon DEF Assigns, Unassigns, Half, Calm
  <2> QED
    BY <2>1, <2>2, Zenon DEF CalmStep
<1> QED
  BY <1>2, <1>3, PairKept, Zenon

\* Dir is read from one key.
LEMMA DirFrame ==
  ASSUME UNCHANGED cdir
  PROVE  \A c \in Clusters : Dir(c)' = Dir(c)
BY Zenon DEF Dir

\* Listed is read from the directory of the appid.
LEMMA ListedFrame ==
  ASSUME UNCHANGED adir
  PROVE  \A c \in Clusters, a \in Appids : Listed(c, a)' = Listed(c, a)
BY Zenon DEF Listed
-----------------------------------------------------------------------------
(* The requests.                                                           *)

\* A request that writes nothing and ends up calm, having made messy what it
\* leaves half done.
LEMMA CalmRequest ==
  ASSUME ApiInv, NEW r \in DOMAIN req, CalmsDown(r), UNCHANGED <<etcd, reset>>,
         messy \subseteq messy', Half(r) \subseteq messy'
  PROVE  ApiInv'
<1>1. CalmStep /\ HoldsInv' /\ req' \in [DOMAIN req -> ReqRec]
  BY CalmsDownType, Zenon DEF ApiInv
<1>2. TypeInv'
  BY <1>1, TypeFrame, Zenon DEF ApiInv, CalmStep
<1>3. PortInv'
  BY <1>1, PortFrame, DirFrame, Zenon DEF ApiInv, etcd
<1>4. \A q \in DOMAIN req : q # r => req'[q] = req[q]
  BY MovesType, Zenon DEF CalmsDown, ApiInv
<1>5. PairInv'
  BY <1>1, <1>4, PairFrame, DirFrame, ListedFrame, Zenon DEF ApiInv, etcd
<1> QED
  BY <1>1, <1>2, <1>3, <1>5, Zenon DEF ApiInv

\* A request that is not at key, list or entries has no pair half done.
LEMMA NoHalf ==
  ASSUME NEW r, req[r].pc \notin {"key", "list", "entries"}
  PROVE  Half(r) = {}
BY Zenon DEF Half

\* A request that looks keeps the invariant.
LEMMA LooksApiInv ==
  ASSUME ApiInv, NEW r \in DOMAIN req, Looks(r)
  PROVE  ApiInv'
<1>1. CalmsDown(r) /\ UNCHANGED <<etcd, apiHistory>>
  BY LooksCalms, Zenon DEF ApiInv
<1>2. req[r].pc \notin {"key", "list", "entries"}
  BY Zenon DEF Looks, CheckName, SequenceGet, CheckAppids, CheckInfo, FindInstance, Scale,
         StartAssign, CheckKey, At
<1> QED
  BY <1>1, <1>2, NoHalf, CalmRequest, Zenon DEF apiHistory

\* An etcd call fails.
LEMMA FailApiInv ==
  ASSUME ApiInv, NEW r \in DOMAIN req, Fail(r)
  PROVE  ApiInv'
<1>1. CalmsDown(r)
  BY EndCalms, GotoCalms, Zenon DEF Fail, Calm, ApiInv
<1> QED
  BY <1>1, CalmRequest, Zenon DEF Fail

\* Sequence: Set for the first allocation, else compare and swap.  A swap that
\* succeeds gives a number above all that were given out.
LEMMA SequenceSetApiInv ==
  ASSUME ApiInv, NEW r \in DOMAIN req, SequenceSet(r)
  PROVE  ApiInv'
<1>0. /\ req[r].pc = "seqset" /\ req[r].val \in Nat \cup {None}
      /\ UNCHANGED <<cdir, adir, nextId, jobs, jstate, istate, messy>>
  BY Zenon DEF SequenceSet, At, ApiInv, HoldsInv, Holds
<1>1. CASE req[r].val # None /\ ~Swaps(r)
  <2>1. Goto(r, "seq", None) /\ UNCHANGED <<seq, reset>>
    BY <1>1, Zenon DEF SequenceSet
  <2>2. CalmsDown(r)
    BY <2>1, GotoCalms, Zenon DEF Calm, ApiInv
  <2> QED
    BY <1>0, <2>1, <2>2, NoHalf, CalmRequest, Zenon DEF etcd
<1>2. CASE req[r].val = None \/ Swaps(r)
  <2> DEFINE v == IF req[r].val = None THEN 0 ELSE req[r].val + 1
  <2>1. /\ v \in Nat /\ seq' = v /\ Goto(r, "port", v)
        /\ req[r].val = None => reset' = (reset \/ seq # None)
        /\ req[r].val # None => v = seq + 1 /\ seq \in Nat /\ reset' = reset
    BY <1>0, <1>2, ApiAssumption DEF SequenceSet, Swaps
  <2> HIDE DEF v
  <2>2. PICK x \in ReqRec : x.pc = "port" /\ x.val = v /\ req' = [req EXCEPT ![r] = x]
    <3>1. "port" \in Labels
      BY Zenon DEF Labels
    <3> QED
      BY <2>1, <3>1, GotoIs DEF ApiInv
  <2>3. Moves(r, x)
    BY <2>1, <2>2, Zenon DEF Moves, Holds
  <2>4. /\ DOMAIN req' = DOMAIN req /\ req' \in [DOMAIN req -> ReqRec] /\ req'[r] = x
        /\ \A q \in DOMAIN req : q # r => req'[q] = req[q]
        /\ HoldsInv'
    BY <2>3, MovesType, Zenon DEF ApiInv
  <2>5. TypeInv'
    BY <1>0, <2>1, <2>4, Zenon DEF ApiInv, TypeInv
  <2>6. PairInv'
    <3>1. SUFFICES ASSUME NEW c \in Clusters, NEW a \in Appids, <<c, a>> \notin messy
                   PROVE  PairOK(c, a)'
      BY <1>0, Zenon DEF PairInv
    <3>2. PairOK(c, a) /\ Dir(c)' = Dir(c) /\ Listed(c, a)' = Listed(c, a)
      BY <1>0, <3>1, DirFrame, ListedFrame, Zenon DEF ApiInv, PairInv
    <3>3. ASSUME NEW q \in DOMAIN req
          PROVE  /\ Assigns(q, c, a)' <=> Assigns(q, c, a)
                 /\ Unassigns(q, c, a)' <=> Unassigns(q, c, a)
                 /\ Unassigns(q, c, a) /\ req'[q].pc = "entries"
                      => req[q].pc = "entries" /\ req'[q].todo = req[q].todo
                 /\ req'[q].pc = "rmdir" => req[q].pc = "rmdir"
      BY <1>0, <2>2, <2>4, Zenon DEF Assigns, Unassigns
    <3> QED
      BY <2>4, <3>2, <3>3, PairKept, Zenon
  <2>7. PortInv'
    <3>1. CASE reset'
      BY <3>1, Zenon DEF PortInv
    <3>2. CASE ~reset'
      <4>1. ~reset /\ (req[r].val = None => seq = None)
        <5>1. CASE req[r].val = None
          <6>1. reset' = (reset \/ seq # None)
            BY <2>1, <5>1, Zenon
          <6> QED
            BY <3>2, <6>1, Zenon
        <5>2. CASE req[r].val # None
          <6>1. reset' = reset
            BY <2>1, <5>2, Zenon
          <6> QED
            BY <3>2, <5>2, <6>1, Zenon
        <5> QED
          BY <5>1, <5>2, Zenon
      <4>2. \A c \in Clusters : Dir(c)' = Dir(c)
        BY <1>0, DirFrame, Zenon
      <4>3. seq # None => seq \in Nat /\ v = seq + 1
        BY <1>0, <2>1, <4>1, Zenon
      <4>4. \A c \in Clusters : Dir(c).port \in Nat \cup {None}
        BY Zenon DEF ApiInv, TypeInv, DirRec, Dir, Empty
      <4>5. \A q \in DOMAIN req : /\ HasPort(q) => req[q].val \in Nat
                                  /\ At(q, "seqset") => req[q].val \in Nat \cup {None}
        BY Zenon DEF ApiInv, HoldsInv, Holds, HasPort, At
      <4>6. \A q \in DOMAIN req :
              /\ HasPort(q)' => q = r \/ (HasPort(q) /\ req'[q].val = req[q].val)
              /\ At(q, "seqset")' => At(q, "seqset") /\ req'[q].val = req[q].val
        BY <2>2, <2>4, Zenon DEF HasPort, At
      <4>7. PortInv /\ ~reset
        BY <4>1, Zenon DEF ApiInv
      <4>8. /\ \A c \in Clusters : Dir(c).port # None => Dir(c).port < v
            /\ \A q \in DOMAIN req : HasPort(q) => req[q].val < v
            /\ \A q \in DOMAIN req : At(q, "seqset") /\ req[q].val # None => req[q].val < v
        BY <4>3, <4>4, <4>5, <4>7 DEF PortInv
      <4>9. v # None /\ req'[r].val = v
        BY <2>1, <2>2, <2>4, ApiAssumption, Zenon
      <4>10. \A c \in Clusters : Dir(c)'.port # None => seq' # None /\ Dir(c)'.port <= seq'
        BY <2>1, <4>2, <4>4, <4>8, <4>9
      <4>11. \A q \in DOMAIN req : HasPort(q)' => seq' # None /\ req'[q].val <= seq'
        BY <2>1, <4>5, <4>6, <4>8, <4>9
      <4>12. \A q \in DOMAIN req :
               At(q, "seqset")' /\ req'[q].val # None => seq' # None /\ req'[q].val <= seq'
        BY <2>1, <4>5, <4>6, <4>8, <4>9
      <4>13. \A c, d \in Clusters :
               c # d /\ Dir(c)'.port # None => Dir(c)'.port # Dir(d)'.port
        BY <4>2, <4>7, Zenon DEF PortInv
      <4>14. \A c \in Clusters, q \in DOMAIN req : HasPort(q)' => Dir(c)'.port # req'[q].val
        BY <2>1, <4>2, <4>4, <4>6, <4>7, <4>8, <4>9 DEF PortInv
      <4>15. \A p, q \in DOMAIN req :
               p # q /\ HasPort(p)' /\ HasPort(q)' => req'[p].val # req'[q].val
        BY <2>1, <4>5, <4>6, <4>7, <4>8, <4>9 DEF PortInv
      <4> QED
        BY <2>4, <4>10, <4>11, <4>12, <4>13, <4>14, <4>15, Zenon DEF PortInv
    <3> QED
      BY <3>1, <3>2, Zenon
  <2> QED
    BY <2>4, <2>5, <2>6, <2>7, Zenon DEF ApiInv
<1> QED
  BY <1>1, <1>2, Zenon
\* The front-end port is stored.
LEMMA SetPortApiInv ==
  ASSUME ApiInv, NEW r \in DOMAIN req, SetPort(r)
  PROVE  ApiInv'
<1> DEFINE v == req[r].val
           d0 == [Dir(r.name) EXCEPT !.port = v]
<1>0. /\ HasPort(r) /\ req[r].pc = "port" /\ v \in Nat /\ r.name \in Clusters
      /\ UNCHANGED <<seq, adir, nextId, jobs, jstate, istate, messy, reset>>
  BY Zenon DEF SetPort, HasPort, At, ApiInv, HoldsInv, Holds, TypeInv, Requests, apiHistory
<1>1. CalmsDown(r)
  BY GotoCalms, Zenon DEF SetPort, Calm, ApiInv
<1>2. CalmStep /\ HoldsInv' /\ req' \in [DOMAIN req -> ReqRec]
  BY <1>1, CalmsDownType, Zenon DEF ApiInv
<1>3. PICK x \in ReqRec : req'[r] = x /\ x.pc \notin {"port", "key", "list", "entries", "rmdir"}
  BY <1>1, MovesType, Zenon DEF CalmsDown, ApiInv, Calm
<1>4. \A q \in DOMAIN req : q # r => req'[q] = req[q]
  BY <1>1, MovesType, Zenon DEF CalmsDown, ApiInv
<1>5. Dir(r.name) \in DirRec
  BY <1>0, Zenon DEF Dir, ApiInv, TypeInv, DirRec, Empty
<1>6. d0 \in DirRec /\ d0.port = v /\ d0.appids = Dir(r.name).appids /\ d0.info = Dir(r.name).info
  BY <1>0, <1>5, Zenon DEF DirRec
<1>7. cdir' = [cdir EXCEPT ![r.name] = d0]
  BY Zenon DEF SetPort, SetDir
<1> HIDE DEF d0
<1>8. TypeInv'
  BY <1>0, <1>2, <1>6, <1>7, Zenon DEF ApiInv, TypeInv, CalmStep
<1>9. Dir(r.name)' = d0 /\ \A c \in Clusters : c # r.name => Dir(c)' = Dir(c)
  BY <1>0, <1>6, <1>7, ApiAssumption, Zenon DEF Dir, ApiInv, TypeInv
<1>10. PairInv'
  <2>1. Half(r) = {}
    BY <1>0, NoHalf, Zenon
  <2>2. \A c \in Clusters : Dir(c)'.appids = Dir(c).appids
    BY <1>6, <1>9, Zenon
  <2> QED
    BY <1>0, <1>2, <1>4, <2>1, <2>2, PairFrame, ListedFrame, Zenon DEF ApiInv
<1>11. PortInv'
  <2>1. CASE reset
    BY <1>0, <2>1, Zenon DEF PortInv
  <2>2. CASE ~reset
    <3>1. PortInv /\ ~reset
      BY <2>2, Zenon DEF ApiInv
    <3>2. \A q \in DOMAIN req : HasPort(q)' => q # r /\ HasPort(q) /\ req'[q].val = req[q].val
      BY <1>3, <1>4, Zenon DEF HasPort, At
    <3>3. \A q \in DOMAIN req : At(q, "seqset")' /\ req'[q].val # None
            => seq # None /\ req'[q].val <= seq
      <4>1. seq # None => seq \in Nat
        BY Zenon DEF ApiInv, TypeInv
      <4> QED
        BY <1>2, <3>1, <4>1 DEF CalmStep, Calm, PortInv, At
    <3>4. \A c \in Clusters : Dir(c)'.port = v \/ Dir(c)'.port = Dir(c).port
      BY <1>6, <1>9, Zenon
    <3>5. \A c \in Clusters : Dir(c)'.port # None => seq' # None /\ Dir(c)'.port <= seq'
      BY <1>0, <3>1, <3>4, Zenon DEF PortInv
    <3>6. \A q \in DOMAIN req : HasPort(q)' => seq' # None /\ req'[q].val <= seq'
      BY <1>0, <3>1, <3>2, Zenon DEF PortInv
    <3>7. \A c, d \in Clusters :
            c # d /\ Dir(c)'.port # None => Dir(c)'.port # Dir(d)'.port
      BY <1>0, <1>6, <1>9, <3>1 DEF PortInv
    <3>8. \A c \in Clusters, q \in DOMAIN req : HasPort(q)' => Dir(c)'.port # req'[q].val
      BY <1>0, <3>1, <3>2, <3>4 DEF PortInv
    <3>9. \A p, q \in DOMAIN req :
            p # q /\ HasPort(p)' /\ HasPort(q)' => req'[p].val # req'[q].val
      BY <3>1, <3>2, Zenon DEF PortInv
    <3>10. DOMAIN req' = DOMAIN req
      BY <1>2, Zenon DEF CalmStep
    <3> QED
      BY <1>0, <3>3, <3>5, <3>6, <3>7, <3>8, <3>9, <3>10 DEF PortInv
  <2> QED
    BY <2>1, <2>2, Zenon
<1> QED
  BY <1>2, <1>8, <1>10, <1>11, Zenon DEF ApiInv

\* saveJob appends a job; its state comes with the next call.
LEMMA GenJobApiInv ==
  ASSUME ApiInv, NEW r \in DOMAIN req, GenJob(r)
  PROVE  /\ ApiInv' /\ UNCHANGED <<cdir, apiHistory>>
         /\ \E j \in JobRec : jobs' = Append(jobs, j) /\ jstate' = Append(jstate, None)
<1> DEFINE j == [op |-> r.op, name |-> r.name,
                 num |-> IF r.op = "create" THEN Number(r) ELSE 0]
<1>1. r \in Requests
  BY Zenon DEF ApiInv, TypeInv
<1>2. Quotient(r) \in Nat
  BY <1>1 DEF Quotient, Requests
<1>3. Number(r) \in Nat
  BY <1>2 DEF Number
<1>4. j \in JobRec
  BY <1>1, <1>3, Zenon DEF JobRec, Requests
<1> HIDE DEF j
<1>5. /\ jobs' = Append(jobs, j) /\ jstate' = Append(jstate, None)
      /\ UNCHANGED <<seq, cdir, adir, nextId, istate, apiHistory>>
      /\ req[r].pc = "job" /\ Goto(r, "pending", Len(jobs) + 1)
  BY Zenon DEF GenJob, j, At
<1>6. CalmsDown(r)
  <2>1. Len(jobs) + 1 \in Nat \cup {None} \cup Appids
    BY DEF ApiInv, TypeInv
  <2> QED
    BY <1>5, <2>1, GotoCalms, Zenon DEF Calm, ApiInv
<1>7. CalmStep /\ HoldsInv' /\ req' \in [DOMAIN req -> ReqRec]
  BY <1>6, CalmsDownType, Zenon DEF ApiInv
<1>8. TypeInv'
  <2>1. jobs' \in Seq(JobRec) /\ Len(jobs') = Len(jobs) + 1
    BY <1>4, <1>5 DEF ApiInv, TypeInv
  <2>2. jstate' \in Seq(JStates) /\ Len(jstate') = Len(jstate) + 1
    BY <1>5 DEF ApiInv, TypeInv, JStates
  <2> QED
    BY <1>5, <1>7, <2>1, <2>2, Zenon DEF ApiInv, TypeInv, CalmStep
<1>9. PortInv'
  BY <1>5, <1>7, PortFrame, DirFrame, Zenon DEF ApiInv, apiHistory
<1>10. \A q \in DOMAIN req : q # r => req'[q] = req[q]
  BY <1>6, MovesType, Zenon DEF CalmsDown, ApiInv
<1>11. PairInv'
  BY <1>5, <1>7, <1>10, NoHalf, PairFrame, DirFrame, ListedFrame, Zenon DEF ApiInv, apiHistory
<1> QED
  BY <1>4, <1>5, <1>7, <1>8, <1>9, <1>11, Zenon DEF ApiInv

\* saveJob writes the state of the job it has created.
LEMMA PendingApiInv ==
  ASSUME ApiInv, NEW r \in DOMAIN req, Pending(r)
  PROVE  /\ ApiInv' /\ UNCHANGED <<cdir, jobs, apiHistory>>
         /\ jstate' = [jstate EXCEPT ![req[r].val] = "pending"]
<1>1. /\ jstate' = [jstate EXCEPT ![req[r].val] = "pending"] /\ req[r].pc = "pending"
      /\ UNCHANGED <<seq, cdir, adir, nextId, jobs, istate, apiHistory>>
  BY Zenon DEF Pending, At
<1>2. CalmsDown(r)
  BY GotoCalms, Zenon DEF Pending, Calm, ApiInv
<1>3. CalmStep /\ HoldsInv' /\ req' \in [DOMAIN req -> ReqRec]
  BY <1>2, CalmsDownType, Zenon DEF ApiInv
<1>4. TypeInv'
  <2>1. jstate' \in Seq(JStates) /\ Len(jstate') = Len(jstate)
    <3> DEFINE v == "pending"
    <3>1. jstate \in Seq(JStates) /\ v \in JStates
      BY Zenon DEF ApiInv, TypeInv, JStates
    <3>2. Written(jstate, jstate', req[r].val, v)
      BY <1>1, Zenon DEF Written
    <3> HIDE DEF v
    <3>3. jstate' \in Seq(JStates)
      BY <3>1, <3>2, WriteSeq, Zenon
    <3>4. Len(jstate') = Len(jstate)
      BY <3>1, <3>2, <3>3, SeqLength DEF Written
    <3> QED
      BY <3>3, <3>4, Zenon
  <2> QED
    BY <1>1, <1>3, <2>1, Zenon DEF ApiInv, TypeInv, CalmStep
<1>5. PortInv'
  BY <1>1, <1>3, PortFrame, DirFrame, Zenon DEF ApiInv, apiHistory
<1>6. \A q \in DOMAIN req : q # r => req'[q] = req[q]
  BY <1>2, MovesType, Zenon DEF CalmsDown, ApiInv
<1>7. PairInv'
  BY <1>1, <1>3, <1>6, NoHalf, PairFrame, DirFrame, ListedFrame, Zenon DEF ApiInv, apiHistory
<1> QED
  BY <1>1, <1>3, <1>4, <1>5, <1>7, Zenon DEF ApiInv
\* The appid directories: created and removed.
LEMMA CreateAppidApiInv ==
  ASSUME ApiInv, NEW r \in DOMAIN req, CreateAppid(r)
  PROVE  ApiInv'
<1>1. /\ adir' = [a \in Appids |-> IF a \in r.apps /\ adir[a] = Absent THEN {} ELSE adir[a]]
      /\ req[r].pc = "start"
      /\ UNCHANGED <<seq, cdir, nextId, jobs, jstate, istate, messy, reset>>
  BY Zenon DEF CreateAppid, At, apiHistory
<1>2. CalmsDown(r)
  BY EndCalms, Zenon DEF CreateAppid, ApiInv
<1>3. CalmStep /\ HoldsInv' /\ req' \in [DOMAIN req -> ReqRec]
  BY <1>2, CalmsDownType, Zenon DEF ApiInv
<1>4. adir' \in [Appids -> (SUBSET Entry) \cup {Absent}]
  BY <1>1, Zenon DEF ApiInv, TypeInv
<1>5. TypeInv'
  BY <1>1, <1>3, <1>4, Zenon DEF ApiInv, TypeInv, CalmStep
<1>6. PortInv'
  BY <1>1, <1>3, PortFrame, DirFrame, Zenon DEF ApiInv
<1>7. \A q \in DOMAIN req : q # r => req'[q] = req[q]
  BY <1>2, MovesType, Zenon DEF CalmsDown, ApiInv
<1>8. \A c \in Clusters, a \in Appids : Listed(c, a)' = Listed(c, a)
  BY <1>1, Zenon DEF Listed
<1>9. PairInv'
  BY <1>1, <1>3, <1>7, <1>8, NoHalf, PairFrame, DirFrame, Zenon DEF ApiInv
<1> QED
  BY <1>3, <1>5, <1>6, <1>9, Zenon DEF ApiInv

\* RMDir: what is lost in it was messy already, for the appid had no entries
\* when it was listed.
LEMMA RMAppidApiInv ==
  ASSUME ApiInv, NEW r \in DOMAIN req, RMAppid(r)
  PROVE  ApiInv'
<1>1. /\ adir' = [a \in Appids |-> IF a \in r.apps THEN Absent ELSE adir[a]]
      /\ req[r].pc = "rmdir"
      /\ UNCHANGED <<seq, cdir, nextId, jobs, jstate, istate, messy, reset>>
  BY Zenon DEF RMAppid, At, apiHistory
<1>2. CalmsDown(r)
  BY EndCalms, Zenon DEF RMAppid, ApiInv
<1>3. CalmStep /\ HoldsInv' /\ req' \in [DOMAIN req -> ReqRec]
  BY <1>2, CalmsDownType, Zenon DEF ApiInv
<1>4. adir' \in [Appids -> (SUBSET Entry) \cup {Absent}]
  BY <1>1, Zenon DEF ApiInv, TypeInv
<1>5. TypeInv'
  BY <1>1, <1>3, <1>4, Zenon DEF ApiInv, TypeInv, CalmStep
<1>6. PortInv'
  BY <1>1, <1>3, PortFrame, DirFrame, Zenon DEF ApiInv
<1>7. \A q \in DOMAIN req : q # r => req'[q] = req[q]
  BY <1>2, MovesType, Zenon DEF CalmsDown, ApiInv
<1>8. PairInv'
  <2>1. SUFFICES ASSUME NEW c \in Clusters, NEW a \in Appids, <<c, a>> \notin messy
                 PROVE  PairOK(c, a)'
    BY <1>1, Zenon DEF PairInv
  <2>2. PairOK(c, a) /\ Dir(c)' = Dir(c) /\ DOMAIN req' = DOMAIN req
    BY <1>1, <1>3, <2>1, DirFrame, Zenon DEF ApiInv, PairInv, CalmStep
  <2>3. Listed(c, a)' = Listed(c, a)
    <3>1. CASE a \in r.apps
      <4>1. Listed(c, a) = {}
        BY <1>1, <2>2, <3>1, Zenon DEF PairOK
      <4> QED
        BY <1>1, <3>1, <4>1, Zenon DEF Listed
    <3>2. CASE a \notin r.apps
      BY <1>1, <3>2, Zenon DEF Listed
    <3> QED
      BY <3>1, <3>2, Zenon
  <2>4. ASSUME NEW q \in DOMAIN req
        PROVE  /\ Assigns(q, c, a)' <=> Assigns(q, c, a)
               /\ Unassigns(q, c, a)' <=> Unassigns(q, c, a)
               /\ Unassigns(q, c, a) /\ req'[q].pc = "entries"
                    => req[q].pc = "entries" /\ req'[q].todo = req[q].todo
               /\ req'[q].pc = "rmdir" => req[q].pc = "rmdir"
    BY <1>1, <1>3, <1>7, Zenon DEF Assigns, Unassigns, CalmStep, Calm
  <2> QED
    BY <2>2, <2>3, <2>4, PairKept, Zenon
<1> QED
  BY <1>3, <1>5, <1>6, <1>8, Zenon DEF ApiInv

\* LS of the appid: it is removed only if it has no entries.
LEMMA ListAppidApiInv ==
  ASSUME ApiInv, NEW r \in DOMAIN req, ListAppid(r)
  PROVE  ApiInv'
<1>0. req[r].pc = "start" /\ r.op = "delappid" /\ UNCHANGED <<etcd, reset, messy>>
  BY Zenon DEF ListAppid, At, apiHistory
<1>1. CASE End(r)
  BY <1>0, <1>1, EndCalms, NoHalf, CalmRequest, Zenon DEF ApiInv
<1>2. CASE Goto(r, "rmdir", None) /\ \A a \in r.apps : Unused(a)
  <2>1. PICK x \in ReqRec : x.pc = "rmdir" /\ req' = [req EXCEPT ![r] = x]
    <3>1. "rmdir" \in Labels
      BY Zenon DEF Labels
    <3> QED
      BY <1>2, <3>1, GotoIs DEF ApiInv
  <2>2. Moves(r, x)
    BY <1>0, <2>1, Zenon DEF Moves, Holds
  <2>3. /\ DOMAIN req' = DOMAIN req /\ req' \in [DOMAIN req -> ReqRec] /\ req'[r] = x
        /\ \A q \in DOMAIN req : q # r => req'[q] = req[q]
        /\ HoldsInv'
    BY <2>2, MovesType, Zenon DEF ApiInv
  <2>4. TypeInv'
    BY <1>0, <2>3, TypeFrame, Zenon DEF ApiInv
  <2>5. PortInv'
    <3>1. PortStep
      BY <1>0, <2>1, <2>3, Zenon DEF PortStep
    <3>2. \A c \in Clusters : Dir(c)' = Dir(c)
      BY <1>0, DirFrame, Zenon DEF etcd
    <3> QED
      BY <1>0, <3>1, <3>2, PortKept, Zenon DEF ApiInv, etcd
  <2>6. PairInv'
    <3>1. SUFFICES ASSUME NEW c \in Clusters, NEW a \in Appids, <<c, a>> \notin messy
                   PROVE  PairOK(c, a)'
      BY <1>0, Zenon DEF PairInv
    <3>2. PairOK(c, a) /\ Dir(c)' = Dir(c) /\ Listed(c, a)' = Listed(c, a)
      BY <1>0, <3>1, DirFrame, ListedFrame, Zenon DEF ApiInv, PairInv, etcd
    <3>3. \A q \in DOMAIN req :
            /\ Assigns(q, c, a)' <=> Assigns(q, c, a)
            /\ Unassigns(q, c, a)' <=> Unassigns(q, c, a)
            /\ Unassigns(q, c, a) => req'[q] = req[q]
            /\ req'[q].pc = "rmdir" => q = r \/ req[q].pc = "rmdir"
      BY <1>0, <2>1, <2>3, Zenon DEF Assigns, Unassigns
    <3>4. a \in r.apps => Listed(c, a) = {}
      BY <1>2, Zenon DEF Unused, Listed
    <3> QED
      BY <2>3, <3>2, <3>3, <3>4, Zenon DEF PairOK
  <2> QED
    BY <2>3, <2>4, <2>5, <2>6, Zenon DEF ApiInv
<1> QED
  BY <1>1, <1>2, Zenon DEF ListAppid
\* assignAppids writes the entry: whoever unassigns the pair or removes the
\* appid at this moment makes the pair messy.
LEMMA AssignEntryApiInv ==
  ASSUME ApiInv, NEW r \in DOMAIN req, NEW b \in Appids, AssignEntry(r, b)
  PROVE  ApiInv'
<1> DEFINE e0 == [id |-> nextId, name |-> r.name]
           old == IF adir[b] = Absent THEN {} ELSE adir[b]
<1>1. /\ req[r].pc = "assign" /\ r.op \in {"assign", "create"} /\ r.name \in Clusters
      /\ adir' = [adir EXCEPT ![b] = old \cup {e0}]
      /\ nextId' = nextId + 1 /\ Goto(r, "key", b)
      /\ UNCHANGED <<seq, cdir, jobs, jstate, istate, reset>>
  BY Zenon DEF AssignEntry, At, ApiInv, HoldsInv, Holds, TypeInv, Requests
<1>2. /\ messy \subseteq messy'
      /\ \A q \in DOMAIN req : Unassigns(q, r.name, b) => <<r.name, b>> \in messy'
      /\ \A q \in DOMAIN req : req[q].pc = "rmdir" /\ b \in q.apps => <<r.name, b>> \in messy'
  <2>1. messy \subseteq messy'
    BY Zenon DEF AssignEntry
  <2>2. ASSUME NEW q \in DOMAIN req, Unassigns(q, r.name, b) PROVE <<r.name, b>> \in messy'
    <3>1. q.op = "unassign" /\ b \in q.apps
      BY <2>2, Zenon DEF Unassigns, ApiInv, HoldsInv, Holds
    <3>2. Unassigning(r.name, b)
      BY <2>2, <3>1, Zenon DEF Unassigning, Unassigns
    <3> QED
      BY <3>2, Zenon DEF AssignEntry
  <2>3. ASSUME NEW q \in DOMAIN req, req[q].pc = "rmdir" /\ b \in q.apps
        PROVE  <<r.name, b>> \in messy'
    <3>1. q.op = "delappid"
      BY <2>3, Zenon DEF ApiInv, HoldsInv, Holds
    <3> QED
      BY <2>3, <3>1, Zenon DEF AssignEntry
  <2> QED
    BY <2>1, <2>2, <2>3, Zenon
<1>3. PICK x \in ReqRec : x.pc = "key" /\ x.val = b /\ req' = [req EXCEPT ![r] = x]
  <2>1. "key" \in Labels
    BY Zenon DEF Labels
  <2> QED
    BY <1>1, <2>1, GotoIs DEF ApiInv
<1>4. Moves(r, x)
  BY <1>1, <1>3, Zenon DEF Moves, Holds
<1>5. /\ DOMAIN req' = DOMAIN req /\ req' \in [DOMAIN req -> ReqRec] /\ req'[r] = x
      /\ \A q \in DOMAIN req : q # r => req'[q] = req[q]
      /\ HoldsInv'
  BY <1>4, MovesType, Zenon DEF ApiInv
<1>6. e0 \in Entry /\ e0.name = r.name
  BY <1>1, Zenon DEF Entry, ApiInv, TypeInv
<1>7. old \subseteq Entry /\ adir \in [Appids -> (SUBSET Entry) \cup {Absent}]
  BY Zenon DEF ApiInv, TypeInv
<1>8. old \cup {e0} \subseteq Entry /\ old \cup {e0} # Absent
  BY <1>6, <1>7, ApiAssumption, Zenon DEF Absent
<1>9. \A c \in Clusters : {e \in old : e.name = c} = Listed(c, b)
  BY Zenon DEF Listed
<1> HIDE DEF e0, old
<1>10. TypeInv'
  <2>1. adir' \in [Appids -> (SUBSET Entry) \cup {Absent}]
    BY <1>1, <1>7, <1>8, Zenon
  <2>2. nextId' \in Nat
    BY <1>1 DEF ApiInv, TypeInv
  <2> QED
    BY <1>1, <1>5, <2>1, <2>2, Zenon DEF ApiInv, TypeInv
<1>11. /\ \A c \in Clusters, a \in Appids :
            <<c, a>> # <<r.name, b>> => Listed(c, a)' = Listed(c, a)
       /\ Listed(r.name, b)' # {}
  <2>1. ASSUME NEW a \in Appids, a # b PROVE adir'[a] = adir[a]
    BY <1>1, <1>7, <2>1, Zenon
  <2>2. adir'[b] = old \cup {e0}
    BY <1>1, <1>7, Zenon
  <2>3. \A c \in Clusters : Listed(c, b)' = {e \in old \cup {e0} : e.name = c}
    BY <1>8, <2>2, Zenon DEF Listed
  <2>4. ASSUME NEW c \in Clusters, NEW a \in Appids, <<c, a>> # <<r.name, b>>
        PROVE  Listed(c, a)' = Listed(c, a)
    <3>1. CASE a = b
      BY <1>6, <1>9, <2>3, <2>4, <3>1, Zenon
    <3>2. CASE a # b
      BY <2>1, <3>2, Zenon DEF Listed
    <3> QED
      BY <3>1, <3>2, Zenon
  <2>5. e0 \in Listed(r.name, b)'
    BY <1>1, <1>6, <2>3, Zenon
  <2> QED
    BY <2>4, <2>5, Zenon
<1>12. PortInv'
  <2>1. PortStep
    BY <1>1, <1>3, <1>5, Zenon DEF PortStep
  <2>2. \A c \in Clusters : Dir(c)' = Dir(c)
    BY <1>1, DirFrame, Zenon
  <2> QED
    BY <1>1, <2>1, <2>2, PortKept, Zenon DEF ApiInv
<1>13. PairInv'
  <2>1. SUFFICES ASSUME NEW c \in Clusters, NEW a \in Appids, <<c, a>> \notin messy'
                 PROVE  PairOK(c, a)'
    BY Zenon DEF PairInv
  <2>2. PairOK(c, a) /\ Dir(c)' = Dir(c)
    BY <1>1, <1>2, <2>1, DirFrame, Zenon DEF ApiInv, PairInv
  <2>3. \A q \in DOMAIN req :
          /\ q # r => (Assigns(q, c, a)' <=> Assigns(q, c, a))
          /\ Assigns(r, c, a)' <=> <<c, a>> = <<r.name, b>>
          /\ ~Assigns(r, c, a)
          /\ Unassigns(q, c, a)' <=> Unassigns(q, c, a)
          /\ Unassigns(q, c, a) => req'[q] = req[q]
          /\ req'[q].pc = "rmdir" <=> req[q].pc = "rmdir"
    BY <1>1, <1>3, <1>5, Zenon DEF Assigns, Unassigns
  <2>4. CASE <<c, a>> = <<r.name, b>>
    <3>1. c = r.name /\ a = b
      BY <2>4, Zenon
    <3>2. \A q \in DOMAIN req : ~Unassigns(q, c, a) /\ ~(req[q].pc = "rmdir" /\ a \in q.apps)
      BY <1>2, <2>1, <3>1, Zenon
    <3>3. Listed(c, a)' # {}
      BY <1>11, <3>1, Zenon
    <3>4. Assigns(r, c, a)'
      BY <2>3, <2>4, Zenon
    <3> QED
      BY <1>5, <2>2, <2>3, <3>2, <3>3, <3>4, Zenon DEF PairOK
  <2>5. CASE <<c, a>> # <<r.name, b>>
    <3>1. Listed(c, a)' = Listed(c, a)
      BY <1>11, <2>5, Zenon
    <3>2. \A q \in DOMAIN req : Assigns(q, c, a)' <=> Assigns(q, c, a)
      BY <2>3, <2>5, Zenon
    <3> QED
      BY <1>5, <2>2, <2>3, <3>1, <3>2, PairKept, Zenon
  <2> QED
    BY <2>4, <2>5, Zenon
<1> QED
  BY <1>5, <1>10, <1>12, <1>13, Zenon DEF ApiInv
\* A request writes the appid keys of one cluster.
LEMMA KeysWritten ==
  ASSUME TypeInv, NEW n \in Clusters, NEW as \in SUBSET Appids,
         SetDir(n, [Dir(n) EXCEPT !.appids = as])
  PROVE  /\ cdir' \in [Clusters -> DirRec \cup {None}]
         /\ Dir(n)'.appids = as
         /\ \A c \in Clusters : c # n => Dir(c)' = Dir(c)
         /\ \A c \in Clusters : Dir(c)'.port = Dir(c).port /\ Dir(c)'.info = Dir(c).info
<1> DEFINE d0 == [Dir(n) EXCEPT !.appids = as]
<1>1. Dir(n) \in DirRec
  BY Zenon DEF Dir, TypeInv, DirRec, Empty
<1>2. d0 \in DirRec /\ d0.appids = as /\ d0.port = Dir(n).port /\ d0.info = Dir(n).info
  BY <1>1, Zenon DEF DirRec
<1>3. cdir' = [cdir EXCEPT ![n] = d0]
  BY Zenon DEF SetDir
<1> HIDE DEF d0
<1>4. cdir' \in [Clusters -> DirRec \cup {None}]
  BY <1>2, <1>3, Zenon DEF TypeInv
<1>5. Dir(n)' = d0 /\ \A c \in Clusters : c # n => Dir(c)' = Dir(c)
  BY <1>2, <1>3, ApiAssumption, Zenon DEF Dir, TypeInv
<1> QED
  BY <1>2, <1>4, <1>5, Zenon

\* assignAppids writes the key: its entry is there, or the pair is messy.
LEMMA AssignKeyApiInv ==
  ASSUME ApiInv, NEW r \in DOMAIN req, AssignKey(r)
  PROVE  ApiInv'
<1> DEFINE b == req[r].val
           as == Dir(r.name).appids \cup {b}
           x == [pc |-> IF req[r].todo = {b} THEN "end" ELSE "assign",
                 val |-> None, todo |-> req[r].todo \ {b}]
<1>1. /\ req[r].pc = "key" /\ r.op \in {"assign", "create"} /\ r.name \in Clusters
      /\ b \in Appids /\ SetDir(r.name, [Dir(r.name) EXCEPT !.appids = as])
      /\ req' = [req EXCEPT ![r] = x]
      /\ UNCHANGED <<seq, adir, nextId, jobs, jstate, istate, messy, reset>>
  BY Zenon DEF AssignKey, At, ApiInv, HoldsInv, Holds, TypeInv, Requests, apiHistory
<1>2. as \subseteq Appids
  BY <1>1, Zenon DEF Dir, ApiInv, TypeInv, DirRec, Empty
<1>3. x \in ReqRec /\ x.pc \in {"end", "assign"}
  <2>1. req[r].todo \in SUBSET (Appids \cup Entry)
    BY Zenon DEF ApiInv, TypeInv, ReqRec
  <2> QED
    BY <2>1, Zenon DEF ReqRec, Labels, Calm
<1> HIDE DEF x
<1>4. CalmsDown(r)
  <2>1. Holds(r, x)
    BY <1>1, <1>3, Zenon DEF Holds
  <2> QED
    BY <1>1, <1>3, <2>1, Zenon DEF CalmsDown, Moves, Calm
<1>5. CalmStep /\ HoldsInv' /\ req' \in [DOMAIN req -> ReqRec]
  BY <1>4, CalmsDownType, Zenon DEF ApiInv
<1>6. req'[r] = x /\ \A q \in DOMAIN req : q # r => req'[q] = req[q]
  BY <1>1, Zenon DEF ApiInv, TypeInv
<1>7. /\ cdir' \in [Clusters -> DirRec \cup {None}]
      /\ Dir(r.name)'.appids = as
      /\ \A c \in Clusters : c # r.name => Dir(c)' = Dir(c)
      /\ \A c \in Clusters : Dir(c)'.port = Dir(c).port
  <2> HIDE DEF as
  <2> QED
    BY <1>1, <1>2, KeysWritten, Zenon DEF ApiInv
<1>8. TypeInv'
  BY <1>1, <1>5, <1>7, Zenon DEF ApiInv, TypeInv, CalmStep
<1>9. PortInv'
  BY <1>1, <1>5, <1>7, PortFrame, Zenon DEF ApiInv
<1>10. PairInv'
  <2>1. SUFFICES ASSUME NEW c \in Clusters, NEW a \in Appids, <<c, a>> \notin messy
                 PROVE  PairOK(c, a)'
    BY <1>1, Zenon DEF PairInv
  <2>2. PairOK(c, a) /\ Listed(c, a)' = Listed(c, a) /\ DOMAIN req' = DOMAIN req
    BY <1>1, <1>5, <2>1, ListedFrame, Zenon DEF ApiInv, PairInv, CalmStep
  <2>3. /\ Assigns(r, c, a) <=> <<c, a>> = <<r.name, b>>
        /\ \A q \in DOMAIN req :
             /\ Assigns(q, c, a)' <=> q # r /\ Assigns(q, c, a)
             /\ Unassigns(q, c, a)' <=> Unassigns(q, c, a)
             /\ Unassigns(q, c, a) => req'[q] = req[q]
             /\ req'[q].pc = "rmdir" <=> req[q].pc = "rmdir"
    BY <1>1, <1>3, <1>6, Zenon DEF Assigns, Unassigns
  <2>4. CASE <<c, a>> = <<r.name, b>>
    <3>1. c = r.name /\ a = b /\ Assigns(r, c, a)
      BY <2>3, <2>4, Zenon
    <3>2. Listed(c, a) # {} /\ \A q \in DOMAIN req : ~Unassigns(q, c, a)
      BY <2>2, <3>1, Zenon DEF PairOK
    <3>3. (a \in Dir(c).appids)'
      BY <1>7, <3>1, Zenon
    <3> HIDE DEF b
    <3> QED
      BY <2>2, <2>3, <3>2, <3>3, Zenon DEF PairOK
  <2>5. CASE <<c, a>> # <<r.name, b>>
    <3>1. (a \in Dir(c).appids)' <=> a \in Dir(c).appids
      BY <1>7, <2>5, Zenon
    <3>2. \A q \in DOMAIN req : Assigns(q, c, a)' <=> Assigns(q, c, a)
      BY <2>3, <2>5, Zenon
    <3> QED
      BY <2>2, <2>3, <3>1, <3>2, PairKept, Zenon
  <2> QED
    BY <2>4, <2>5, Zenon
<1> QED
  BY <1>5, <1>8, <1>9, <1>10, Zenon DEF ApiInv
\* UnassignAppid deletes the key: whoever is assigning the pair makes it messy.
LEMMA DeleteKeyApiInv ==
  ASSUME ApiInv, NEW r \in DOMAIN req, DeleteKey(r)
  PROVE  ApiInv'
<1>0. /\ req[r].pc = "start" /\ r.op = "unassign" /\ r.name \in Clusters
      /\ r.apps \subseteq Appids
      /\ UNCHANGED <<seq, adir, nextId, jobs, jstate, istate, reset>>
  BY Zenon DEF DeleteKey, At, ApiInv, TypeInv, Requests
<1>1. CASE End(r) /\ UNCHANGED <<cdir, messy>>
  BY <1>0, <1>1, EndCalms, NoHalf, CalmRequest, Zenon DEF ApiInv, etcd
<1>2. ASSUME NEW b \in r.apps, b \in Dir(r.name).appids,
             SetDir(r.name, [Dir(r.name) EXCEPT !.appids = Dir(r.name).appids \ {b}]),
             Goto(r, "list", b),
             messy' = messy \cup (IF Assigning(r.name, b) THEN {<<r.name, b>>} ELSE {})
      PROVE  ApiInv'
  <2> DEFINE as == Dir(r.name).appids \ {b}
  <2>1. b \in Appids /\ as \in SUBSET Appids
    BY <1>0, Zenon DEF Dir, ApiInv, TypeInv, DirRec, Empty
  <2>0. SetDir(r.name, [Dir(r.name) EXCEPT !.appids = as])
    BY <1>2, Zenon
  <2> HIDE DEF as
  <2>2. /\ cdir' \in [Clusters -> DirRec \cup {None}]
        /\ Dir(r.name)'.appids = as
        /\ \A c \in Clusters : c # r.name => Dir(c)' = Dir(c)
        /\ \A c \in Clusters : Dir(c)'.port = Dir(c).port
    BY <1>0, <2>0, <2>1, KeysWritten, Zenon DEF ApiInv
  <2>3. PICK x \in ReqRec : x.pc = "list" /\ x.val = b /\ req' = [req EXCEPT ![r] = x]
    <3>1. "list" \in Labels
      BY Zenon DEF Labels
    <3> QED
      BY <1>2, <2>1, <3>1, GotoIs DEF ApiInv
  <2>4. Moves(r, x)
    BY <1>0, <1>2, <2>3, Zenon DEF Moves, Holds
  <2>5. /\ DOMAIN req' = DOMAIN req /\ req' \in [DOMAIN req -> ReqRec] /\ req'[r] = x
        /\ \A q \in DOMAIN req : q # r => req'[q] = req[q]
        /\ HoldsInv'
    BY <2>4, MovesType, Zenon DEF ApiInv
  <2>6. TypeInv'
    BY <1>0, <2>2, <2>5, Zenon DEF ApiInv, TypeInv
  <2>7. PortInv'
    <3>1. PortStep
      BY <1>0, <2>3, <2>5, Zenon DEF PortStep
    <3> QED
      BY <1>0, <2>2, <3>1, PortKept, Zenon DEF ApiInv
  <2>8. /\ messy \subseteq messy'
        /\ \A q \in DOMAIN req : Assigns(q, r.name, b) => <<r.name, b>> \in messy'
    <3>1. ASSUME NEW q \in DOMAIN req, Assigns(q, r.name, b) PROVE Assigning(r.name, b)
      BY <3>1, Zenon DEF Assigns, Assigning, ApiInv, HoldsInv, Holds
    <3> QED
      BY <1>2, <3>1, Zenon
  <2>9. PairInv'
    <3>1. SUFFICES ASSUME NEW c \in Clusters, NEW a \in Appids, <<c, a>> \notin messy'
                   PROVE  PairOK(c, a)'
      BY Zenon DEF PairInv
    <3>2. PairOK(c, a) /\ Listed(c, a)' = Listed(c, a)
      BY <1>0, <2>8, <3>1, ListedFrame, Zenon DEF ApiInv, PairInv
    <3>3. \A q \in DOMAIN req :
            /\ Assigns(q, c, a)' <=> Assigns(q, c, a)
            /\ q # r => (Unassigns(q, c, a)' <=> Unassigns(q, c, a))
            /\ Unassigns(r, c, a)' <=> <<c, a>> = <<r.name, b>>
            /\ ~Unassigns(r, c, a)
            /\ q # r => req'[q] = req[q]
            /\ req'[q].pc = "rmdir" <=> req[q].pc = "rmdir"
      BY <1>0, <2>3, <2>5, Zenon DEF Assigns, Unassigns
    <3>4. CASE <<c, a>> = <<r.name, b>>
      <4>1. c = r.name /\ a = b /\ req'[r].pc = "list"
        BY <2>3, <2>5, <3>4, Zenon
      <4>2. \A q \in DOMAIN req : ~Assigns(q, c, a)
        BY <2>8, <3>1, <4>1, Zenon
      <4>3. ~(a \in Dir(c).appids)' /\ Unassigns(r, c, a)'
        BY <2>2, <3>3, <3>4, <4>1, Zenon DEF as
      <4> QED
        BY <2>5, <3>2, <3>3, <4>1, <4>2, <4>3, Zenon DEF PairOK
    <3>5. CASE <<c, a>> # <<r.name, b>>
      <4>1. (a \in Dir(c).appids)' <=> a \in Dir(c).appids
        BY <2>2, <3>5, Zenon DEF as
      <4>2. \A q \in DOMAIN req :
              /\ Unassigns(q, c, a)' <=> Unassigns(q, c, a)
              /\ Unassigns(q, c, a) => req'[q] = req[q]
        BY <3>3, <3>5, Zenon
      <4> QED
        BY <2>5, <3>2, <3>3, <4>1, <4>2, PairKept, Zenon
    <3> QED
      BY <3>4, <3>5, Zenon
  <2> QED
    BY <2>5, <2>6, <2>7, <2>9, Zenon DEF ApiInv
<1> QED
  BY <1>1, <1>2, Zenon DEF DeleteKey
\* UnassignAppid lists the entries of the cluster: those it is to delete.
LEMMA ListEntriesApiInv ==
  ASSUME ApiInv, NEW r \in DOMAIN req, ListEntries(r)
  PROVE  ApiInv'
<1> DEFINE b == req[r].val
           todo == {e \in adir[b] : e.name = r.name}
           x == [req[r] EXCEPT !.pc = "entries", !.todo = todo]
<1>0. /\ req[r].pc = "list" /\ r.op = "unassign" /\ r.name \in Clusters
      /\ b \in r.apps /\ b \in Appids /\ UNCHANGED <<etcd, reset, messy>>
      /\ req[r] \in ReqRec
  BY Zenon DEF ListEntries, At, ApiInv, TypeInv, HoldsInv, Holds, Requests, apiHistory
<1>1. PairInv'  /\ HoldsInv' /\ TypeInv' /\ PortInv'
  <2>1. CASE adir[b] = Absent /\ End(r)
    <3>1. CalmsDown(r)
      BY <2>1, EndCalms, Zenon DEF ApiInv
    <3>2. CalmStep /\ HoldsInv' /\ req' \in [DOMAIN req -> ReqRec]
      BY <3>1, CalmsDownType, Zenon DEF ApiInv
    <3>3. \A q \in DOMAIN req : q # r => req'[q] = req[q]
      BY <3>1, MovesType, Zenon DEF CalmsDown, ApiInv
    <3>3a. req'[r].pc \notin {"key", "list", "entries", "rmdir"}
      BY <3>1, MovesType, Zenon DEF CalmsDown, ApiInv, Calm
    <3>4. TypeInv'
      BY <1>0, <3>2, TypeFrame, Zenon DEF ApiInv, CalmStep
    <3>5. PortInv'
      BY <1>0, <3>2, PortFrame, DirFrame, Zenon DEF ApiInv, etcd
    <3>6. PairInv'
      <4>1. SUFFICES ASSUME NEW c \in Clusters, NEW a \in Appids, <<c, a>> \notin messy
                     PROVE  PairOK(c, a)'
        BY <1>0, Zenon DEF PairInv
      <4>2. PairOK(c, a) /\ Dir(c)' = Dir(c) /\ Listed(c, a)' = Listed(c, a)
        BY <1>0, <4>1, DirFrame, ListedFrame, Zenon DEF ApiInv, PairInv, etcd
      <4>3. \A q \in DOMAIN req :
              /\ Assigns(q, c, a)' <=> Assigns(q, c, a)
              /\ Unassigns(q, c, a)' <=> q # r /\ Unassigns(q, c, a)
              /\ Unassigns(r, c, a) <=> <<c, a>> = <<r.name, b>>
              /\ q # r => req'[q] = req[q]
              /\ req'[q].pc = "rmdir" => req[q].pc = "rmdir"
        BY <1>0, <3>3, <3>3a, Zenon DEF Assigns, Unassigns
      <4>4. CASE <<c, a>> = <<r.name, b>>
        <5>1. Unassigns(r, c, a) /\ Listed(c, a) = {}
          BY <2>1, <4>3, <4>4, Zenon DEF Listed
        <5>2. a \notin Dir(c).appids /\ \A q \in DOMAIN req : ~Assigns(q, c, a)
          BY <4>2, <5>1, Zenon DEF PairOK
        <5>3. DOMAIN req' = DOMAIN req
          BY <3>2, Zenon DEF CalmStep
        <5> QED
          BY <4>2, <4>3, <5>1, <5>2, <5>3, Zenon DEF PairOK
      <4>5. CASE <<c, a>> # <<r.name, b>>
        <5>1. DOMAIN req' = DOMAIN req
          BY <3>2, Zenon DEF CalmStep
        <5>2. \A q \in DOMAIN req :
                /\ Unassigns(q, c, a)' <=> Unassigns(q, c, a)
                /\ Unassigns(q, c, a) => req'[q] = req[q]
          BY <4>3, <4>5, Zenon
        <5> QED
          BY <4>2, <4>3, <5>1, <5>2, PairKept, Zenon
      <4> QED
        BY <4>4, <4>5, Zenon
    <3> QED
      BY <3>2, <3>4, <3>5, <3>6, Zenon
  <2>2. CASE adir[b] # Absent /\ req' = [req EXCEPT ![r].pc = "entries", ![r].todo = todo]
    <3>1. todo \subseteq Entry /\ (\A e \in todo : e.name = r.name) /\ todo = Listed(r.name, b)
      BY <1>0, <2>2, Zenon DEF ApiInv, TypeInv, Listed
    <3>2. req' = [req EXCEPT ![r] = x]
      BY <1>0, <2>2, Zenon DEF ApiInv, TypeInv, ReqRec
    <3> HIDE DEF todo
    <3>3. x \in ReqRec /\ x.pc = "entries" /\ x.val = b /\ x.todo = todo
      BY <1>0, <3>1, Zenon DEF ReqRec, Labels
    <3> HIDE DEF x, b
    <3>4. Moves(r, x)
      BY <1>0, <3>1, <3>2, <3>3, Zenon DEF Moves, Holds
    <3>5. /\ DOMAIN req' = DOMAIN req /\ req' \in [DOMAIN req -> ReqRec] /\ req'[r] = x
          /\ \A q \in DOMAIN req : q # r => req'[q] = req[q]
          /\ HoldsInv'
      BY <3>3, <3>4, MovesType, Zenon DEF ApiInv
    <3>6. TypeInv'
      BY <1>0, <3>5, TypeFrame, Zenon DEF ApiInv
    <3>7. PortInv'
      <4>1. PortStep
        BY <1>0, <3>3, <3>5, Zenon DEF PortStep
      <4>2. \A c \in Clusters : Dir(c)' = Dir(c)
        BY <1>0, DirFrame, Zenon DEF etcd
      <4> QED
        BY <1>0, <4>1, <4>2, PortKept, Zenon DEF ApiInv, etcd
    <3>8. PairInv'
      <4>1. SUFFICES ASSUME NEW c \in Clusters, NEW a \in Appids, <<c, a>> \notin messy
                     PROVE  PairOK(c, a)'
        BY <1>0, Zenon DEF PairInv
      <4>2. PairOK(c, a) /\ Dir(c)' = Dir(c) /\ Listed(c, a)' = Listed(c, a)
        BY <1>0, <4>1, DirFrame, ListedFrame, Zenon DEF ApiInv, PairInv, etcd
      <4>3. \A q \in DOMAIN req :
              /\ Assigns(q, c, a)' <=> Assigns(q, c, a)
              /\ Unassigns(q, c, a)' <=> Unassigns(q, c, a)
              /\ q # r => req'[q] = req[q]
              /\ req'[q].pc = "rmdir" => req[q].pc = "rmdir"
        BY <1>0, <3>3, <3>5, Zenon DEF Assigns, Unassigns, b
      <4>4. Unassigns(r, c, a) => Listed(c, a) = req'[r].todo
        BY <3>1, <3>3, <3>5, Zenon DEF Unassigns, b
      <4> QED
        BY <3>5, <4>2, <4>3, <4>4, ZenonT(60) DEF PairOK
    <3> QED
      BY <3>5, <3>6, <3>7, <3>8, Zenon
  <2> QED
    BY <2>1, <2>2, Zenon DEF ListEntries
<1> QED
  BY <1>1, Zenon DEF ApiInv

\* UnassignAppid deletes one entry, or has deleted all.
LEMMA DeleteEntryApiInv ==
  ASSUME ApiInv, NEW r \in DOMAIN req, DeleteEntry(r)
  PROVE  ApiInv'
<1>b. PICK b \in Appids : b = req[r].val
  BY Zenon DEF DeleteEntry, At, ApiInv, TypeInv, HoldsInv, Holds, Requests
<1>0. /\ req[r].pc = "entries" /\ r.op = "unassign" /\ r.name \in Clusters
      /\ b \in r.apps /\ b \in Appids /\ req[r] \in ReqRec
      /\ \A e \in req[r].todo : e \in Entry /\ e.name = r.name
      /\ UNCHANGED <<seq, cdir, nextId, jobs, jstate, istate, messy, reset>>
  BY <1>b, Zenon DEF DeleteEntry, At, ApiInv, TypeInv, HoldsInv, Holds, Requests, apiHistory
<1>1. CASE req[r].todo = {} /\ End(r) /\ UNCHANGED adir
  <2>1. CalmsDown(r)
    BY <1>1, EndCalms, Zenon DEF ApiInv
  <2>2. CalmStep /\ HoldsInv' /\ req' \in [DOMAIN req -> ReqRec] /\ DOMAIN req' = DOMAIN req
    BY <2>1, CalmsDownType, Zenon DEF ApiInv, CalmStep
  <2>3. \A q \in DOMAIN req : q # r => req'[q] = req[q]
    BY <2>1, MovesType, Zenon DEF CalmsDown, ApiInv
  <2>3a. req'[r].pc \notin {"key", "list", "entries", "rmdir"}
    BY <2>1, MovesType, Zenon DEF CalmsDown, ApiInv, Calm
  <2>4. TypeInv'
    BY <1>0, <1>1, <2>2, TypeFrame, Zenon DEF ApiInv, etcd
  <2>5. PortInv'
    BY <1>0, <2>2, PortFrame, DirFrame, Zenon DEF ApiInv
  <2>6. PairInv'
    <3>1. SUFFICES ASSUME NEW c \in Clusters, NEW a \in Appids, <<c, a>> \notin messy
                   PROVE  PairOK(c, a)'
      BY <1>0, Zenon DEF PairInv
    <3>2. PairOK(c, a) /\ Dir(c)' = Dir(c) /\ Listed(c, a)' = Listed(c, a)
      BY <1>0, <1>1, <3>1, DirFrame, ListedFrame, Zenon DEF ApiInv, PairInv
    <3>3. \A q \in DOMAIN req :
            /\ Assigns(q, c, a)' <=> Assigns(q, c, a)
            /\ Unassigns(q, c, a)' <=> q # r /\ Unassigns(q, c, a)
            /\ q # r => req'[q] = req[q]
            /\ req'[q].pc = "rmdir" => req[q].pc = "rmdir"
      BY <1>0, <2>3, <2>3a, Zenon DEF Assigns, Unassigns
    <3>4. CASE Unassigns(r, c, a)
      <4>1. a \notin Dir(c).appids /\ (\A q \in DOMAIN req : ~Assigns(q, c, a))
            /\ Listed(c, a) = {}
        BY <1>0, <1>1, <3>2, <3>4, Zenon DEF PairOK
      <4> QED
        BY <2>2, <3>2, <3>3, <4>1, Zenon DEF PairOK
    <3>5. CASE ~Unassigns(r, c, a)
      <4>1. \A q \in DOMAIN req :
              /\ Unassigns(q, c, a)' <=> Unassigns(q, c, a)
              /\ Unassigns(q, c, a) => req'[q] = req[q]
        BY <3>3, <3>5, Zenon
      <4> QED
        BY <2>2, <3>2, <3>3, <4>1, PairKept, Zenon
    <3> QED
      BY <3>4, <3>5, Zenon
  <2> QED
    BY <2>2, <2>4, <2>5, <2>6, Zenon DEF ApiInv
<1>2. ASSUME NEW e0 \in req[r].todo,
             adir' = [adir EXCEPT ![b] = IF adir[b] = Absent THEN Absent ELSE adir[b] \ {e0}],
             req' = [req EXCEPT ![r].todo = req[r].todo \ {e0}]
      PROVE  ApiInv'
  <2> DEFINE x == [req[r] EXCEPT !.todo = req[r].todo \ {e0}]
  <2>1. req' = [req EXCEPT ![r] = x]
    BY <1>0, <1>2, Zenon DEF ApiInv, TypeInv, ReqRec
  <2>2. /\ x \in ReqRec /\ x.pc = "entries" /\ x.val = b /\ x.todo = req[r].todo \ {e0}
    BY <1>0, <1>b, Zenon DEF ReqRec
  <2> HIDE DEF x
  <2>3. Moves(r, x)
    BY <1>0, <2>1, <2>2, Zenon DEF Moves, Holds
  <2>4. /\ DOMAIN req' = DOMAIN req /\ req' \in [DOMAIN req -> ReqRec] /\ req'[r] = x
        /\ \A q \in DOMAIN req : q # r => req'[q] = req[q]
        /\ HoldsInv'
    BY <2>2, <2>3, MovesType, Zenon DEF ApiInv
  <2>5. adir \in [Appids -> (SUBSET Entry) \cup {Absent}]
    BY Zenon DEF ApiInv, TypeInv
  <2>6. TypeInv'
    <3>1. adir' \in [Appids -> (SUBSET Entry) \cup {Absent}]
      BY <1>0, <1>2, <2>5, Zenon
    <3> QED
      BY <1>0, <2>4, <3>1, Zenon DEF ApiInv, TypeInv
  <2>7. PortInv'
    <3>1. PortStep
      BY <1>0, <2>2, <2>4, Zenon DEF PortStep
    <3>2. \A c \in Clusters : Dir(c)' = Dir(c)
      BY <1>0, DirFrame, Zenon
    <3> QED
      BY <1>0, <3>1, <3>2, PortKept, Zenon DEF ApiInv
  <2>8. \A c \in Clusters, a \in Appids :
          Listed(c, a)' = IF <<c, a>> = <<r.name, b>> THEN Listed(c, a) \ {e0}
                                                      ELSE Listed(c, a)
    <3>1. e0 \in Entry /\ e0.name = r.name
      BY <1>0, Zenon
    <3>2. ASSUME NEW a \in Appids, a # b PROVE adir'[a] = adir[a]
      BY <1>2, <2>5, <3>2, Zenon
    <3>3. adir[b] = Absent => adir'[b] = Absent
      BY <1>0, <1>2, <2>5, Zenon
    <3>4. adir[b] # Absent => adir'[b] = adir[b] \ {e0} /\ adir'[b] # Absent
      <4>1. adir[b] # Absent => adir'[b] = adir[b] \ {e0} /\ adir[b] \subseteq Entry
        BY <1>0, <1>2, <2>5, Zenon
      <4> QED
        BY <4>1, ApiAssumption, Zenon DEF Absent
    <3>5. ASSUME NEW c \in Clusters
          PROVE  Listed(c, b)' = IF c = r.name THEN Listed(c, b) \ {e0} ELSE Listed(c, b)
      <4>1. CASE adir[b] = Absent
        BY <3>3, <4>1, Zenon DEF Listed
      <4>2. CASE adir[b] # Absent
        BY <3>1, <3>4, <4>2, Zenon DEF Listed
      <4> QED
        BY <4>1, <4>2, Zenon
    <3>6. ASSUME NEW c \in Clusters, NEW a \in Appids, a # b PROVE Listed(c, a)' = Listed(c, a)
      BY <3>2, <3>6, Zenon DEF Listed
    <3> QED
      BY <3>5, <3>6, Zenon
  <2>9. PairInv'
    <3>1. SUFFICES ASSUME NEW c \in Clusters, NEW a \in Appids, <<c, a>> \notin messy
                   PROVE  PairOK(c, a)'
      BY <1>0, Zenon DEF PairInv
    <3>2. PairOK(c, a) /\ Dir(c)' = Dir(c)
      BY <1>0, <3>1, DirFrame, Zenon DEF ApiInv, PairInv
    <3>3. \A q \in DOMAIN req :
            /\ Assigns(q, c, a)' <=> Assigns(q, c, a)
            /\ Unassigns(q, c, a)' <=> Unassigns(q, c, a)
            /\ q # r => req'[q] = req[q]
            /\ req'[q].pc = "rmdir" => req[q].pc = "rmdir"
            /\ req'[q].pc = req[q].pc
      BY <1>0, <1>b, <2>2, <2>4 DEF Assigns, Unassigns
    <3>4. CASE Unassigns(r, c, a)
      <4>1. <<c, a>> = <<r.name, b>>
        BY <1>b, <3>4, Zenon DEF Unassigns
      <4>2. Listed(c, a)' = Listed(c, a) \ {e0}
        BY <2>8, <4>1, Zenon
      <4>3. req'[r].todo = req[r].todo \ {e0}
        BY <2>2, <2>4, Zenon
      <4>4. \A q \in DOMAIN req : ~Assigns(q, c, a)
        BY <3>2, <3>4, Zenon DEF PairOK
      <4> QED
        BY <2>4, <3>2, <3>3, <3>4, <4>2, <4>3, <4>4, Zenon DEF PairOK
    <3>5. CASE ~Unassigns(r, c, a)
      <4>1. <<c, a>> # <<r.name, b>>
        BY <1>0, <1>b, <3>5, Zenon DEF Unassigns
      <4>2. Listed(c, a)' = Listed(c, a)
        BY <2>8, <4>1, Zenon
      <4>3. \A q \in DOMAIN req : Unassigns(q, c, a) => req'[q] = req[q]
        BY <3>3, <3>5, Zenon
      <4> QED
        BY <2>4, <3>2, <3>3, <4>2, <4>3, PairKept, Zenon
    <3> QED
      BY <3>4, <3>5, Zenon
  <2> QED
    BY <2>4, <2>6, <2>7, <2>9, Zenon DEF ApiInv
<1> QED
  BY <1>1, <1>2, <1>b, Zenon DEF DeleteEntry
\* Every request keeps the invariant of the keys.
LEMMA RequestApiInv ==
  ASSUME ApiInv, NEW r \in DOMAIN req, Request(r)
  PROVE  ApiInv'
BY LooksApiInv, SequenceSetApiInv, SetPortApiInv, CreateAppidApiInv, ListAppidApiInv,
   RMAppidApiInv, AssignEntryApiInv, AssignKeyApiInv, DeleteKeyApiInv, ListEntriesApiInv,
   DeleteEntryApiInv, FailApiInv DEF Request, Looks

-----------------------------------------------------------------------------
(* The others that write the keys.                                         *)

\* Whatever leaves the requests and their keys alone; the state of a job may
\* change.
LEMMA OthersApiInv ==
  ASSUME ApiInv, UNCHANGED <<req, seq, cdir, adir, nextId, jobs, reset, messy>>,
         jstate' \in Seq(JStates), Len(jstate') = Len(jstate)
  PROVE  ApiInv'
<1>1. TypeInv' /\ HoldsInv'
  BY DEF ApiInv, TypeInv, HoldsInv, Holds
<1>2. CalmStep
  BY Zenon DEF CalmStep
<1>3. PortInv'
  BY <1>2, PortFrame, DirFrame, Zenon DEF ApiInv
<1>4. PairInv'
  BY <1>2, PairFrame, DirFrame, ListedFrame, Zenon DEF ApiInv
<1> QED
  BY <1>1, <1>3, <1>4, Zenon DEF ApiInv

\* The scheduler writes the info and the instances of a cluster.
LEMMA InstallApiInv ==
  ASSUME ApiInv, NEW j \in DOMAIN jobs, Install(j),
         UNCHANGED <<req, seq, adir, nextId, jobs, jstate, reset, messy>>
  PROVE  /\ ApiInv' /\ jobs[j].name \in Clusters
         /\ deployed' = deployed \cup {jobs[j].name}
         /\ \A c \in Clusters : c # jobs[j].name => Dir(c)' = Dir(c)
         /\ UNCHANGED <<jobs, jstate>>
<1>1. PICK n : n = jobs[j].name
  OBVIOUS
<1>2. j \in Nat /\ jobs[j] \in JobRec /\ deployed' = deployed \cup {n}
  BY <1>1 DEF Install, ApiInv, TypeInv
<1>3. n \in Clusters /\ 1..jobs[j].num \subseteq Nat
  BY <1>1, <1>2 DEF JobRec
<1>4. Dir(n) \in DirRec
  BY <1>3, Zenon DEF Dir, ApiInv, TypeInv, DirRec, Empty
<1>a. PICK insts \in IF j \in handled
                     THEN {Dir(n).insts \cup {i} : i \in 1..MaxNodes \ Dir(n).insts}
                     ELSE {1..jobs[j].num} :
        cdir' = [cdir EXCEPT ![n] = [Dir(n) EXCEPT !.info = j, !.insts = insts]]
  BY <1>1, Zenon DEF Install, SetDir
<1>b. insts \subseteq Nat
  <2>1. 1..MaxNodes \subseteq Nat /\ Dir(n).insts \subseteq Nat
    BY <1>4, ApiAssumption DEF DirRec
  <2> QED
    BY <1>3, <1>a, <2>1, Zenon
<1> DEFINE d0 == [Dir(n) EXCEPT !.info = j, !.insts = insts]
<1>5. d0 \in DirRec /\ d0.appids = Dir(n).appids /\ d0.port = Dir(n).port
  BY <1>2, <1>b, <1>4, Zenon DEF DirRec
<1>c. cdir' = [cdir EXCEPT ![n] = d0]
  BY <1>a, Zenon
<1> HIDE DEF d0
<1>6. Dir(n)' = d0 /\ \A c \in Clusters : c # n => Dir(c)' = Dir(c)
  BY <1>c, <1>3, <1>5, ApiAssumption, Zenon DEF Dir, ApiInv, TypeInv
<1>7. CalmStep /\ HoldsInv'
  BY Zenon DEF CalmStep, ApiInv, HoldsInv, Holds
<1>8. TypeInv'
  <2>1. cdir' \in [Clusters -> DirRec \cup {None}]
    BY <1>c, <1>3, <1>5, Zenon DEF ApiInv, TypeInv
  <2> QED
    BY <1>2, <2>1, Zenon DEF ApiInv, TypeInv
<1>9. PortInv'
  BY <1>2, <1>5, <1>6, <1>7, PortFrame, Zenon DEF ApiInv
<1>10. PairInv'
  <2>1. \A c \in Clusters : Dir(c)'.appids = Dir(c).appids
    BY <1>5, <1>6, Zenon
  <2> QED
    BY <1>2, <1>7, <2>1, PairFrame, ListedFrame, Zenon DEF ApiInv
<1> QED
  BY <1>1, <1>2, <1>3, <1>6, <1>7, <1>8, <1>9, <1>10, Zenon DEF ApiInv

\* The scheduler deploys a cluster, or fails to.
LEMMA DeployApiInv ==
  ASSUME ApiInv, NEW j \in DOMAIN jobs, Deploy(j)
  PROVE  /\ ApiInv' /\ UNCHANGED <<jobs, jstate>>
         /\ \/ UNCHANGED <<cdir, deployed>>
            \/ /\ jobs[j].name \in Clusters
               /\ deployed' = deployed \cup {jobs[j].name}
               /\ \A c \in Clusters : c # jobs[j].name => Dir(c)' = Dir(c)
<1>1. UNCHANGED <<req, seq, adir, nextId, jobs, jstate, reset, messy>>
  BY Zenon DEF Deploy
<1>2. CASE Install(j)
  BY <1>1, <1>2, InstallApiInv, Zenon
<1>3. CASE UNCHANGED <<cdir, istate, deployed>>
  <2>1. jstate' \in Seq(JStates) /\ Len(jstate') = Len(jstate)
    BY <1>1, Zenon DEF ApiInv, TypeInv
  <2> QED
    BY <1>1, <1>3, <2>1, OthersApiInv, Zenon
<1> QED
  BY <1>2, <1>3, Zenon DEF Deploy

\* The scheduler removes the directory of a cluster: an appid that was assigned
\* meanwhile makes its pair messy.
LEMMA DestroyApiInv ==
  ASSUME ApiInv, NEW j, Destroy(j)
  PROVE  /\ ApiInv' /\ UNCHANGED <<jobs, jstate, deployed>>
         /\ \A c \in Clusters : Dir(c)'.info \in {Dir(c).info, None}
<1>1. PICK n : n = jobs[j].name
  OBVIOUS
<1>2. /\ jobs[j] \in JobRec /\ cdir' = [cdir EXCEPT ![n] = None]
      /\ messy' = messy \cup {<<n, a>> : a \in {a \in Appids :
                    a \in Dir(n).appids \/ Unassigning(n, a) \/ Assigning(n, a)}}
      /\ UNCHANGED <<req, seq, adir, nextId, jobs, jstate, reset, deployed>>
  BY <1>1 DEF Destroy, SetDir, ApiInv, TypeInv
<1>3. n \in Clusters
  BY <1>1, <1>2, Zenon DEF JobRec
<1>4. Dir(n)' = Empty /\ \A c \in Clusters : c # n => Dir(c)' = Dir(c)
  BY <1>2, <1>3, Zenon DEF Dir, ApiInv, TypeInv
<1>5. CalmStep /\ HoldsInv'
  BY <1>2, Zenon DEF CalmStep, ApiInv, HoldsInv, Holds
<1>6. TypeInv'
  <2>1. cdir' \in [Clusters -> DirRec \cup {None}]
    BY <1>2, <1>3, Zenon DEF ApiInv, TypeInv
  <2> QED
    BY <1>2, <2>1, Zenon DEF ApiInv, TypeInv
<1>7. \A c \in Clusters : /\ Dir(c)'.port \in {Dir(c).port, None}
                          /\ Dir(c)'.info \in {Dir(c).info, None}
  BY <1>4 DEF Empty
<1>8. PortInv'
  BY <1>2, <1>5, <1>7, PortFrame, Zenon DEF ApiInv
<1>9. PairInv'
  <2>1. SUFFICES ASSUME NEW c \in Clusters, NEW a \in Appids, <<c, a>> \notin messy'
                 PROVE  PairOK(c, a)'
    BY Zenon DEF PairInv
  <2>2. PairOK(c, a) /\ Listed(c, a)' = Listed(c, a)
    BY <1>2, <2>1, ListedFrame, Zenon DEF ApiInv, PairInv
  <2>3. (a \in Dir(c).appids)' <=> a \in Dir(c).appids
    BY <1>2, <1>4, <2>1 DEF Empty
  <2>4. \A r \in DOMAIN req : /\ Assigns(r, c, a)' <=> Assigns(r, c, a)
                              /\ Unassigns(r, c, a)' <=> Unassigns(r, c, a)
    BY <1>2, Zenon DEF Assigns, Unassigns
  <2> QED
    BY <1>2, <2>2, <2>3, <2>4, PairKept, Zenon
<1> QED
  BY <1>2, <1>5, <1>6, <1>7, <1>8, <1>9, Zenon DEF ApiInv

-----------------------------------------------------------------------------
(* The job manager.                                                        *)

\* A balance past AwaitInfo belongs to a name that has been deployed.
JobInv ==
  /\ DoneIsDeployed
  /\ \A c \in Clusters : Dir(c).info # None => c \in deployed
  /\ undone \cup toscan \cup senders \subseteq DOMAIN jobs
  /\ watchq \in Seq(DOMAIN jobs)
  /\ bg \subseteq [job : DOMAIN jobs, phase : {"info", "states", "run"}]
  /\ \A b \in bg : b.phase # "info" => jobs[b.job].name \in deployed

IInv == ApiInv /\ JobInv
-----------------------------------------------------------------------------
(* Crashes, on the keys.                                                    *)

\* The server dies: every request that has begun ends where it is.
LEMMA CrashApiInv ==
  ASSUME ApiInv, Crash
  PROVE  ApiInv'
<1>1. /\ req' = [r \in DOMAIN req |-> IF req[r].pc = "start" THEN req[r]
                                      ELSE [req[r] EXCEPT !.pc = "end"]]
      /\ messy' = messy \cup UNION {Half(r) : r \in DOMAIN req}
      /\ UNCHANGED <<etcd, reset>>
  BY Zenon DEF Crash
<1>2. req \in [DOMAIN req -> ReqRec]
  BY Zenon DEF ApiInv, TypeInv
<1>3. ASSUME NEW r \in DOMAIN req
      PROVE  /\ req'[r] \in ReqRec /\ Holds(r, req'[r])
             /\ req'[r] = req[r] \/ req'[r].pc = "end"
  <2>1. CASE req[r].pc = "start"
    BY <1>1, <1>2, <2>1, Zenon DEF ApiInv, HoldsInv
  <2>2. CASE req[r].pc # "start"
    <3>1. req'[r] = [req[r] EXCEPT !.pc = "end"]
      BY <1>1, <2>2, Zenon
    <3>2. req'[r] \in ReqRec /\ req'[r].pc = "end"
      BY <1>2, <3>1, Zenon DEF ReqRec, Labels, Calm
    <3>3. Holds(r, req'[r])
      BY <3>2, Zenon DEF Holds
    <3> QED
      BY <3>2, <3>3, Zenon
  <2> QED
    BY <2>1, <2>2, Zenon
<1>4. DOMAIN req' = DOMAIN req /\ req' \in [DOMAIN req -> ReqRec]
  BY <1>1, <1>3, Zenon
<1>5. HoldsInv'
  <2>1. \A r \in DOMAIN req' : Holds(r, req'[r])
    BY <1>3, <1>4, Zenon
  <2> QED
    BY <2>1, Zenon DEF HoldsInv, Holds
<1>6. CalmStep
  BY <1>3, <1>4, Zenon DEF CalmStep, Calm
<1>7. TypeInv'
  BY <1>1, <1>4, TypeFrame, Zenon DEF ApiInv
<1>8. PortInv'
  BY <1>1, <1>6, PortFrame, DirFrame, Zenon DEF ApiInv, etcd
<1>9. PairInv'
  <2>1. messy \subseteq messy' /\ \A r \in DOMAIN req : Half(r) \subseteq messy'
    BY <1>1, Zenon
  <2> QED
    BY <1>1, <1>6, <2>1, PairFrame, DirFrame, ListedFrame DEF ApiInv, etcd
<1> QED
  BY <1>5, <1>7, <1>8, <1>9, Zenon DEF ApiInv
-----------------------------------------------------------------------------
(* The jobs.                                                                *)

\* The jobs are as they were when only the directories change.
LEMMA JobFrame ==
  ASSUME JobInv, UNCHANGED <<jobs, jstate, undone, toscan, senders, watchq, bg>>,
         deployed \subseteq deployed',
         \A c \in Clusters : Dir(c)'.info # None => c \in deployed'
  PROVE  JobInv'
BY Zenon DEF JobInv, DoneIsDeployed

\* The requests write neither jobs nor infos, but for saveJob.
LEMMA RequestKeeps ==
  ASSUME ApiInv, NEW r \in DOMAIN req, Request(r)
  PROVE  /\ UNCHANGED <<jobs, jstate, deployed>>
         /\ \A c \in Clusters : Dir(c)'.info = Dir(c).info
<1>1. r.name \in Clusters
  BY Zenon DEF ApiInv, TypeInv, Requests
<1>2. \A c \in Clusters : Dir(c) \in DirRec
  BY Zenon DEF Dir, Empty, ApiInv, TypeInv, DirRec
<1>3. ASSUME NEW d, d \in DirRec, d.info = Dir(r.name).info, SetDir(r.name, d)
      PROVE  \A c \in Clusters : Dir(c)'.info = Dir(c).info
  <2>1. Dir(r.name)' = d /\ \A c \in Clusters : c # r.name => Dir(c)' = Dir(c)
    BY <1>1, <1>3, ApiAssumption DEF Dir, SetDir, ApiInv, TypeInv
  <2> QED
    BY <1>3, <2>1, Zenon
<1>4. UNCHANGED <<jobs, jstate, deployed>>
  BY Zenon DEF Request, CheckName, SequenceGet, SequenceSet, SetPort, CheckAppids, CheckInfo,
         FindInstance, Scale, CreateAppid, ListAppid, RMAppid, StartAssign, CheckKey,
         AssignEntry, AssignKey, DeleteKey, ListEntries, DeleteEntry, Fail, etcd, apiHistory
<1>5. CASE SetPort(r)
  <2>1. req[r].val \in Nat
    BY <1>5, Zenon DEF SetPort, At, ApiInv, HoldsInv, Holds
  <2> DEFINE d == [Dir(r.name) EXCEPT !.port = req[r].val]
  <2>2. d \in DirRec /\ d.info = Dir(r.name).info
    BY <1>1, <1>2, <2>1, Zenon DEF DirRec
  <2>3. SetDir(r.name, d)
    BY <1>5, Zenon DEF SetPort
  <2> HIDE DEF d
  <2> QED
    BY <1>3, <1>4, <2>2, <2>3, Zenon
<1>6. CASE AssignKey(r)
  <2>1. PICK a : a = req[r].val
    OBVIOUS
  <2>2. a \in Appids
    BY <1>6, <2>1, Zenon DEF AssignKey, At, ApiInv, HoldsInv, Holds
  <2> DEFINE d == [Dir(r.name) EXCEPT !.appids = @ \cup {a}]
  <2>3. d \in DirRec /\ d.info = Dir(r.name).info
    BY <1>1, <1>2, <2>2, Zenon DEF DirRec
  <2>4. SetDir(r.name, d)
    BY <1>6, <2>1, Zenon DEF AssignKey
  <2> HIDE DEF d
  <2> QED
    BY <1>3, <1>4, <2>3, <2>4, Zenon
<1>7. CASE DeleteKey(r) /\ cdir' # cdir
  <2>1. PICK a \in r.apps : SetDir(r.name, [Dir(r.name) EXCEPT !.appids = @ \ {a}])
    BY <1>7, Zenon DEF DeleteKey
  <2> DEFINE d == [Dir(r.name) EXCEPT !.appids = @ \ {a}]
  <2>2. d \in DirRec /\ d.info = Dir(r.name).info
    BY <1>1, <1>2, Zenon DEF DirRec
  <2>3. SetDir(r.name, d)
    BY <2>1, Zenon
  <2> HIDE DEF d
  <2> QED
    BY <1>3, <1>4, <2>2, <2>3, Zenon
<1>8. CASE UNCHANGED cdir
  BY <1>4, <1>8, DirFrame, Zenon
<1>9. SetPort(r) \/ AssignKey(r) \/ (DeleteKey(r) /\ cdir' # cdir) \/ UNCHANGED cdir
  BY Zenon DEF Request, CheckName, SequenceGet, SequenceSet, CheckAppids, CheckInfo,
         FindInstance, Scale, CreateAppid, ListAppid, RMAppid, StartAssign, CheckKey,
         AssignEntry, ListEntries, DeleteEntry, Fail, etcd
<1> QED
  BY <1>5, <1>6, <1>7, <1>8, <1>9, Zenon
\* What requests, the scheduler and a crash leave of the manager is as it was.
LEMMA RequestStep ==
  ASSUME IInv, NEW r \in DOMAIN req, Request(r), UNCHANGED managerVars
  PROVE  IInv'
<1>1. ApiInv'
  BY RequestApiInv, Zenon DEF IInv
<1>2. JobInv'
  <2>1. /\ UNCHANGED <<jobs, jstate, deployed>>
        /\ \A c \in Clusters : Dir(c)'.info = Dir(c).info
    BY RequestKeeps, Zenon DEF IInv
  <2>2. \A c \in Clusters : Dir(c)'.info # None => c \in deployed'
    BY <2>1, Zenon DEF IInv, JobInv
  <2> QED
    BY <2>1, <2>2, JobFrame, Zenon DEF IInv, managerVars
<1> QED
  BY <1>1, <1>2, Zenon DEF IInv

\* The scheduler deploys, destroys and reports.
LEMMA ExternalStep ==
  ASSUME IInv, External, UNCHANGED managerVars
  PROVE  IInv'
<1>1. CASE \E j \in DOMAIN jobs : Deploy(j)
  <2>1. PICK j \in DOMAIN jobs : Deploy(j)
    BY <1>1, Zenon
  <2>2. /\ ApiInv' /\ UNCHANGED <<jobs, jstate>>
        /\ \/ UNCHANGED <<cdir, deployed>>
           \/ /\ jobs[j].name \in Clusters
              /\ deployed' = deployed \cup {jobs[j].name}
              /\ \A c \in Clusters : c # jobs[j].name => Dir(c)' = Dir(c)
    BY <2>1, DeployApiInv, Zenon DEF IInv
  <2>3. deployed \subseteq deployed'
    BY <2>2, Zenon
  <2>4. \A c \in Clusters : Dir(c)'.info # None => c \in deployed'
    BY <2>2, DirFrame, Zenon DEF IInv, JobInv
  <2> QED
    BY <2>2, <2>3, <2>4, JobFrame, Zenon DEF IInv, managerVars
<1>2. CASE \E j \in DOMAIN jobs : Destroy(j)
  <2>1. PICK j \in DOMAIN jobs : Destroy(j)
    BY <1>2, Zenon
  <2>2. /\ ApiInv' /\ UNCHANGED <<jobs, jstate, deployed>>
        /\ \A c \in Clusters : Dir(c)'.info \in {Dir(c).info, None}
    BY <2>1, DestroyApiInv, Zenon DEF IInv
  <2>3. \A c \in Clusters : Dir(c)'.info # None => c \in deployed'
    BY <2>2, Zenon DEF IInv, JobInv
  <2> QED
    BY <2>2, <2>3, JobFrame, Zenon DEF IInv, managerVars
<1>3. CASE \E c \in Clusters, i \in 1..MaxNodes : Report(c, i)
  <2>1. UNCHANGED <<req, seq, cdir, adir, nextId, jobs, jstate, reset, messy, deployed>>
    BY <1>3, Zenon DEF Report, apiHistory
  <2>2. ApiInv'
    BY <2>1, OthersApiInv, Zenon DEF IInv, ApiInv, TypeInv
  <2>3. \A c \in Clusters : Dir(c)'.info # None => c \in deployed'
    BY <2>1, DirFrame, Zenon DEF IInv, JobInv
  <2> QED
    BY <2>1, <2>2, <2>3, JobFrame, Zenon DEF IInv, managerVars
<1> QED
  BY <1>1, <1>2, <1>3, Zenon DEF External

\* A sequence over a set is one over a larger set.
LEMMA SeqWidens ==
  ASSUME NEW S, NEW T, S \subseteq T, NEW s \in Seq(S)
  PROVE  s \in Seq(T)
<1>1. s \in [1..Len(s) -> S] /\ Len(s) \in Nat
  BY SeqLength, Zenon
<1>2. s \in [1..Len(s) -> T]
  BY <1>1, Zenon
<1> QED
  BY <1>1, <1>2, SeqMade

\* A new job gets the next place, and the jobs before it keep theirs.
LEMMA SaveJobStep ==
  ASSUME IInv, NEW r \in DOMAIN req, SaveJob(r)
  PROVE  IInv'
<1>1. PICK j \in JobRec : jobs' = Append(jobs, j) /\ jstate' = Append(jstate, None)
  BY GenJobApiInv, Zenon DEF IInv, SaveJob
<1>2. ApiInv' /\ UNCHANGED <<cdir, apiHistory>>
  BY GenJobApiInv, Zenon DEF IInv, SaveJob
<1>3. /\ jobs \in Seq(JobRec) /\ jstate \in Seq(JStates) /\ Len(jstate) = Len(jobs)
      /\ UNCHANGED <<undone, toscan, senders, bg, deployed>>
      /\ watchq' = IF watching THEN Append(watchq, Len(jobs')) ELSE watchq
  BY <1>2, Zenon DEF IInv, ApiInv, TypeInv, SaveJob, apiHistory
<1>4. /\ DOMAIN jobs \subseteq DOMAIN jobs' /\ Len(jobs') \in DOMAIN jobs'
      /\ DOMAIN jobs' = DOMAIN jobs \cup {Len(jobs')}
      /\ \A i \in DOMAIN jobs : jobs'[i] = jobs[i] /\ jstate'[i] = jstate[i]
      /\ jstate'[Len(jobs')] = None
  BY <1>1, <1>3, SMT
<1>5. DoneIsDeployed'
  <2>1. None # "done"
    BY ApiAssumption, Zenon
  <2> QED
    BY <1>3, <1>4, <2>1, Zenon DEF IInv, JobInv, DoneIsDeployed
<1>6. watchq' \in Seq(DOMAIN jobs')
  <2>1. PICK D : D = DOMAIN jobs'
    OBVIOUS
  <2>2. watchq \in Seq(D)
    BY <1>4, <2>1, SeqWidens, Zenon DEF IInv, JobInv
  <2>3. Len(jobs') \in D
    BY <1>4, <2>1, Zenon
  <2>4. Append(watchq, Len(jobs')) \in Seq(D)
    BY <2>2, <2>3, SeqGrowShrink, Zenon
  <2> QED
    BY <1>3, <2>1, <2>2, <2>4, Zenon
<1>7. bg' \subseteq [job : DOMAIN jobs', phase : {"info", "states", "run"}]
  BY <1>3, <1>4, Zenon DEF IInv, JobInv
<1>8. \A b \in bg' : b.phase # "info" => jobs'[b.job].name \in deployed'
  BY <1>3, <1>4, Zenon DEF IInv, JobInv
<1>9. \A c \in Clusters : Dir(c)'.info # None => c \in deployed'
  BY <1>2, <1>3, DirFrame, Zenon DEF IInv, JobInv
<1>10. undone' \cup toscan' \cup senders' \subseteq DOMAIN jobs'
  BY <1>3, <1>4, Zenon DEF IInv, JobInv
<1> QED
  BY <1>2, <1>5, <1>6, <1>7, <1>8, <1>9, <1>10, Zenon DEF IInv, JobInv

\* The state of one job is written; a create job of a redis cluster that becomes
\* done has a name that has been deployed.
LEMMA StateWritten ==
  ASSUME IInv, NEW j \in DOMAIN jobs, NEW v \in {"pending", "deploying", "done"},
         jstate' = [jstate EXCEPT ![j] = v], UNCHANGED <<jobs, deployed>>,
         v = "done" => \/ jobs[j].name \notin RedisClusters
                       \/ jobs[j].name \in deployed
  PROVE  DoneIsDeployed' /\ jstate' \in Seq(JStates) /\ Len(jstate') = Len(jstate)
<1>1. jstate \in Seq(JStates) /\ v \in JStates /\ Len(jstate) = Len(jobs) /\ jobs \in Seq(JobRec)
  BY Zenon DEF IInv, ApiInv, TypeInv, JStates
<1>2. Written(jstate, jstate', j, v)
  BY Zenon DEF Written
<1>3. /\ jstate' \in Seq(JStates) /\ Len(jstate') = Len(jstate)
      /\ \A i \in DOMAIN jstate : jstate'[i] = IF i = j THEN v ELSE jstate[i]
  BY <1>1, <1>2, WriteSeq
<1>4. DOMAIN jstate = DOMAIN jobs
  BY <1>1
<1>5. DoneIsDeployed'
  BY <1>3, <1>4, Zenon DEF IInv, JobInv, DoneIsDeployed
<1> QED
  BY <1>3, <1>5, Zenon

\* saveJob marks its job pending.
LEMMA SetPendingStep ==
  ASSUME IInv, NEW r \in DOMAIN req, SetPending(r)
  PROVE  IInv'
<1>1. /\ ApiInv' /\ UNCHANGED <<cdir, jobs, apiHistory>>
      /\ jstate' = [jstate EXCEPT ![req[r].val] = "pending"]
  BY PendingApiInv, Zenon DEF IInv, SetPending
<1>2. UNCHANGED <<jobs, deployed, undone, toscan, senders, watchq, bg>>
  BY <1>1, Zenon DEF SetPending, managerVars, apiHistory
<1>3. DoneIsDeployed'
  <2>1. CASE req[r].val \in DOMAIN jobs
    BY <1>1, <1>2, <2>1, StateWritten, Zenon
  <2>2. CASE req[r].val \notin DOMAIN jobs
    <3>1. jstate \in Seq(JStates) /\ Len(jstate) = Len(jobs) /\ jobs \in Seq(JobRec)
      BY Zenon DEF IInv, ApiInv, TypeInv
    <3>2. DOMAIN jstate = DOMAIN jobs
      BY <3>1
    <3>3. \A i \in DOMAIN jstate : jstate'[i] = jstate[i]
      BY <1>1, <2>2, <3>2, Zenon
    <3> QED
      BY <1>2, <3>2, <3>3, Zenon DEF IInv, JobInv, DoneIsDeployed
  <2> QED
    BY <2>1, <2>2, Zenon
<1>4. \A c \in Clusters : Dir(c)'.info # None => c \in deployed'
  BY <1>1, <1>2, DirFrame, Zenon DEF IInv, JobInv
<1> QED
  BY <1>1, <1>2, <1>3, <1>4, Zenon DEF IInv, JobInv
\* A step of the manager that writes no key but the state of a job keeps the rest
\* of etcd.
LEMMA ManagerKeys ==
  ASSUME IInv, UNCHANGED <<req, seq, cdir, adir, nextId, jobs, apiHistory>>,
         jstate' \in Seq(JStates), Len(jstate') = Len(jstate)
  PROVE  ApiInv' /\ \A c \in Clusters : Dir(c)'.info # None => c \in deployed'
<1>1. UNCHANGED <<reset, messy, deployed>>
  BY Zenon DEF apiHistory
<1>2. ApiInv'
  BY <1>1, OthersApiInv, Zenon DEF IInv
<1>3. \A c \in Clusters : Dir(c)'.info # None => c \in deployed'
  BY <1>1, DirFrame, Zenon DEF IInv, JobInv
<1> QED
  BY <1>2, <1>3, Zenon

\* The scheduler marks a job it deploys.
LEMMA StartDeployStep ==
  ASSUME IInv, NEW j \in DOMAIN jobs, StartDeploy(j)
  PROVE  IInv'
<1>1. /\ UNCHANGED <<req, seq, cdir, adir, nextId, jobs, apiHistory>>
      /\ \/ UNCHANGED jstate
         \/ jstate' = [jstate EXCEPT ![j] = "deploying"]
  BY Zenon DEF StartDeploy, DeployState
<1>2. UNCHANGED <<deployed, undone, toscan, senders, watchq, bg>>
  BY <1>1, Zenon DEF StartDeploy, managerVars, apiHistory
<1>3. DoneIsDeployed' /\ jstate' \in Seq(JStates) /\ Len(jstate') = Len(jstate)
  <2>1. CASE UNCHANGED jstate
    BY <1>1, <1>2, <2>1, Zenon DEF IInv, JobInv, ApiInv, TypeInv, DoneIsDeployed
  <2>2. CASE jstate' = [jstate EXCEPT ![j] = "deploying"]
    BY <1>1, <1>2, <2>2, StateWritten, Zenon
  <2> QED
    BY <1>1, <2>1, <2>2, Zenon
<1>4. ApiInv' /\ \A c \in Clusters : Dir(c)'.info # None => c \in deployed'
  BY <1>1, <1>3, ManagerKeys, Zenon
<1> QED
  BY <1>1, <1>2, <1>3, <1>4, Zenon DEF IInv, JobInv

\* The loop of the manager, but for the body of scanJobs: no state is written.
LEMMA LoopStep ==
  ASSUME IInv, Boot \/ WatchJob \/ EndScan \/ FetchNewJob
  PROVE  IInv'
<1>1. UNCHANGED <<req, seq, cdir, adir, nextId, jobs, jstate, apiHistory, bg>>
  BY Zenon DEF Boot, WatchJob, EndScan, FetchNewJob, apiVars, etcd
<1>2. jstate' \in Seq(JStates) /\ Len(jstate') = Len(jstate) /\ UNCHANGED deployed
  BY <1>1, Zenon DEF IInv, ApiInv, TypeInv, apiHistory
<1>3. ApiInv' /\ \A c \in Clusters : Dir(c)'.info # None => c \in deployed'
  BY <1>1, <1>2, ManagerKeys, Zenon
<1>4. DoneIsDeployed'
  BY <1>1, <1>2, Zenon DEF IInv, JobInv, DoneIsDeployed
<1>5. /\ undone' \cup toscan' \cup senders' \subseteq DOMAIN jobs
      /\ watchq' \in Seq(DOMAIN jobs)
  <2>1. /\ undone \cup toscan \cup senders \subseteq DOMAIN jobs
        /\ watchq \in Seq(DOMAIN jobs)
    BY Zenon DEF IInv, JobInv
  <2>2. CASE Boot
    <3>1. toscan' = undone' \/ UNCHANGED <<undone, toscan>>
      BY <2>2, Zenon DEF Boot
    <3>2. undone' \subseteq GetJobs \/ UNCHANGED <<undone, toscan>>
      BY <2>2, Zenon DEF Boot
    <3>3. UNCHANGED <<watchq, senders>>
      BY <2>2, Zenon DEF Boot
    <3> QED
      BY <2>1, <3>1, <3>2, <3>3, Zenon DEF GetJobs
  <2>3. CASE WatchJob
    BY <2>1, <2>3, Zenon DEF WatchJob
  <2>4. CASE EndScan
    BY <2>1, <2>4, Zenon DEF EndScan
  <2>5. CASE FetchNewJob
    <3>1. PICK D : D = DOMAIN jobs
      OBVIOUS
    <3>2. watchq \in Seq(D) /\ senders \subseteq D
      BY <2>1, <3>1, Zenon
    <3>3. watchq # <<>> => Head(watchq) \in D /\ Tail(watchq) \in Seq(D)
      BY <3>2, SeqGrowShrink, Zenon
    <3>4. Waiting \subseteq D
      BY <3>2, <3>3, Zenon DEF Waiting
    <3>5. toscan' = undone'
      BY <2>5, Zenon DEF FetchNewJob
    <3>6. CASE Waiting = {}
      BY <2>1, <2>5, <3>5, <3>6 DEF FetchNewJob
    <3>7. CASE Waiting # {}
      <4>1. PICK j \in Waiting :
              /\ undone' = undone \cup {j}
              /\ IF j \in senders THEN senders' = senders \ {j} /\ UNCHANGED watchq
                 ELSE watchq' = Tail(watchq) /\ UNCHANGED senders
        BY <2>5, <3>7, Zenon DEF FetchNewJob
      <4>2. j \notin senders => watchq # <<>>
        BY <4>1, Zenon DEF Waiting
      <4>3. watchq' \in Seq(D) /\ senders' \subseteq D
        BY <3>2, <3>3, <4>1, <4>2, Zenon
      <4> QED
        BY <2>1, <3>1, <3>4, <3>5, <4>1, <4>3
    <3> QED
      BY <3>6, <3>7, Zenon
  <2> QED
    BY <2>2, <2>3, <2>4, <2>5, Zenon
<1>6. /\ bg' \subseteq [job : DOMAIN jobs', phase : {"info", "states", "run"}]
      /\ \A b \in bg' : b.phase # "info" => jobs'[b.job].name \in deployed'
  BY <1>1, <1>2, Zenon DEF IInv, JobInv
<1> QED
  BY <1>1, <1>3, <1>4, <1>5, <1>6 DEF IInv, JobInv

\* The body of scanJobs marks done only jobs of other types than redis cluster.
LEMMA ScanJobStep ==
  ASSUME IInv, NEW j \in Ids, ScanJob(j)
  PROVE  IInv'
<1>1. /\ UNCHANGED <<req, seq, cdir, adir, nextId, jobs, apiHistory, undone, watchq, senders>>
      /\ toscan' = toscan \ {j} /\ j \in DOMAIN jobs
  BY Zenon DEF ScanJob, IInv, JobInv
<1>2. UNCHANGED deployed
  BY <1>1, Zenon DEF apiHistory
<1>3. bg' = bg \/ bg' = bg \cup {[job |-> j, phase |-> "info"]}
  BY Zenon DEF ScanJob
<1>4. \/ UNCHANGED jstate
      \/ jobs[j].name \notin RedisClusters /\ jstate' = [jstate EXCEPT ![j] = "done"]
  BY Zenon DEF ScanJob
<1>5. DoneIsDeployed' /\ jstate' \in Seq(JStates) /\ Len(jstate') = Len(jstate)
  <2>1. CASE UNCHANGED jstate
    BY <1>1, <1>2, <2>1, Zenon DEF IInv, JobInv, ApiInv, TypeInv, DoneIsDeployed
  <2>2. CASE jobs[j].name \notin RedisClusters /\ jstate' = [jstate EXCEPT ![j] = "done"]
    BY <1>1, <1>2, <2>2, StateWritten, Zenon
  <2> QED
    BY <1>4, <2>1, <2>2, Zenon
<1>6. ApiInv' /\ \A c \in Clusters : Dir(c)'.info # None => c \in deployed'
  BY <1>1, <1>5, ManagerKeys, Zenon
<1>7. /\ bg' \subseteq [job : DOMAIN jobs', phase : {"info", "states", "run"}]
      /\ \A b \in bg' : b.phase # "info" => jobs'[b.job].name \in deployed'
  BY <1>1, <1>2, <1>3 DEF IInv, JobInv
<1>8. undone' \cup toscan' \cup senders' \subseteq DOMAIN jobs' /\ watchq' \in Seq(DOMAIN jobs')
  BY <1>1, Zenon DEF IInv, JobInv
<1> QED
  BY <1>5, <1>6, <1>7, <1>8 DEF IInv, JobInv

\* A crash forgets what the manager knew; the keys stay.
LEMMA CrashStep ==
  ASSUME IInv, Crash
  PROVE  IInv'
<1>1. ApiInv'
  BY CrashApiInv, Zenon DEF IInv
<1>2. /\ UNCHANGED <<cdir, jobs, jstate, deployed>>
      /\ undone' = {} /\ toscan' = {} /\ senders' = {} /\ watchq' = <<>> /\ bg' = {}
  BY Zenon DEF Crash, etcd
<1>3. DoneIsDeployed' /\ \A c \in Clusters : Dir(c)'.info # None => c \in deployed'
  BY <1>2, DirFrame, Zenon DEF IInv, JobInv, DoneIsDeployed
<1>4. watchq' \in Seq(DOMAIN jobs')
  BY <1>2
<1> QED
  BY <1>1, <1>2, <1>3, <1>4, Zenon DEF IInv, JobInv
\* A balance that goes on, gives its job back or ends, with the state it writes.
LEMMA BalanceMoves ==
  ASSUME IInv, UNCHANGED <<req, seq, cdir, adir, nextId, jobs, apiHistory, undone, toscan, watchq>>,
         jstate' \in Seq(JStates), Len(jstate') = Len(jstate), DoneIsDeployed',
         senders' \subseteq DOMAIN jobs,
         \A b \in bg' : \/ b \in bg
                        \/ /\ b \in [job : DOMAIN jobs, phase : {"info", "states", "run"}]
                           /\ jobs[b.job].name \in deployed
  PROVE  IInv'
<1>1. ApiInv' /\ \A c \in Clusters : Dir(c)'.info # None => c \in deployed'
  BY ManagerKeys, Zenon
<1>2. UNCHANGED deployed
  BY Zenon DEF apiHistory
<1>3. /\ bg' \subseteq [job : DOMAIN jobs', phase : {"info", "states", "run"}]
      /\ \A b \in bg' : b.phase # "info" => jobs'[b.job].name \in deployed'
  BY <1>2, Zenon DEF IInv, JobInv
<1>4. undone' \cup toscan' \cup senders' \subseteq DOMAIN jobs' /\ watchq' \in Seq(DOMAIN jobs')
  BY Zenon DEF IInv, JobInv
<1> QED
  BY <1>1, <1>3, <1>4, Zenon DEF IInv, JobInv

\* bgBalance: only AwaitInfo lets a balance pass, and it has seen the info.
LEMMA BalanceStep ==
  ASSUME IInv, NEW b \in bg, AwaitInfo(b) \/ AwaitStates(b) \/ Balance(b)
  PROVE  IInv'
<1>1. /\ b \in [job : DOMAIN jobs, phase : {"info", "states", "run"}]
      /\ b.job \in DOMAIN jobs /\ jobs[b.job].name \in Clusters
      /\ b.phase # "info" => jobs[b.job].name \in deployed
  <2>1. b \in [job : DOMAIN jobs, phase : {"info", "states", "run"}]
    BY Zenon DEF IInv, JobInv
  <2>2. b.phase # "info" => jobs[b.job].name \in deployed
    BY Zenon DEF IInv, JobInv
  <2>3. b.job \in DOMAIN jobs
    BY <2>1, Zenon
  <2>4. jobs \in Seq(JobRec)
    BY Zenon DEF IInv, ApiInv, TypeInv
  <2>5. jobs[b.job] \in JobRec
    BY <2>3, <2>4
  <2>6. jobs[b.job].name \in Clusters
    BY <2>5, Zenon DEF JobRec
  <2> QED
    BY <2>1, <2>2, <2>3, <2>6, Zenon
<1>2. CASE Crash
  BY <1>2, CrashStep, Zenon
<1>3. CASE UNCHANGED apiVars /\ UNCHANGED <<undone, toscan, watchq>>
           /\ (SendBack(b) \/ ((\E p \in {"states", "run"} : BalanceTo(b, p)) /\ UNCHANGED senders
                               /\ jobs[b.job].name \in deployed))
  <2>1. UNCHANGED <<req, seq, cdir, adir, nextId, jobs, jstate, apiHistory, undone, toscan, watchq>>
    BY <1>3, Zenon DEF apiVars, etcd
  <2>2. jstate' \in Seq(JStates) /\ Len(jstate') = Len(jstate) /\ DoneIsDeployed'
    BY <2>1, Zenon DEF IInv, ApiInv, TypeInv, JobInv, DoneIsDeployed, apiHistory
  <2>3. senders' \subseteq DOMAIN jobs
    BY <1>1, <1>3, Zenon DEF SendBack, IInv, JobInv
  <2>4. CASE SendBack(b)
    <3>1. \A x \in bg' : x \in bg
      BY <2>4, Zenon DEF SendBack
    <3> QED
      BY <2>1, <2>2, <2>3, <3>1, BalanceMoves, Zenon
  <2>5. CASE (\E p \in {"states", "run"} : BalanceTo(b, p)) /\ jobs[b.job].name \in deployed
    <3>1. PICK p \in {"states", "run"} : BalanceTo(b, p)
      BY <2>5, Zenon
    <3> DEFINE x == [b EXCEPT !.phase = p]
    <3>2. x \in [job : DOMAIN jobs, phase : {"info", "states", "run"}] /\ x.job = b.job
      BY <1>1, Zenon
    <3>3. bg' = (bg \ {b}) \cup {x}
      BY <3>1, Zenon DEF BalanceTo
    <3> HIDE DEF x
    <3>4. \A y \in bg' : y \in bg \/ (/\ y \in [job : DOMAIN jobs, phase : {"info", "states", "run"}]
                                      /\ jobs[y.job].name \in deployed)
      BY <2>5, <3>2, <3>3, Zenon
    <3> QED
      BY <2>1, <2>2, <2>3, <3>4, BalanceMoves
  <2> QED
    BY <1>3, <2>4, <2>5, Zenon
<1>4. CASE Balanced(b) /\ b.phase = "run"
  <2>1. /\ UNCHANGED <<req, seq, cdir, adir, nextId, jobs, apiHistory, undone, toscan, watchq, senders>>
        /\ bg' = bg \ {b}
        /\ UNCHANGED jstate \/ jstate' = [jstate EXCEPT ![b.job] = "done"]
    BY <1>4, Zenon DEF Balanced
  <2>2. UNCHANGED deployed
    BY <2>1, Zenon DEF apiHistory
  <2>3. jobs[b.job].name \in deployed
    BY <1>1, <1>4, Zenon
  <2>4. DoneIsDeployed' /\ jstate' \in Seq(JStates) /\ Len(jstate') = Len(jstate)
    <3>1. CASE UNCHANGED jstate
      BY <2>1, <2>2, <3>1 DEF IInv, JobInv, ApiInv, TypeInv, DoneIsDeployed
    <3>2. CASE jstate' = [jstate EXCEPT ![b.job] = "done"]
      BY <1>1, <2>1, <2>2, <2>3, <3>2, StateWritten, Zenon
    <3> QED
      BY <2>1, <3>1, <3>2, Zenon
  <2>5. senders' \subseteq DOMAIN jobs /\ \A x \in bg' : x \in bg
    BY <2>1, Zenon DEF IInv, JobInv
  <2> QED
    BY <2>1, <2>4, <2>5, BalanceMoves, Zenon
<1>5. CASE AwaitInfo(b)
  <2>1. CASE HasInfo(jobs[b.job].name) /\ ~Crash
    <3>1. jobs[b.job].name \in deployed
      BY <1>1, <2>1, Zenon DEF HasInfo, IInv, JobInv
    <3> QED
      BY <1>3, <1>5, <2>1, <3>1 DEF AwaitInfo
  <2> QED
    BY <1>2, <1>5, <2>1, Zenon DEF AwaitInfo
<1>6. CASE AwaitStates(b)
  BY <1>1, <1>3, <1>6, Zenon DEF AwaitStates
<1>7. CASE Balance(b)
  BY <1>2, <1>3, <1>4, <1>7, Zenon DEF Balance
<1> QED
  BY <1>5, <1>6, <1>7, Zenon
-----------------------------------------------------------------------------
(* The theorems.                                                            *)

\* A fresh platform, with or without a port sequence.
LEMMA InitIInv == Init => IInv
<1> SUFFICES ASSUME Init PROVE IInv
  OBVIOUS
<1>1. PICK S \in Scenarios :
        /\ req = [r \in S.reqs |-> [pc |-> "start", val |-> None, todo |-> r.apps]]
        /\ seq = S.seq
  BY Zenon DEF Init, ApiInit
<1>2. /\ cdir = [c \in Clusters |-> None] /\ adir = [a \in Appids |-> {}] /\ nextId = 0
      /\ jobs = <<>> /\ jstate = <<>>
      /\ undone = {} /\ toscan = {} /\ senders = {} /\ watchq = <<>> /\ bg = {}
  BY Zenon DEF Init, ApiInit
<1>3. DOMAIN req = S.reqs /\ DOMAIN req \subseteq Requests /\ seq \in Nat \cup {None}
  BY <1>1, ApiAssumption, Zenon
<1>4. \A r \in DOMAIN req : req[r] \in ReqRec /\ req[r].pc = "start"
  BY <1>1, <1>3, Zenon DEF ReqRec, Labels, Calm, Requests
<1>5. \A c \in Clusters : Dir(c) = Empty
  BY <1>2, Zenon DEF Dir
<1>6. TypeInv
  <2>1. req \in [DOMAIN req -> ReqRec]
    BY <1>1, <1>3, <1>4, Zenon
  <2>2. jobs \in Seq(JobRec) /\ jstate \in Seq(JStates) /\ Len(jstate) = Len(jobs)
    BY <1>2
  <2> QED
    BY <1>2, <1>3, <2>1, <2>2 DEF TypeInv
<1>7. HoldsInv
  BY <1>4, Zenon DEF HoldsInv, Holds
<1>8. PortInv
  BY <1>4, <1>5 DEF PortInv, HasPort, At, Empty
<1>9. PairInv
  <2>1. SUFFICES ASSUME NEW c \in Clusters, NEW a \in Appids PROVE PairOK(c, a)
    BY Zenon DEF PairInv
  <2>2. Listed(c, a) = {} /\ a \notin Dir(c).appids
    BY <1>2, <1>5 DEF Listed, Empty
  <2> QED
    BY <1>4, <2>2, Zenon DEF PairOK, Assigns, Unassigns
<1>10. JobInv
  <2>1. DOMAIN jobs = {} /\ watchq \in Seq(DOMAIN jobs)
    BY <1>2
  <2> QED
    BY <1>2, <1>5, <2>1 DEF JobInv, DoneIsDeployed, Empty
<1> QED
  BY <1>6, <1>7, <1>8, <1>9, <1>10 DEF IInv, ApiInv

\* Every step keeps the invariant.
LEMMA NextIInv == IInv /\ [Next]_vars => IInv'
<1> SUFFICES ASSUME IInv, [Next]_vars PROVE IInv'
  OBVIOUS
<1>1. CASE \E r \in DOMAIN req : Request(r) /\ UNCHANGED managerVars
  BY <1>1, RequestStep, Zenon
<1>2. CASE External /\ UNCHANGED managerVars
  BY <1>2, ExternalStep, Zenon
<1>8. CASE \E j \in DOMAIN jobs : StartDeploy(j)
  BY <1>8, StartDeployStep, Zenon
<1>3. CASE \E r \in DOMAIN req : SaveJob(r) \/ SetPending(r)
  BY <1>3, SaveJobStep, SetPendingStep, Zenon
<1>4. CASE Manager
  BY <1>4, LoopStep, ScanJobStep, Zenon DEF Manager
<1>5. CASE \E j \in Ids : BgBalance(j)
  BY <1>5, BalanceStep, Zenon DEF BgBalance
<1>6. CASE Crash
  BY <1>6, CrashStep, Zenon
<1>7. CASE UNCHANGED vars
  <2>1. UNCHANGED <<req, seq, cdir, adir, nextId, jobs, jstate, apiHistory, undone, toscan,
                    watchq, senders, bg>>
    BY <1>7, Zenon DEF vars, apiVars, etcd, managerVars
  <2>2. jstate' \in Seq(JStates) /\ Len(jstate') = Len(jstate) /\ DoneIsDeployed'
        /\ senders' \subseteq DOMAIN jobs
    BY <2>1, Zenon DEF IInv, ApiInv, TypeInv, JobInv, DoneIsDeployed, apiHistory
  <2> QED
    BY <2>1, <2>2, BalanceMoves, Zenon
<1> QED
  BY <1>1, <1>2, <1>3, <1>4, <1>5, <1>6, <1>7, <1>8 DEF Next

\* The invariant holds of the requests, the keys and the manager at all times.
THEOREM PlatformInvariance == Spec => []IInv
BY InitIInv, NextIInv, PTL DEF Spec

\* Sequence gives every cluster a front-end port of its own, unless the key was
\* set to 20000 a second time.
THEOREM PortsStayDistinct == Spec => []PortsDistinct
<1>1. IInv => PortsDistinct
  BY Zenon DEF IInv, ApiInv, PortInv, PortsDistinct
<1> QED
  BY <1>1, PlatformInvariance, PTL

\* The directories of clusters and appids agree on every pair that no request is
\* in the middle of, unless two requests clashed on it or one stopped half way.
THEOREM AppidsStayAgreed == Spec => []AppidsAgree
<1>1. IInv => AppidsAgree
  BY PairsAgree, Zenon DEF IInv, ApiInv
<1> QED
  BY <1>1, PlatformInvariance, PTL

\* The manager marks the create job of a redis cluster done only once the cluster
\* of that name has been deployed.
THEOREM DoneMeansDeployed == Spec => []DoneIsDeployed
<1>1. IInv => DoneIsDeployed
  BY Zenon DEF IInv, JobInv
<1> QED
  BY <1>1, PlatformInvariance, PTL

=============================================================================
