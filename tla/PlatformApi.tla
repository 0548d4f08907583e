----------------------------- MODULE PlatformApi -----------------------------
(***************************************************************************)
(* The API server of the cache platform: the requests of clients on the    *)
(* keys of etcd (platform/api/dao), one etcd call per step, and the keys   *)
(* themselves.  The requests run beside one another, on one server or on   *)
(* several.  The mesos scheduler (see Scheduler) is here what it does to   *)
(* these keys: it deploys, destroys and reports instance states.           *)
(***************************************************************************)
EXTENDS Integers, Sequences, FiniteSets

CONSTANTS Clusters,
          RedisClusters,   \* the names used for type redis_cluster
          Appids,
          Scenarios,       \* [seq, faults, reqs]: the sequence at the start (None on
                           \* a fresh platform), how many of the MaxFaults may happen,
                           \* requests [op, name, apps, total, spec]
          MaxNodes,        \* 1024 in the code
          MaxFaults,       \* bound on failing calls, failing instances, crashes
          None

Ops == {"create", "destroy", "restart", "scale", "addappid", "delappid", "assign",
        "unassign"}
Requests == [op : Ops, name : Clusters, apps : SUBSET Appids, total : Nat,
             spec : Nat \ {0}]

DirRec == [port : Nat \cup {None}, info : Nat \cup {None}, appids : SUBSET Appids,
           insts : SUBSET Nat]
Entry == [id : Nat, name : Clusters]

ASSUME ApiAssumption ==
  /\ RedisClusters \subseteq Clusters /\ MaxFaults \in Nat /\ MaxNodes \in Nat
  /\ \A S \in Scenarios : /\ S.seq \in Nat \cup {None} /\ S.faults \in 0..MaxFaults
                          /\ S.reqs \subseteq Requests
  /\ None \notin Nat \cup DirRec \cup Entry \cup {"pending", "deploying", "done"}

VARIABLES req,      \* [requests -> [pc, val, todo]]
          seq,      \* port_sequence, counted from 20000; None if absent
          cdir,     \* clusters/<name>: None or [port, info, appids, insts]
          adir,     \* appids/<appid>: Absent or its entries [id, name]
          nextId,   \* the index CreateInOrder takes its names from
          jobs,     \* jobs/<group>: a job's id is its place
          jstate,   \* job_detail/.../state of each job
          istate,   \* instances/<addr>/state of each instance
          handled,  \* jobs the scheduler has dealt with
          deploying, \* the job it is deploying, None if there is none
          faults,
          reset,    \* history: port_sequence was set to 20000 a second time
          messy,    \* history: <<cluster, appid>> pairs two requests clashed on
          deployed  \* history: names that have had an info

etcd == <<seq, cdir, adir, nextId, jobs, jstate, istate>>
apiHistory == <<reset, messy, deployed>>
apiVars == <<req, etcd, handled, deploying, faults, apiHistory>>

Absent == {None}   \* no set of entries
Empty == [port |-> None, info |-> None, appids |-> {}, insts |-> {}]
Dir(c) == IF cdir[c] = None THEN Empty ELSE cdir[c]
SetDir(c, d) == cdir' = [cdir EXCEPT ![c] = d]

At(r, label) == r \in DOMAIN req /\ req[r].pc = label
Goto(r, label, val) == req' = [req EXCEPT ![r].pc = label, ![r].val = val]
End(r) == Goto(r, "end", None)
Fault == faults < MaxFaults /\ faults' = faults + 1

ApiInit ==
  /\ \E S \in Scenarios :
       /\ req = [r \in S.reqs |-> [pc |-> "start", val |-> None, todo |-> r.apps]]
       /\ seq = S.seq /\ faults = MaxFaults - S.faults
  /\ cdir = [c \in Clusters |-> None] /\ adir = [a \in Appids |-> {}] /\ nextId = 0
  /\ jobs = <<>> /\ jstate = <<>>
  /\ istate = [c \in Clusters |-> [i \in 1..MaxNodes |-> None]]
  /\ handled = {} /\ deploying = None /\ reset = FALSE /\ messy = {} /\ deployed = {}
-----------------------------------------------------------------------------
(* The number of nodes CreateCluster asks for; 0 and too many are refused,  *)
(* a redis cluster gets an even number.                                     *)
Quotient(r) == r.total \div r.spec
Number(r) ==
  IF r.name \in RedisClusters /\ Quotient(r) % 2 # 0 THEN Quotient(r) + 1 ELSE Quotient(r)

(* CreateCluster up to checkClusterName. *)
CheckName(r) ==
  /\ At(r, "start") /\ r.op = "create"
  /\ IF Quotient(r) = 0 \/ Quotient(r) > MaxNodes \/ cdir[r.name] # None
     THEN End(r) ELSE Goto(r, "seq", None)
  /\ UNCHANGED <<etcd, handled, deploying, faults, apiHistory>>

(* Sequence: Get, then Set 20000 if there was nothing, else compare and     *)
(* swap; a failed swap starts again.                                        *)
SequenceGet(r) ==
  /\ At(r, "seq")
  /\ Goto(r, "seqset", seq)
  /\ UNCHANGED <<etcd, handled, deploying, faults, apiHistory>>
\* A bug: the new value is set whatever the key holds now.
SwapsAlways(r) == TRUE
Swaps(r) == seq = req[r].val
SequenceSet(r) ==
  /\ At(r, "seqset")
  /\ \/ /\ req[r].val = None
        /\ seq' = 0 /\ Goto(r, "port", 0)
        /\ reset' = (reset \/ seq # None)
     \/ /\ req[r].val # None /\ Swaps(r)
        /\ seq' = req[r].val + 1 /\ Goto(r, "port", req[r].val + 1)
        /\ UNCHANGED reset
     \/ /\ req[r].val # None /\ ~Swaps(r)
        /\ Goto(r, "seq", None)
        /\ UNCHANGED <<seq, reset>>
  /\ UNCHANGED <<cdir, adir, nextId, jobs, jstate, istate, handled, deploying, faults, messy, deployed>>

(* The front-end port is the first key of the cluster: the name is taken. *)
SetPort(r) ==
  /\ At(r, "port")
  /\ SetDir(r.name, [Dir(r.name) EXCEPT !.port = req[r].val])
  /\ Goto(r, "job", None)
  /\ UNCHANGED <<seq, adir, nextId, jobs, jstate, istate, handled, deploying, faults, apiHistory>>

(* saveJob: GenID under jobs/, then the state under job_detail/. *)
GenJob(r) ==
  /\ At(r, "job")
  /\ jobs' = Append(jobs, [op |-> r.op, name |-> r.name,
                           num |-> IF r.op = "create" THEN Number(r) ELSE 0])
  /\ jstate' = Append(jstate, None)
  /\ Goto(r, "pending", Len(jobs) + 1)
  /\ UNCHANGED <<seq, cdir, adir, nextId, istate, handled, deploying, faults, apiHistory>>
Pending(r) ==
  /\ At(r, "pending")
  /\ jstate' = [jstate EXCEPT ![req[r].val] = "pending"]
  /\ Goto(r, IF r.op = "create" /\ r.apps # {} THEN "assign" ELSE "end", None)
  /\ UNCHANGED <<seq, cdir, adir, nextId, jobs, istate, handled, deploying, faults, apiHistory>>

(* RemoveCluster: refused while appids are assigned, else a destroy job. *)
CheckAppids(r) ==
  /\ At(r, "start") /\ r.op = "destroy"
  /\ IF Dir(r.name).appids # {} THEN End(r) ELSE Goto(r, "info", None)
  /\ UNCHANGED <<etcd, handled, deploying, faults, apiHistory>>
CheckInfo(r) ==
  /\ At(r, "info")
  /\ IF Dir(r.name).info = None THEN End(r)
     ELSE Goto(r, IF r.op = "assign" THEN "check" ELSE "job", None)
  /\ UNCHANGED <<etcd, handled, deploying, faults, apiHistory>>

(* RestartInstance: a job if GetCluster names the node (one with a state).  *)
FindInstance(r) ==
  /\ At(r, "start") /\ r.op = "restart"
  /\ IF \E i \in Dir(r.name).insts : istate[r.name][i] # None
     THEN Goto(r, "job", None) ELSE End(r)
  /\ UNCHANGED <<etcd, handled, deploying, faults, apiHistory>>
(* ScaleCluster decodes the info through a nil pointer: an error each time. *)
Scale(r) ==
  /\ At(r, "start") /\ r.op = "scale"
  /\ End(r)
  /\ UNCHANGED <<etcd, handled, deploying, faults, apiHistory>>
-----------------------------------------------------------------------------
(* CreateAppid: Mkdir of a directory that must not exist. *)
CreateAppid(r) ==
  /\ At(r, "start") /\ r.op = "addappid"
  /\ adir' = [a \in Appids |-> IF a \in r.apps /\ adir[a] = Absent THEN {} ELSE adir[a]]
  /\ End(r)
  /\ UNCHANGED <<seq, cdir, nextId, jobs, jstate, istate, handled, deploying, faults, apiHistory>>

(* RemoveAppid: LS, and RMDir of an appid without entries. *)
\* A bug: the entries are not looked at.
UnusedAlways(a) == adir[a] # Absent
Unused(a) == adir[a] # Absent /\ adir[a] = {}
ListAppid(r) ==
  /\ At(r, "start") /\ r.op = "delappid"
  /\ IF \A a \in r.apps : Unused(a) THEN Goto(r, "rmdir", None) ELSE End(r)
  /\ UNCHANGED <<etcd, handled, deploying, faults, apiHistory>>
RMAppid(r) ==
  /\ At(r, "rmdir")
  /\ adir' = [a \in Appids |-> IF a \in r.apps THEN Absent ELSE adir[a]]
  /\ End(r)
  /\ UNCHANGED <<seq, cdir, nextId, jobs, jstate, istate, handled, deploying, faults, apiHistory>>

(* AssignAppid: the info and the key are looked at first. *)
StartAssign(r) ==
  /\ At(r, "start") /\ r.op = "assign"
  /\ Goto(r, "info", None)
  /\ UNCHANGED <<etcd, handled, deploying, faults, apiHistory>>
CheckKey(r) ==
  /\ At(r, "check")
  /\ IF r.apps \subseteq Dir(r.name).appids THEN End(r) ELSE Goto(r, "assign", None)
  /\ UNCHANGED <<etcd, handled, deploying, faults, apiHistory>>

(* assignAppids: for each appid an entry under appids/, then the key under  *)
(* the cluster.  Both writes create the directory they need.                *)
Unassigning(c, a) == \E q \in DOMAIN req : q.op = "unassign" /\ q.name = c
                       /\ a \in q.apps /\ req[q].pc \in {"list", "entries"}
AssignEntry(r, a) ==
  /\ At(r, "assign") /\ a \in req[r].todo
  /\ adir' = [adir EXCEPT ![a] = (IF @ = Absent THEN {} ELSE @)
                                   \cup {[id |-> nextId, name |-> r.name]}]
  /\ nextId' = nextId + 1
  /\ Goto(r, "key", a)
  /\ messy' = messy \cup
       {<<r.name, b>> : b \in {b \in {a} :
          \/ Unassigning(r.name, a)
          \/ \E q \in DOMAIN req : q.op = "delappid" /\ a \in q.apps /\ req[q].pc = "rmdir"}}
  /\ UNCHANGED <<seq, cdir, jobs, jstate, istate, handled, deploying, faults, reset, deployed>>
AssignKey(r) ==
  /\ At(r, "key")
  /\ LET a == req[r].val IN
     /\ SetDir(r.name, [Dir(r.name) EXCEPT !.appids = @ \cup {a}])
     /\ req' = [req EXCEPT ![r] = [pc |-> IF @.todo = {a} THEN "end" ELSE "assign",
                                   val |-> None, todo |-> @.todo \ {a}]]
  /\ UNCHANGED <<seq, adir, nextId, jobs, jstate, istate, handled, deploying, faults, apiHistory>>

(* UnassignAppid: the key is deleted (an error if it is absent), then every *)
(* entry LS finds for the cluster.                                          *)
Assigning(c, a) == \E q \in DOMAIN req : q.op \in {"assign", "create"} /\ q.name = c
                                         /\ req[q].pc = "key" /\ req[q].val = a
DeleteKey(r) ==
  /\ At(r, "start") /\ r.op = "unassign"
  /\ \E a \in r.apps :
       IF a \in Dir(r.name).appids
       THEN /\ SetDir(r.name, [Dir(r.name) EXCEPT !.appids = @ \ {a}])
            /\ Goto(r, "list", a)
            /\ messy' = messy \cup (IF Assigning(r.name, a) THEN {<<r.name, a>>} ELSE {})
       ELSE End(r) /\ UNCHANGED <<cdir, messy>>
  /\ UNCHANGED <<seq, adir, nextId, jobs, jstate, istate, handled, deploying, faults, reset, deployed>>
ListEntries(r) ==
  /\ At(r, "list")
  /\ LET a == req[r].val IN
     IF adir[a] = Absent THEN End(r)
     ELSE req' = [req EXCEPT ![r].pc = "entries",
                             ![r].todo = {e \in adir[a] : e.name = r.name}]
  /\ UNCHANGED <<etcd, handled, deploying, faults, apiHistory>>
DeleteEntry(r) ==
  /\ At(r, "entries")
  /\ LET a == req[r].val IN
     IF req[r].todo = {} THEN End(r) /\ UNCHANGED adir
     ELSE \E e \in req[r].todo :
            /\ adir' = [adir EXCEPT ![a] = IF @ = Absent THEN Absent ELSE @ \ {e}]
            /\ req' = [req EXCEPT ![r].todo = @ \ {e}]
  /\ UNCHANGED <<seq, cdir, nextId, jobs, jstate, istate, handled, deploying, faults, apiHistory>>

(* The pairs a request has written one side of. *)
Half(r) ==
  IF req[r].pc \in {"key", "list", "entries"} THEN {<<r.name, req[r].val>>} ELSE {}
(* An etcd call fails: the request returns, but for a failed swap.  A call  *)
(* that fails after it was carried out is a failure of the next one.        *)
Fail(r) ==
  /\ r \in DOMAIN req /\ req[r].pc # "end" /\ Fault
  /\ IF req[r].pc = "seqset" /\ req[r].val # None THEN Goto(r, "seq", None) ELSE End(r)
  /\ messy' = messy \cup Half(r)
  /\ UNCHANGED <<etcd, handled, deploying, reset, deployed>>
-----------------------------------------------------------------------------
(* The scheduler, as far as these keys go; it does one job at a time.       *)
(* Create of both kinds of job writes the state key of the job in the info  *)
(* before the info, whatever the key says; an error is ignored.  The job is *)
(* the create job, and once more that job when a task of a singleton is     *)
(* recovered on another host.                                               *)
Recovers(j) ==
  LET c == jobs[j].name IN
  /\ j \in handled /\ c \notin RedisClusters /\ Dir(c).info = j
  /\ 1..MaxNodes \ Dir(c).insts # {}
DeployState(j) ==
  /\ deploying = None /\ j \in DOMAIN jobs /\ jobs[j].op = "create"
  /\ \/ /\ j \notin handled /\ UNCHANGED faults
        /\ jstate' = [jstate EXCEPT ![j] = "deploying"]
     \/ j \notin handled /\ Fault /\ UNCHANGED jstate
     \/ /\ Recovers(j) /\ Fault
        /\ jstate' = [jstate EXCEPT ![j] = "deploying"]
  /\ deploying' = j
  /\ UNCHANGED <<req, seq, cdir, adir, nextId, jobs, istate, handled, apiHistory>>

(* The info and the instance directories.  A recovery adds an address. *)
Install(j) ==
  LET c == jobs[j].name IN
  /\ \E insts \in IF j \in handled
                   THEN {Dir(c).insts \cup {i} : i \in 1..MaxNodes \ Dir(c).insts}
                   ELSE {1..jobs[j].num} :
       SetDir(c, [Dir(c) EXCEPT !.info = j, !.insts = insts])
  /\ istate' = [istate EXCEPT ![c] = [i \in 1..MaxNodes |-> None]]
  /\ deployed' = deployed \cup {c}
(* A failing Create or Accept leaves the job on the scheduler's list; the   *)
(* end of the process takes it off.                                         *)
Deploy(j) ==
  /\ deploying = j /\ deploying' = None
  /\ \/ Install(j) /\ handled' = handled \cup {j} /\ UNCHANGED faults
     \/ Fault /\ Install(j) /\ UNCHANGED handled
     \/ /\ Fault /\ handled' \in {handled, handled \cup {j}}
        /\ UNCHANGED <<cdir, istate, deployed>>
  /\ UNCHANGED <<req, seq, adir, nextId, jobs, jstate, reset, messy>>
Destroy(j) ==
  /\ deploying = None
  /\ j \in DOMAIN jobs \ handled /\ jobs[j].op = "destroy"
  /\ LET c == jobs[j].name IN
     /\ Dir(c).info # None
     /\ SetDir(c, None)
     /\ istate' = [istate EXCEPT ![c] = [i \in 1..MaxNodes |-> None]]
     /\ messy' = messy \cup {<<c, a>> : a \in {a \in Appids :
                   a \in Dir(c).appids \/ Unassigning(c, a) \/ Assigning(c, a)}}
  /\ handled' = handled \cup {j}
  /\ UNCHANGED <<req, seq, adir, nextId, jobs, jstate, deploying, faults, reset, deployed>>
Report(c, i) ==
  /\ i \in Dir(c).insts
  /\ \/ /\ istate[c][i] # "running"
        /\ istate' = [istate EXCEPT ![c][i] = "running"] /\ UNCHANGED faults
     \/ /\ istate[c][i] # "fail" /\ Fault
        /\ istate' = [istate EXCEPT ![c][i] = "fail"]
  /\ UNCHANGED <<req, seq, cdir, adir, nextId, jobs, jstate, handled, deploying, apiHistory>>

Request(r) ==
  \/ CheckName(r) \/ SequenceGet(r) \/ SequenceSet(r) \/ SetPort(r)
  \/ CheckAppids(r) \/ CheckInfo(r) \/ FindInstance(r) \/ Scale(r)
  \/ CreateAppid(r) \/ ListAppid(r) \/ RMAppid(r)
  \/ StartAssign(r) \/ CheckKey(r) \/ (\E a \in Appids : AssignEntry(r, a)) \/ AssignKey(r)
  \/ DeleteKey(r) \/ ListEntries(r) \/ DeleteEntry(r) \/ Fail(r)
External == \/ \E j \in DOMAIN jobs : Deploy(j) \/ Destroy(j)
            \/ \E c \in Clusters, i \in 1..MaxNodes : Report(c, i)
-----------------------------------------------------------------------------
(***************************************************************************)
(* Two clusters never have the same front-end port: Sequence compares and  *)
(* swaps.  The exception is the first allocation, which sets 20000 without *)
(* comparing: a second such Set takes the sequence back.                   *)
(***************************************************************************)
PortsDistinct ==
  \A c, d \in Clusters :
    c # d /\ Dir(c).port # None /\ Dir(c).port = Dir(d).port => reset

(***************************************************************************)
(* The two directories that store which appid uses which cluster agree,    *)
(* but for a pair some request is in the middle of.  They come apart only  *)
(* when a request fails half way, when an assign and an unassign of the    *)
(* pair overlap between their writes, when the appid is removed between an *)
(* LS that found it unused and an assign, or when the cluster is destroyed *)
(* with an appid assigned after RemoveCluster looked.                      *)
(***************************************************************************)
AppidsAgree ==
  \A c \in Clusters, a \in Appids :
    \/ <<c, a>> \in messy
    \/ \E r \in DOMAIN req : <<c, a>> \in Half(r)
    \/ a \in Dir(c).appids <=> (adir[a] # Absent /\ \E e \in adir[a] : e.name = c)
=============================================================================
