------------------------------ MODULE Scheduler ------------------------------
(***************************************************************************)
(* The mesos framework: the scheduler (scheduler.go) that turns jobs into  *)
(* tasks, the executors (executor.go) that run them, and the keys of etcd  *)
(* the two share.  The handlers of the scheduler run one at a time, the    *)
(* watchers of jobs (taskEvent) and the executors beside them.  An address *)
(* is a host with one port; which addresses a job gets is the subject of   *)
(* Placement, here it is any choice among the free offered ones.           *)
(***************************************************************************)
EXTENDS Integers, Sequences, FiniteSets, SequencesExt

CONSTANTS Hosts, Clusters,
          RedisClusters,   \* the clusters of type redis_cluster
          Scenarios,       \* sets of jobs clients submit: [op, name, num, node]
          MaxRetry,        \* maxRetry (5 in the code)
          FailCap,         \* capacity of failTask (100 in the code)
          MaxId,           \* bound on the attempt number of a task id
          MaxFaults,       \* bound on steps with failing calls, deaths, crashes
          None

ASSUME SchedulerAssumption ==
  /\ RedisClusters \subseteq Clusters
  /\ MaxRetry \in Nat /\ FailCap \in Nat \ {0} /\ MaxFaults \in Nat

Jobs == UNION Scenarios
(* ip:port-cluster-attempt *)
Ids == [host : Hosts, name : Clusters, n : 0..MaxId]

VARIABLES unsent,    \* jobs no client has submitted yet
          task,      \* s.task, the jobs that its links lead to from the front
          torn,      \* a racing push has left s.task inconsistent
          failTask,  \* s.failTask
          revived,   \* mesos sends offers
          held,      \* hosts whose offer was neither accepted nor declined
          pc, work,  \* where the running handler is, and its locals
          info,      \* clusters/<name>/info: the addresses, None if absent
          listed,    \* clusters/<name>/instances: the addresses listed there
          dirs,      \* instances/<addr>: the cluster it is configured for
          taskid,    \* instances/<addr>/taskid
          state,     \* instances/<addr>/state
          launched,  \* tasks mesos has handed to an executor
          up,        \* services an executor has started: [id, conf, told]
          killing,   \* kill calls on their way
          updates,   \* status updates on their way: <<id, status>>
          faults,    \* faults so far
          causes,    \* history: what has made a cluster lose track of tasks
          tried,     \* history: jobs a handler has looked at
          stranded,  \* history: a suppression left an untried job behind
          misread    \* history: addresses where a change of the state has not
                     \* been recorded, or that got the update of a dead task

jobs == <<task, torn>>
etcd == <<info, listed, dirs, taskid, state>>
mesos == <<launched, up, killing, updates>>
history == <<causes, tried, stranded, misread>>
vars == <<unsent, jobs, failTask, revived, held, pc, work, etcd, mesos, faults, history>>

Live == launched \cup {u.id : u \in up}
Free(h) == \A id \in Live : id.host # h
Idle == [cur |-> 0, offers |-> {}, taken |-> {}, rest |-> {}, ids |-> {}, id |-> None,
         force |-> FALSE, name |-> None, create |-> FALSE]

TypeOK ==
  /\ unsent \subseteq Jobs /\ task \in Seq(Jobs) /\ torn \in BOOLEAN
  /\ failTask \in Seq(Ids) /\ Len(failTask) <= FailCap
  /\ revived \in BOOLEAN /\ stranded \in BOOLEAN /\ held \subseteq Hosts
  /\ pc \in {"idle", "loop", "recover", "origin", "append", "accept", "create",
             "suppress", "panic"}
  /\ info \in [Clusters -> SUBSET Hosts \cup {None}]
  /\ listed \in [Clusters -> SUBSET Hosts]
  /\ dirs \in [Hosts -> Clusters \cup {None}]
  /\ taskid \in [Hosts -> Ids \cup {None}] /\ state \in [Hosts -> {"running", "fail", None}]
  /\ launched \subseteq Ids /\ up \subseteq [id : Ids, conf : Clusters, told : BOOLEAN]
  /\ killing \subseteq Ids /\ faults \in 0..MaxFaults

Init ==
  /\ unsent \in Scenarios /\ task = <<>> /\ torn = FALSE /\ failTask = <<>>
  /\ revived = TRUE /\ held = {} /\ pc = "idle" /\ work = Idle
  /\ info = [c \in Clusters |-> None] /\ listed = [c \in Clusters |-> {}]
  /\ dirs = [h \in Hosts |-> None] /\ taskid = [h \in Hosts |-> None]
  /\ state = [h \in Hosts |-> None]
  /\ launched = {} /\ up = {} /\ killing = {} /\ updates = {}
  /\ faults = 0 /\ causes = [c \in Clusters |-> {}] /\ tried = {} /\ stranded = FALSE
  /\ misread = {}

(* A step in which calls to etcd or mesos fail: which of them is a choice. *)
Fault == faults < MaxFaults /\ faults' = faults + 1
(* The handler goes on, or returns: a job it has handled leaves the list. *)
Goto(label) == pc' = label /\ UNCHANGED jobs
Return ==
  /\ pc' = "idle" /\ work' = Idle
  /\ task' = IF work.cur = 0 THEN task ELSE RemoveAt(task, work.cur)
  /\ UNCHANGED torn
(* causes after an operation on c that rewrites the directories of done, *)
(* those of a running task of another cluster perhaps among them.        *)
Blame(c, why, done) ==
  causes' = [x \in Clusters |->
    causes[x] \cup (IF x = c THEN why ELSE {})
              \cup (IF x # c /\ \E id \in Live : id.name = x /\ id.host \in done
                    THEN {"rewritten"} ELSE {})]
-----------------------------------------------------------------------------
(* PushBack.  No lock keeps it from a handler's Remove of the last element: *)
(* the new element may then be linked to the removed one only, or a link    *)
(* that is nil already be followed.  After such a push the length of the    *)
(* list is wrong, and later elements may hang on the lost one.              *)
Racing == work.cur # 0 /\ work.cur = Len(task) /\ pc # "panic"
Push(j) ==
  \/ task' = Append(task, j) /\ UNCHANGED <<torn, pc>>
  \/ (torn \/ Racing) /\ torn' = TRUE /\ UNCHANGED <<task, pc>>
  \/ Racing /\ pc' = "panic" /\ UNCHANGED jobs

(* taskEvent: a watched job is pushed on the list, then offers are revived. *)
TaskEvent(j) ==
  /\ j \in unsent
  /\ unsent' = unsent \ {j}
  /\ Push(j)
  /\ \/ revived' = TRUE /\ UNCHANGED <<faults, stranded>>
     \/ Fault /\ stranded' = (stranded \/ ~revived) /\ UNCHANGED revived
  /\ UNCHANGED <<failTask, held, work, etcd, mesos, causes, tried, misread>>

(* resourceOffers: one failed task is recovered, or else the jobs are tried *)
(* in order until one is dispatched.  Mesos does not offer again what it    *)
(* has offered, unless the offer is declined.                               *)
ResourceOffers(hs) ==
  /\ pc = "idle" /\ revived /\ hs # {} /\ hs \cap held = {}
  /\ IF failTask # <<>>
     THEN /\ work' = [Idle EXCEPT !.offers = hs, !.id = Head(failTask)]
          /\ failTask' = Tail(failTask)
          /\ pc' = "recover"
     ELSE /\ work' = [Idle EXCEPT !.cur = 1, !.offers = hs]
          /\ pc' = "loop"
          /\ UNCHANGED failTask
  /\ UNCHANGED <<unsent, jobs, revived, held, etcd, mesos, faults, history>>

(* The loop of resourceOffers has come to the end of the list.  Front goes  *)
(* by the length: on a torn list without elements it returns the root.      *)
NoMoreTasks ==
  /\ pc = "loop" /\ work.cur > Len(task)
  /\ pc' = IF torn /\ task = <<>> THEN "panic" ELSE "suppress"
  /\ UNCHANGED <<unsent, jobs, failTask, revived, held, work, etcd, mesos, faults, history>>

Unanswered == work.offers \ work.taken
(* Decline, a call for each offer; errors are not looked at. *)
Declined(hs) ==
  \/ UNCHANGED <<held, faults>>
  \/ Fault /\ \E lost \in SUBSET hs : held' = held \cup lost

(* declineAndSuppress; the errors of both calls are ignored. *)
Suppressed ==
  /\ \/ revived' = FALSE /\ UNCHANGED <<held, faults>>
     \/ Fault /\ revived' \in {FALSE, revived} /\ held' \in {held, held \cup Unanswered}
  /\ stranded' = (stranded \/ (~revived' /\ \E i \in DOMAIN task : task[i] \notin tried'))
Suppress ==
  /\ pc = "suppress"
  /\ tried' = tried
  /\ Suppressed
  /\ pc' = "idle" /\ work' = Idle
  /\ UNCHANGED <<unsent, jobs, failTask, etcd, mesos, causes, misread>>
-----------------------------------------------------------------------------
(* Create of the two kinds of job lists the addresses anew, writes the info *)
(* and then every instance directory: cleaned first, which takes the taskid *)
(* and the state of the address with it, then type, conf, jobid and the     *)
(* rest.  done are the addresses it has finished, cleaned those it has      *)
(* cleaned: a finished one is not if the cleaning failed, which is only     *)
(* logged; one that is cleaned and not finished lacks some key.             *)
Without(t, hs) == [h \in Hosts |-> IF h \in hs THEN None ELSE t[h]]
InstanceDirs(c, done, cleaned) ==
  [h \in Hosts |-> IF h \in done THEN c ELSE IF h \in cleaned THEN None ELSE dirs[h]]
Create(c, addrs, done, cleaned) ==
  /\ info' = [info EXCEPT ![c] = addrs]
  /\ dirs' = InstanceDirs(c, done, cleaned)
  /\ state' = Without(state, cleaned)
  /\ misread' = (misread \ cleaned) \cup (done \ cleaned)
Cuts(addrs, done) == {{}} \cup {{h} : h \in addrs \ done}

(* setupInstanceDir and setupIDMap remove the listing and number the        *)
(* addresses again.  The removal and the Set of an address that has its     *)
(* number already may fail unnoticed; what Listed says is then a choice.    *)
Listed(c, addrs) == listed' = [listed EXCEPT ![c] = addrs]
Numbered(c, addrs, fresh) ==
  \E hs \in SUBSET (addrs \cup listed[c]) :
    /\ (IF c \in RedisClusters THEN addrs ELSE fresh) \subseteq hs
    /\ Listed(c, hs)
NumberingFails(c, addrs) ==
  /\ \E hs \in SUBSET (addrs \cup listed[c]) : Listed(c, hs)
  /\ UNCHANGED <<info, dirs, taskid, state, misread>>
(* A write fails somewhere that Create looks at; Mkdir of a directory that  *)
(* was not cleaned is one.                                                  *)
CreateFails(c, addrs) ==
  \/ NumberingFails(c, addrs)
  \/ \E done \in SUBSET addrs : \E cut \in Cuts(addrs, done) :
       /\ Create(c, addrs, done, done \cup cut)
       /\ taskid' = Without(taskid, done \cup cut)
       /\ Listed(c, addrs)

(* SetTaskID for the tasks about to be launched, attempt 0. *)
NewIds(c, hs) == {[host |-> h, name |-> c, n |-> 0] : h \in hs}
WithIds(t, ids) ==
  [h \in Hosts |-> IF \E id \in ids : id.host = h
                   THEN CHOOSE id \in ids : id.host = h ELSE t[h]]

(* What Accept does on a host: the task starts if its port was offered. *)
LaunchOn(h, ids) ==
  LET here == {id \in ids : id.host = h} IN
  IF Free(h)
  THEN launched' = launched \cup here /\ UNCHANGED updates
  ELSE updates' = updates \cup {<<id, "error">> : id \in here} /\ UNCHANGED launched

(* The dispatch of create and scale: dispatchCluster, dispatchSingleton.    *)
(* addrs are the addresses of the whole cluster, fresh those of the job,    *)
(* why what makes the cluster lose track of its tasks.  An error of Create  *)
(* ends the attempt; those of the cleaning, the numbering and SetTaskID are *)
(* ignored.                                                                 *)
ToAccept(c, ids) ==
  /\ work' = [work EXCEPT !.ids = ids, !.rest = work.offers, !.name = c, !.create = FALSE]
  /\ Goto("accept")
Deploy(c, addrs, fresh, why, rewritten) ==
  LET ids == NewIds(c, fresh) IN
  \/ /\ Create(c, addrs, addrs, addrs) /\ Listed(c, addrs)
     /\ taskid' = WithIds(Without(taskid, addrs), ids)
     /\ ToAccept(c, ids)
     /\ Blame(c, why, rewritten)
     /\ UNCHANGED faults
  \/ /\ Fault
     /\ \E dirty \in SUBSET (IF c \in RedisClusters THEN {} ELSE addrs),
          unset \in SUBSET ids :
          /\ Create(c, addrs, addrs, addrs \ dirty) /\ Numbered(c, addrs, fresh)
          /\ taskid' = WithIds(Without(taskid, addrs \ dirty), ids \ unset)
          /\ ToAccept(c, ids)
          /\ Blame(c, why \cup (IF unset = {} THEN {} ELSE {"unset"}), rewritten)
  \/ /\ Fault
     /\ CreateFails(c, addrs)
     /\ work' = [work EXCEPT !.cur = @ + 1]
     /\ Goto("loop")
     /\ Blame(c, why, rewritten)

Job == task[work.cur]
At(op) == pc = "loop" /\ work.cur <= Len(task) /\ Job.op = op
\* A bug: the loop does not move on from a refused job.
RefusedStays == UNCHANGED <<jobs, pc, work, etcd, causes, misread>>
Refused ==
  /\ work' = [work EXCEPT !.cur = @ + 1]
  /\ UNCHANGED <<jobs, pc, etcd, causes, misread>>
Panic == Goto("panic") /\ UNCHANGED <<work, etcd, causes, misread>>

(* What Chunks, ChunksAppend and DistIt may answer. *)
Plans(used) ==
  {D \in SUBSET {h \in work.offers \ used : Free(h)} : Cardinality(D) = Job.num}

DispatchCreate ==
  /\ At("create")
  /\ LET c == Job.name
         again == IF info[c] = None THEN {} ELSE {"again"}
     IN IF Plans({}) = {} THEN Refused /\ UNCHANGED faults
        ELSE \E D \in Plans({}) : Deploy(c, D, D, again, {})
  /\ tried' = tried \cup {Job}
  /\ UNCHANGED <<unsent, failTask, revived, held, mesos, stranded>>

(* DistAppendIt, the number of instances for each host: one for the hosts   *)
(* the cluster does not use, the rest in turn over all that are offered.    *)
(* It does not look at ports: one more than a host has is an index panic.   *)
DistAppendIt(used, num) ==
  LET unused == work.offers \ used
      first == IF num < Cardinality(unused) THEN num ELSE Cardinality(unused)
      all == Cardinality(work.offers)
      One(h, D) == IF h \in D THEN 1 ELSE 0
  IN {[h \in work.offers |-> One(h, D) + (num - first) \div all + One(h, E)] :
        D \in kSubset(first, unused), E \in kSubset((num - first) % all, work.offers)}
Chosen(count) == {h \in DOMAIN count : count[h] > 0}
Fits(count) == \A h \in Chosen(count) : Free(h) /\ count[h] = 1

(* A singleton is scaled by Num more addresses if Num is at least what it   *)
(* has; otherwise it is left as it is, and so are the offers.  A redis      *)
(* cluster is scaled by Num.                                                *)
DispatchScale ==
  /\ At("scale")
  /\ LET c == Job.name
         old == info[c]
     IN \/ /\ \/ old = None /\ UNCHANGED faults
              \/ Fault                            \* the info is not read
           /\ Refused /\ UNCHANGED held
        \/ /\ old # None /\ c \in RedisClusters
           /\ IF Plans(old) = {} THEN Refused /\ UNCHANGED faults
              ELSE \E D \in Plans(old) : Deploy(c, old \cup D, D, {"scale"}, old)
           /\ UNCHANGED held
        \/ /\ old # None /\ c \notin RedisClusters /\ Job.num < Cardinality(old)
           /\ Return /\ held' = held \cup Unanswered
           /\ UNCHANGED <<etcd, faults, causes, misread>>
        \/ /\ old # None /\ c \notin RedisClusters /\ Job.num >= Cardinality(old)
           /\ \E count \in DistAppendIt(old, Job.num) :
                IF Fits(count)
                THEN Deploy(c, old \cup Chosen(count), Chosen(count), {"scale"}, old)
                ELSE Panic /\ UNCHANGED faults
           /\ UNCHANGED held
  /\ tried' = tried \cup {Job}
  /\ UNCHANGED <<unsent, failTask, revived, mesos, stranded>>

(* kill: of a task that runs; mesos ignores the others. *)
Kills(hs) == {taskid[h] : h \in hs} \cap Live

(* destroyCluster: suppress, kill what taskid names, remove the keys; a     *)
(* cluster without info, or whose info is not read, makes ci.Name a nil     *)
(* dereference.  A TaskID or a kill that fails is passed over (missed), so  *)
(* is a listing or a removal (kept, and the cluster's own keys): the rest   *)
(* is done all the same.                                                    *)
DispatchDestroy ==
  /\ At("destroy")
  /\ tried' = tried \cup {Job}
  /\ LET c == Job.name
     IN \/ /\ Suppressed
           /\ info[c] = None \/ faults' > faults
           /\ Panic /\ UNCHANGED killing
        \/ /\ info[c] # None
           /\ \E missed \in SUBSET info[c], kept \in SUBSET listed[c], stays \in BOOLEAN :
                /\ Suppressed
                /\ (missed = {} /\ kept = {} /\ ~stays) \/ faults' > faults
                /\ Blame(c, IF Kills(missed) = {} THEN {} ELSE {"unkilled"}, listed[c] \ kept)
                /\ killing' = killing \cup Kills(info[c] \ missed)
                /\ IF stays THEN UNCHANGED <<info, listed>>
                   ELSE info' = [info EXCEPT ![c] = None] /\ Listed(c, {})
                /\ dirs' = Without(dirs, listed[c] \ kept)
                /\ taskid' = Without(taskid, listed[c] \ kept)
                /\ state' = Without(state, listed[c] \ kept)
           /\ Return /\ UNCHANGED misread
  /\ UNCHANGED <<unsent, failTask, launched, up, updates>>

(* restartNode: a forced recovery of the node's task; the old one is not    *)
(* killed.  Without a task id, or if it is not read, nothing is done and    *)
(* the offers are kept.                                                     *)
DispatchRestart ==
  /\ At("restart")
  /\ \/ /\ \/ taskid[Job.node] = None /\ UNCHANGED faults
           \/ Fault
        /\ Return /\ held' = held \cup Unanswered
        /\ UNCHANGED causes
     \/ /\ taskid[Job.node] # None
        /\ Goto("recover")
        /\ work' = [work EXCEPT !.id = taskid[Job.node], !.force = TRUE]
        /\ Blame(taskid[Job.node].name, {"restart"}, {})
        /\ UNCHANGED <<held, faults>>
  /\ tried' = tried \cup {Job}
  /\ UNCHANGED <<unsent, failTask, revived, etcd, mesos, stranded, misread>>
-----------------------------------------------------------------------------
(* checkOffer: the first resource of the offer decides, so the answer says  *)
(* nothing about the port.                                                  *)
CheckOffer == BOOLEAN

(* tryRecovery up to the launch on the original host.  Whatever it returns  *)
(* with an error, it declines the offers.                                   *)
GiveUp == Return /\ Declined(Unanswered)
Recover ==
  /\ pc = "recover"
  /\ LET id == work.id
         again == [id EXCEPT !.n = @ + 1]
         Stale(c) == \/ \E x \in Live : x.host = id.host /\ x.name = c
                     \/ c = id.name /\ (id.host \notin info[c] \/ dirs[id.host] # c)
         Causes(why) == causes' = [c \in Clusters |->
           causes[c] \cup (IF Stale(c) THEN {"stale"} ELSE {})
                     \cup (IF c = id.name THEN why ELSE {})]
     IN IF (id.n > MaxRetry /\ ~work.force) \/ info[id.name] = None
        THEN GiveUp /\ UNCHANGED <<taskid, causes>>
        ELSE \/ /\ GiveUp /\ faults' > faults      \* the info is not read
                /\ UNCHANGED <<taskid, causes>>
             \/ /\ id.host \notin work.offers
                /\ Goto("append") /\ UNCHANGED <<work, held, taskid, causes, faults>>
             \/ /\ id.host \in work.offers /\ FALSE \in CheckOffer
                /\ GiveUp /\ UNCHANGED <<taskid, causes>>
             \/ /\ id.host \in work.offers /\ TRUE \in CheckOffer
                /\ Goto("origin") /\ UNCHANGED <<work, held>>
                /\ \/ /\ taskid' = [taskid EXCEPT ![id.host] = again]
                      /\ Causes({}) /\ UNCHANGED faults
                   \/ /\ Fault /\ UNCHANGED taskid
                      /\ Causes({"unset"})
  /\ UNCHANGED <<unsent, failTask, revived, info, listed, dirs, state, mesos, tried, stranded,
                 misread>>

(* The Accept on the original host.  A failed call may have reached mesos. *)
Origin ==
  /\ pc = "origin"
  /\ LET h == work.id.host
         ids == {[work.id EXCEPT !.n = @ + 1]}
     IN \/ Return /\ LaunchOn(h, ids) /\ Declined(Unanswered \ {h})
        \/ /\ Goto("append") /\ Fault
           /\ \/ LaunchOn(h, ids) /\ work' = [work EXCEPT !.taken = @ \cup {h}]
              \/ UNCHANGED <<work, launched, updates>>
           /\ UNCHANGED held
  /\ UNCHANGED <<unsent, failTask, revived, etcd, up, killing, history>>

(* "try to scale by append".  The old address stays, since ip:port is       *)
(* compared with ip and port.                                               *)
AppendHost ==
  /\ pc = "append"
  /\ LET c == work.id.name
     IN IF c \in RedisClusters
        THEN GiveUp /\ UNCHANGED <<taskid, causes>>
        ELSE /\ \E count \in DistAppendIt(info[c], 1) :
                  IF Fits(count)
                  THEN LET ids == NewIds(c, Chosen(count)) IN
                       /\ Goto("accept")
                       /\ work' = [work EXCEPT !.ids = ids, !.rest = work.offers,
                                               !.name = c, !.create = TRUE]
                       /\ \/ taskid' = WithIds(taskid, ids) /\ UNCHANGED faults
                          \/ UNCHANGED taskid /\ Fault
                       /\ Blame(c, {"append"}, {})
                  ELSE Goto("panic") /\ UNCHANGED <<work, taskid, causes, faults>>
             /\ UNCHANGED held
  /\ UNCHANGED <<unsent, failTask, revived, info, listed, dirs, state, mesos, tried, stranded,
                 misread>>

(* One Accept of acceptOffer or dispatchCluster.  A failed call may have    *)
(* reached mesos; the remaining offers are not accepted.  The dispatch of   *)
(* the next job gets the same offers, a recovery declines them.             *)
Accept(h) ==
  /\ pc = "accept" /\ h \in work.rest
  /\ \/ /\ LaunchOn(h, work.ids)
        /\ IF work.rest # {h}
           THEN work' = [work EXCEPT !.rest = @ \ {h}, !.taken = @ \cup {h}] /\ UNCHANGED <<jobs, pc>>
           ELSE IF work.create THEN Goto("create") /\ UNCHANGED work ELSE Return
        /\ UNCHANGED <<held, faults>>
     \/ /\ Fault
        /\ \E used \in SUBSET {h} :
             /\ IF used = {h} THEN LaunchOn(h, work.ids) ELSE UNCHANGED <<launched, updates>>
             /\ IF work.create
                THEN Return /\ \E lost \in SUBSET (Unanswered \ used) : held' = held \cup lost
                ELSE /\ Goto("loop") /\ UNCHANGED held
                     /\ work' = [work EXCEPT !.cur = @ + 1, !.taken = @ \cup used]
  /\ UNCHANGED <<unsent, failTask, revived, etcd, up, killing, history>>

(* The recovery writes the new distribution after it has launched on it. *)
CreateAppended ==
  /\ pc = "create"
  /\ LET c == work.name
         fresh == {id.host : id \in work.ids}
         addrs == info[c] \cup fresh
     IN /\ \/ /\ Create(c, addrs, addrs, addrs) /\ Listed(c, addrs)
              /\ taskid' = Without(taskid, addrs)
              /\ UNCHANGED faults
           \/ /\ Fault
              /\ \E dirty \in SUBSET addrs :
                   /\ Create(c, addrs, addrs, addrs \ dirty) /\ Numbered(c, addrs, fresh)
                   /\ taskid' = Without(taskid, addrs \ dirty)
           \/ Fault /\ CreateFails(c, addrs)
        /\ Blame(c, {"append"}, addrs)
  /\ Return
  /\ UNCHANGED <<unsent, failTask, revived, held, mesos, tried, stranded>>
-----------------------------------------------------------------------------
\* A bug: a failed task is queued for recovery and its state left "running".
MarkFailedLate(h) == state
MarkFailed(h) == [state EXCEPT ![h] = "fail"]

(* The updates mesos may deliver next: those of a task come in order. *)
Deliverable == {u \in updates : u[2] = "running" \/ <<u[1], "running">> \notin updates}

(* statusUpdate.  A full failTask drops the failure, its state included;    *)
(* the errors of Revive and of the Set of the state are ignored.            *)
StatusUpdate(u) ==
  /\ pc = "idle" /\ u \in Deliverable
  /\ updates' = updates \ {u}
  /\ LET h == u[1].host IN
     \/ /\ u[2] = "running"
        /\ \/ /\ state' = [state EXCEPT ![h] = "running"]
              /\ misread' = IF \E x \in up : x.id = u[1] THEN misread \ {h}
                            ELSE misread \cup {h}
              /\ UNCHANGED faults
           \/ Fault /\ UNCHANGED <<state, misread>>
        /\ UNCHANGED <<failTask, revived>>
     \/ /\ u[2] # "running" /\ Len(failTask) < FailCap
        /\ failTask' = Append(failTask, u[1])
        /\ \/ revived' = TRUE /\ UNCHANGED faults
           \/ Fault /\ revived' \in {revived, TRUE}
        /\ \/ state' = MarkFailed(h) /\ misread' = misread \ {h}
           \/ faults' > faults /\ UNCHANGED state /\ misread' = misread \cup {h}
     \/ /\ u[2] # "running" /\ Len(failTask) = FailCap
        /\ misread' = misread \cup {h}
        /\ UNCHANGED <<failTask, revived, faults, state>>
  /\ UNCHANGED <<unsent, jobs, held, pc, work, info, listed, dirs, taskid, launched, up, killing,
                 causes, tried, stranded>>

(* GenDeployInfo: the configuration in the instance directory of the        *)
(* address, an error if a key is missing.                                   *)
GenDeployInfo(h) == dirs[h]
(* SetupCacheService starts what the configuration says. *)
SetupCacheService(id, conf) == [id |-> id, conf |-> conf, told |-> FALSE]

(* The executor's launch. *)
Launch(id) ==
  /\ id \in launched /\ GenDeployInfo(id.host) # None
  /\ launched' = launched \ {id}
  /\ up' = up \cup {SetupCacheService(id, GenDeployInfo(id.host))}
  /\ UNCHANGED <<unsent, jobs, failTask, revived, held, pc, work, etcd, killing, updates,
                 faults, history>>

(* The port of a task that has ended is offered, whatever is held there. *)
Freed(id) == held' = held \ {id.host}

(* A launch that fails is reported by handleEvent; the executor quits. *)
LaunchFails(id) ==
  /\ id \in launched
  /\ IF GenDeployInfo(id.host) = None THEN UNCHANGED faults ELSE Fault
  /\ launched' = launched \ {id}
  /\ updates' = updates \cup {<<id, "failed">>}
  /\ killing' = killing \ {id}
  /\ Freed(id)
  /\ UNCHANGED <<unsent, jobs, failTask, revived, pc, work, etcd, up, history>>

(* monitor: the first answered ping reports the task running. *)
Ping(u) ==
  /\ u \in up /\ ~u.told
  /\ up' = (up \ {u}) \cup {[u EXCEPT !.told = TRUE]}
  /\ updates' = updates \cup {<<u.id, "running">>}
  /\ UNCHANGED <<unsent, jobs, failTask, revived, held, pc, work, etcd, launched, killing, faults,
                 history>>

(* quitCheck: the service ends and the executor with it. *)
Die(u) ==
  /\ u \in up /\ Fault
  /\ up' = up \ {u}
  /\ updates' = updates \cup {<<u.id, "failed">>}
  /\ killing' = killing \ {u.id}
  /\ Freed(u.id)
  /\ UNCHANGED <<unsent, jobs, failTask, revived, pc, work, etcd, launched, history>>

(* kill: TASK_KILLED is sent and the executor stops its service.  The       *)
(* scheduler writes no state for it.                                        *)
Kill(id) ==
  /\ id \in killing
  /\ killing' = killing \ {id}
  /\ launched' = launched \ {id}
  /\ up' = {u \in up : u.id # id}
  /\ misread' = misread \cup {id.host}
  /\ Freed(id)
  /\ UNCHANGED <<unsent, jobs, failTask, revived, pc, work, etcd, updates, faults, causes, tried,
                 stranded>>

(* A crash, or the end of a panic: the lists of jobs and of failed tasks    *)
(* are in memory only and are not rebuilt on the next start.  An update is  *)
(* acknowledged before it is handled, so a crash in between loses it.       *)
(* Mesos takes the offers of the old process back.                          *)
Restart ==
  /\ \/ pc = "panic" /\ UNCHANGED <<faults, updates, misread>>
     \/ /\ Fault /\ pc # "panic"
        /\ \/ UNCHANGED <<updates, misread>>
           \/ /\ pc = "idle"
              /\ \E u \in Deliverable :
                   updates' = updates \ {u} /\ misread' = misread \cup {u[1].host}
  /\ task' = <<>> /\ torn' = FALSE /\ failTask' = <<>>
  /\ revived' = TRUE /\ held' = {} /\ pc' = "idle" /\ work' = Idle
  /\ UNCHANGED <<unsent, etcd, launched, up, killing, causes, tried, stranded>>

Handler == NoMoreTasks \/ Suppress \/ DispatchCreate \/ DispatchScale
           \/ DispatchDestroy \/ DispatchRestart \/ Recover \/ Origin \/ AppendHost
           \/ (\E h \in Hosts : Accept(h)) \/ CreateAppended
Next ==
  \/ \E j \in Jobs : TaskEvent(j)
  \/ \E hs \in SUBSET Hosts : ResourceOffers(hs)
  \/ Handler
  \/ \E u \in updates : StatusUpdate(u)
  \/ \E id \in launched : Launch(id) \/ LaunchFails(id)
  \/ \E u \in up : Ping(u) \/ Die(u)
  \/ \E id \in killing : Kill(id)
  \/ Restart
Fairness ==
  /\ WF_vars(\E hs \in SUBSET Hosts : ResourceOffers(hs))
  /\ WF_vars(Handler)
Spec == Init /\ [][Next]_vars /\ Fairness
-----------------------------------------------------------------------------


(***************************************************************************)
(* A job on the list is looked at by some handler, whatever fails, is      *)
(* recovered or comes in meanwhile, with two exceptions.  A suppression    *)
(* overtook its Revive (or the Revive failed): the end-of-list test and    *)
(* the call are not atomic, and a destroy suppresses with other jobs still *)
(* waiting.  Or mesos has nothing left to offer: a scale-down of a         *)
(* singleton and a restart of a node without task id return without an     *)
(* answer to the offers, as does a failing Decline.  A panic, or the end   *)
(* of the process, forgets the list, and a push that raced with a Remove   *)
(* is not on it.                                                           *)
(***************************************************************************)
EveryJobTried ==
  []<>(ToSet(task) \subseteq tried \/ stranded \/ held = Hosts \/ pc = "panic")

(***************************************************************************)
(* What etcd says of a deployed address is current once no update is on    *)
(* its way: "running" there means a task runs there.  The exceptions: a    *)
(* failure was dropped at a full failTask, the Set of the state failed, a  *)
(* crash came between the acknowledgement of the update and the Set, the   *)
(* update of a task that is dead came late, the directory was not removed  *)
(* with the task killed or not cleaned for the next, or the scheduler has  *)
(* lost track of the cluster.                                              *)
(***************************************************************************)
StateCurrent ==
  \A h \in Hosts :
    dirs[h] # None /\ state[h] = "running" /\ (\A u \in updates : u[1].host # h)
      => ~Free(h) \/ h \in misread \/ causes[dirs[h]] # {}
=============================================================================
