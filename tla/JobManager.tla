------------------------------ MODULE JobManager ------------------------------
(***************************************************************************)
(* The job manager of the API server (platform/api/service/job.go): it     *)
(* follows the create jobs clients save (see PlatformApi) until the        *)
(* instances run, balances a redis cluster in a goroutine of its own       *)
(* (platform/job/balance) and marks the job done.                          *)
(***************************************************************************)
EXTENDS PlatformApi, FiniteSetsExt

CONSTANT MaxRetry   \* 20 in the code

VARIABLES pc,        \* of the loop: boot, scan, tick; none if it never started
          undone,    \* undoneJobs
          counter,   \* retryCounter, 0 for an absent key
          toscan,    \* what is left of the range over undoneJobs
          removed,
          watching,  \* the watcher of WatchJob is established
          watchq,    \* events it has seen, not yet received from newJob
          bg,        \* bgBalance goroutines: [job, phase]
          senders,   \* those blocked sending their job back on newJob
          lost       \* history: jobs nobody will mark done any more

managerVars == <<pc, undone, counter, toscan, removed, watching, watchq, bg, senders>>
vars == <<apiVars, managerVars, lost>>

Ids == 1..Max({Cardinality(S.reqs) : S \in Scenarios})
TypeOK ==
  /\ pc \in {"boot", "scan", "tick", "none"}
  /\ undone \cup toscan \cup removed \cup senders \cup lost \subseteq DOMAIN jobs
  /\ counter \in [Ids -> 0..MaxRetry] /\ watchq \in Seq(DOMAIN jobs)
  /\ bg \subseteq [job : DOMAIN jobs, phase : {"info", "states", "run"}]
  /\ \A j \in DOMAIN jobs : jstate[j] \in {None, "pending", "deploying", "done"}

Init ==
  /\ ApiInit /\ pc = "boot" /\ lost = {}
  /\ undone = {} /\ counter = [j \in Ids |-> 0] /\ toscan = {} /\ removed = {}
  /\ watching = FALSE /\ watchq = <<>> /\ bg = {} /\ senders = {}
-----------------------------------------------------------------------------
(* GetJobs skips a job that has no state yet, and one of which the group or *)
(* the state is not read.  The directory of jobs is there from the start    *)
(* (scripts/install/setupetcd.sh).                                          *)
GetJobs == {j \in DOMAIN jobs : jstate[j] # None}
(* newJobManager; if GetJobs fails, the server goes on without a manager. *)
Boot ==
  /\ pc = "boot"
  /\ \/ /\ pc' = "scan"
        /\ \E skipped \in SUBSET GetJobs :
             /\ IF skipped = {} THEN UNCHANGED faults ELSE Fault
             /\ undone' = {j \in GetJobs \ skipped : jstate[j] # "done"}
             /\ lost' = lost \cup (DOMAIN jobs \ GetJobs) \cup skipped
        /\ toscan' = undone'
     \/ /\ Fault /\ pc' = "none"
        /\ lost' = lost \cup DOMAIN jobs
        /\ UNCHANGED <<undone, toscan>>
  /\ UNCHANGED <<req, etcd, handled, deploying, apiHistory, counter, removed, watching, watchq, bg, senders>>

(* WatchJob: events count from here on. *)
WatchJob ==
  /\ pc \in {"scan", "tick"} /\ ~watching
  /\ watching' = TRUE
  /\ UNCHANGED <<apiVars, pc, undone, counter, toscan, removed, watchq, bg, senders, lost>>

SaveJob(r) ==
  /\ GenJob(r)
  /\ watchq' = IF watching THEN Append(watchq, Len(jobs')) ELSE watchq
  /\ lost' = IF watching \/ pc = "boot" THEN lost ELSE lost \cup {Len(jobs')}
  /\ UNCHANGED <<pc, undone, counter, toscan, removed, watching, bg, senders>>
SetPending(r) ==
  /\ Pending(r)
  /\ lost' = lost \cup {j \in {req[r].val} : jstate[j] = "done"}
  /\ UNCHANGED managerVars

(* The scheduler's write of the job's state may take back a "done". *)
StartDeploy(j) ==
  /\ DeployState(j)
  /\ lost' = lost \cup {x \in {j} : jstate[x] = "done" /\ jstate'[x] # "done"}
  /\ UNCHANGED managerVars

(* What scanJobs and genTryBalanceJob take for "all instances run": one     *)
(* whose state is missing is skipped.                                       *)
AllRunning(c) == \A i \in Dir(c).insts : istate[c][i] \in {None, "running"}

(* What scanJobs concludes from GetCluster, which reads one moment's keys:  *)
(* it has no instances to report while the info is missing.                 *)
Waits(c) == cdir[c] = None \/ (Dir(c).info # None /\ ~AllRunning(c))
(* A read that fails makes it wait, or skip the instance of that read. *)
Finds(c, waits) == IF waits = Waits(c) THEN UNCHANGED faults ELSE cdir[c] # None /\ Fault
(* The body of scanJobs for one job. *)
Drop(j) == removed' = removed \cup {j} /\ counter' = [counter EXCEPT ![j] = 0]
Keep(j) == removed' = removed /\ counter' = [counter EXCEPT ![j] = @ + 1]
ScanJob(j) ==
  /\ pc = "scan" /\ j \in toscan
  /\ toscan' = toscan \ {j}
  /\ LET c == jobs[j].name IN
     \/ /\ counter[j] >= MaxRetry
        /\ Drop(j) /\ lost' = lost \cup {j}
        /\ UNCHANGED <<jstate, bg, faults>>
     \/ /\ counter[j] < MaxRetry /\ jobs[j].op # "create"
        /\ Drop(j)
        /\ UNCHANGED <<jstate, bg, faults, lost>>
     \/ /\ counter[j] < MaxRetry /\ jobs[j].op = "create" /\ Finds(c, TRUE)
        /\ Keep(j)
        /\ UNCHANGED <<jstate, bg, lost>>
     \/ /\ counter[j] < MaxRetry /\ jobs[j].op = "create" /\ Finds(c, FALSE)
        /\ c \in RedisClusters
        /\ bg' = bg \cup {[job |-> j, phase |-> "info"]}
        /\ removed' = removed \cup {j} /\ counter' = [counter EXCEPT ![j] = @ + 1]
        /\ UNCHANGED <<jstate, lost>>
     \/ /\ counter[j] < MaxRetry /\ jobs[j].op = "create"
        /\ c \notin RedisClusters
        /\ Drop(j)
        /\ \/ /\ Finds(c, FALSE)
              /\ jstate' = [jstate EXCEPT ![j] = "done"] /\ UNCHANGED lost
           \/ /\ ~Waits(c) /\ Fault                        \* error ignored
              /\ lost' = lost \cup {j} /\ UNCHANGED jstate
        /\ UNCHANGED bg
  /\ UNCHANGED <<req, seq, cdir, adir, nextId, jobs, istate, handled, deploying, apiHistory,
                 pc, undone, watching, watchq, senders>>
EndScan ==
  /\ pc = "scan" /\ toscan = {}
  /\ undone' = undone \ removed /\ removed' = {}
  /\ pc' = "tick"
  /\ UNCHANGED <<apiVars, counter, toscan, watching, watchq, bg, senders, lost>>

(* fetchNewJob takes at most one job per tick, from the watcher or from a   *)
(* balance that failed.                                                     *)
\* A bug: only the watcher's jobs are received.
WaitingWatched == IF watchq = <<>> THEN {} ELSE {Head(watchq)}
Waiting == senders \cup (IF watchq = <<>> THEN {} ELSE {Head(watchq)})
FetchNewJob ==
  /\ pc = "tick"
  /\ IF Waiting = {} THEN UNCHANGED <<undone, watchq, senders>>
     ELSE \E j \in Waiting :
            /\ undone' = undone \cup {j}
            /\ IF j \in senders THEN senders' = senders \ {j} /\ UNCHANGED watchq
               ELSE watchq' = Tail(watchq) /\ UNCHANGED senders
  /\ pc' = "scan" /\ toscan' = undone'
  /\ UNCHANGED <<apiVars, counter, removed, watching, bg, lost>>
-----------------------------------------------------------------------------
(* The process dies with everything it has in memory, requests included. *)
Crash ==
  /\ Fault
  /\ pc' = "boot" /\ undone' = {} /\ counter' = [j \in Ids |-> 0] /\ toscan' = {}
  /\ removed' = {} /\ watching' = FALSE /\ watchq' = <<>> /\ bg' = {} /\ senders' = {}
  /\ req' = [r \in DOMAIN req |-> IF req[r].pc = "start" THEN req[r]
                                  ELSE [req[r] EXCEPT !.pc = "end"]]
  /\ messy' = messy \cup UNION {Half(r) : r \in DOMAIN req}
  /\ UNCHANGED <<etcd, handled, deploying, reset, deployed, lost>>

BalanceTo(b, phase) == bg' = (bg \ {b}) \cup {[b EXCEPT !.phase = phase]}
SendBack(b) == bg' = bg \ {b} /\ senders' = senders \cup {b.job}

(* genTryBalanceJob: waits for the info.  WatchOneshot uses the answer of   *)
(* a watch that timed out: a nil dereference ends the server.               *)
\* A bug: the directory of the cluster is taken for its info.
HasInfoEarly(c) == cdir[c] # None
HasInfo(c) == Dir(c).info # None
AwaitInfo(b) ==
  /\ b \in bg /\ b.phase = "info"
  /\ \/ /\ HasInfo(jobs[b.job].name)
        /\ BalanceTo(b, "states")
        /\ UNCHANGED <<apiVars, pc, undone, counter, toscan, removed, watching, watchq, senders, lost>>
     \/ ~HasInfo(jobs[b.job].name) /\ Crash
AwaitStates(b) ==
  /\ b \in bg /\ b.phase = "states"
  /\ \/ /\ AllRunning(jobs[b.job].name)
        /\ BalanceTo(b, "run") /\ UNCHANGED senders
     \/ ~AllRunning(jobs[b.job].name) /\ SendBack(b)      \* 300 s are over
  /\ UNCHANGED <<apiVars, pc, undone, counter, toscan, removed, watching, watchq, lost>>

(* Balance: waitForConsistent, then tryBalance, whose deadline is no error. *)
(* The counter is deleted without a lock: beside a scan the runtime may end *)
(* the process.                                                             *)
Balanced(b) ==
  /\ bg' = bg \ {b}
  /\ counter' = [counter EXCEPT ![b.job] = 0]
  /\ \/ jstate' = [jstate EXCEPT ![b.job] = "done"] /\ UNCHANGED <<faults, lost>>
     \/ Fault /\ lost' = lost \cup {b.job} /\ UNCHANGED jstate
  /\ UNCHANGED <<req, seq, cdir, adir, nextId, jobs, istate, handled, deploying, apiHistory,
                 pc, undone, toscan, removed, watching, watchq, senders>>
Balance(b) ==
  /\ b \in bg /\ b.phase = "run"
  /\ \/ Balanced(b)
     \/ pc = "scan" /\ Crash
     \/ /\ SendBack(b)
        /\ UNCHANGED <<apiVars, pc, undone, counter, toscan, removed, watching, watchq, lost>>

Manager == Boot \/ WatchJob \/ (\E j \in Ids : ScanJob(j)) \/ EndScan \/ FetchNewJob
BgBalance(j) == \E b \in bg : b.job = j /\ (AwaitInfo(b) \/ AwaitStates(b) \/ Balance(b))
Next ==
  \/ (\E r \in DOMAIN req : Request(r)) /\ UNCHANGED <<managerVars, lost>>
  \/ External /\ UNCHANGED <<managerVars, lost>>
  \/ \E j \in DOMAIN jobs : StartDeploy(j)
  \/ \E r \in DOMAIN req : SaveJob(r) \/ SetPending(r)
  \/ Manager
  \/ \E j \in Ids : BgBalance(j)
  \/ Crash
Fairness == WF_vars(Manager) /\ \A j \in Ids : WF_vars(BgBalance(j))
Spec == Init /\ [][Next]_vars /\ Fairness
-----------------------------------------------------------------------------
(***************************************************************************)
(* The create job of a redis cluster is marked done only once the cluster  *)
(* of that name has been deployed: GetCluster answers for a cluster that   *)
(* has no info yet, so that scanJobs takes it for running, but bgBalance   *)
(* waits for the info.                                                     *)
(***************************************************************************)
DoneIsDeployed ==
  \A j \in DOMAIN jobs :
    jobs[j].op = "create" /\ jobs[j].name \in RedisClusters /\ jstate[j] = "done"
      => jobs[j].name \in deployed

(***************************************************************************)
(* Every create job of a deployed cluster ends up done, through failing    *)
(* balances and restarts of the server.  The exceptions (lost): a job that *)
(* was saved between GetJobs and the watch, or that GetJobs skipped at the *)
(* start; one given up after MaxRetry looks; one whose "done" could not be *)
(* written; and a server whose manager did not start.  And one whose       *)
(* "done" was overwritten: by the "pending" of the request that saved it,  *)
(* or by the scheduler's Create, which writes the state of the job before  *)
(* the info.  scanJobs takes a singleton that has no info yet for running, *)
(* so a scan before the deployment marks it done too early, and nobody     *)
(* marks it again; a deployment tried again and a recovery on another host *)
(* do the same to a job that was done.                                     *)
(***************************************************************************)
JobsSettle ==
  []<>(\A j \in DOMAIN jobs :
         jobs[j].op # "create" \/ jstate[j] = "done" \/ j \in lost
           \/ ~HasInfo(jobs[j].name))
=============================================================================
