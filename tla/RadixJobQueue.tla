---------------------------- MODULE RadixJobQueue ----------------------------
(***************************************************************************)
(* The RadixJobs of one application: operator/job, pkg/apis/job, the stop  *)
(* and trigger operations of the api-server, and the status reports of the *)
(* pipeline-runner.                                                        *)
(*                                                                         *)
(* All RadixJobs of an application share a namespace, so the controller's  *)
(* partition lock (module Controller) lets one Sync run at a time: `sync'  *)
(* is that Sync, `pending' the items of the work queue.  Every API call of *)
(* a Sync is a step of its own; users, runners and Kubernetes step in      *)
(* between.  Sync works on the copy of the RadixJob it read, and the API   *)
(* server refuses a status update when the stored object has changed       *)
(* since.  Comparing contents is comparing resource versions, since no     *)
(* writer restores an earlier content, except that the runner of a         *)
(* Kubernetes Job that was made again may report Running where one before  *)
(* it reported its end.  Should both happen within a Sync, the server      *)
(* refuses the update and the Sync starts over with the same content,      *)
(* while here the update is taken.                                         *)
(***************************************************************************)
EXTENDS Integers, FiniteSets

CONSTANTS
  Jobs,           \* RadixJobs
  Envs,           \* environments of the application
  GitRefs,        \* branches and tags
  Applications,   \* RadixApplications: [GitRefs -> SUBSET Envs]
  Application0,   \* the RadixApplication at the start
  Spec0,          \* [Jobs -> [type, gitRef, env]]: what the jobs are created with
  NoEnv,          \* no ToEnvironment
  NoJob,          \* no RadixJob
  MaxAttempts,    \* retry.DefaultRetry.Steps
  Outcomes,       \* [Jobs -> SUBSET RunStatuses], bound: how the pipelines of the jobs end
  Starts          \* initial states: the jobs that are done before, and the bounds:
                  \* how often each kind of disturbance happens

(* The kinds of disturbances; "calm" is 1 until the first one happens. *)
Disturbances == {"stop", "application", "crash", "error", "lostReport", "kubeDelete", "calm"}
PipelineTypes == {"build", "build-deploy", "deploy", "promote", "apply-config"}

ASSUME ConstantsAssumption ==
  /\ Applications \subseteq [GitRefs -> SUBSET Envs] /\ Application0 \in Applications
  /\ Spec0 \in [Jobs -> [type : PipelineTypes, gitRef : GitRefs, env : Envs \cup {NoEnv}]]
  /\ \A j \in Jobs : Spec0[j].type \in {"deploy", "promote"} => Spec0[j].env # NoEnv
  /\ Outcomes \in [Jobs -> SUBSET {"Succeeded", "StoppedNoChanges", "Stopped", "Failed"}]
  /\ NoJob \notin Jobs /\ NoEnv \notin Envs
  /\ MaxAttempts \in Nat \ {0}
  /\ Starts \subseteq [done : SUBSET Jobs, left : [Disturbances -> Nat]]

VARIABLES
  ra,        \* the RadixApplication
  rj,        \* the RadixJob objects
  kj,        \* the pipeline's Kubernetes Job and its pod
  dying,     \* how many pods of a Kubernetes Job that was deleted have a runner yet to end
  pending,   \* RadixJobs on the work queue
  sync,      \* the Sync in progress
  left       \* what is left of the bounds

vars == <<ra, rj, kj, dying, pending, sync, left>>

Conditions == {"", "Queued", "Waiting", "Running", "Succeeded", "Failed", "Stopped", "StoppedNoChanges"}
RunStatuses == {"", "Running", "Succeeded", "Failed", "Stopped", "StoppedNoChanges"}
KubeJobStates == {"none", "waiting", "running", "ending", "succeeded", "failed"}
Phases == {"idle", "targets", "stop", "stopped", "queueing", "reconcile", "status", "update",
           "wake", "waken", "failed"}

-----------------------------------------------------------------------------
(* RadixJobCondition helpers. *)
IsDone(c) == c \in {"Succeeded", "Failed", "Stopped", "StoppedNoChanges"}
IsQueuedOrEmpty(c) == c \in {"", "Queued"}
IsWaitingOrRunning(c) == c \in {"Waiting", "Running"}

Exists(j) == rj[j].created > 0

IsBuildJob(j) == Spec0[j].type \in {"build", "build-deploy"}

(* getTargetEnvironments: what the job targets according to application a. *)
TargetEnvironments(j, a) ==
  LET s == Spec0[j] IN
  CASE IsBuildJob(j)                    -> {e \in a[s.gitRef] : s.env \in {e, NoEnv}}
    [] s.type \in {"deploy", "promote"} -> {s.env}
    [] OTHER                            -> {}

(* Mutant: two jobs conflict only when they target the same environments. *)
SameTargets(j, k, a) ==
  TargetEnvironments(j, a) = TargetEnvironments(k, a) /\ TargetEnvironments(j, a) # {}

HasConflictingTargetEnvironments(j, k, a) ==
  TargetEnvironments(j, a) \cap TargetEnvironments(k, a) # {}

ShouldBeQueuedBehindOlderJobs(j, a) ==
  \E k \in Jobs \ {j} :
    /\ Exists(k) /\ rj[k].created < rj[j].created
    /\ IsQueuedOrEmpty(rj[k].cond)
    /\ HasConflictingTargetEnvironments(j, k, a)

(* Mutant: a waiting job does not block others. *)
IsOtherJobRunningNotWaiting(j, a) ==
  \E k \in Jobs \ {j} :
    /\ Exists(k) /\ rj[k].cond = "Running"
    /\ IF TargetEnvironments(j, a) = {}
         THEN IsBuildJob(j) /\ IsBuildJob(k) /\ Spec0[j].gitRef = Spec0[k].gitRef
         ELSE HasConflictingTargetEnvironments(j, k, a)

IsOtherJobRunningOnBranchOrEnvironment(j, a) ==
  \E k \in Jobs \ {j} :
    /\ Exists(k) /\ IsWaitingOrRunning(rj[k].cond)
    /\ IF TargetEnvironments(j, a) = {}
         THEN IsBuildJob(j) /\ IsBuildJob(k) /\ Spec0[j].gitRef = Spec0[k].gitRef
         ELSE HasConflictingTargetEnvironments(j, k, a)

(* Mutant: the runner's report is not looked at. *)
FindKubeJobCondition(state, run) ==
  CASE state = "failed"                            -> "Failed"
    [] state = "succeeded"                         -> "Succeeded"
    [] state \in {"running", "ending"}             -> "Running"
    [] OTHER                                       -> "Waiting"

(* findJobCondition, from the state of the Kubernetes Job and the runner's report. *)
FindJobCondition(state, run) ==
  CASE state = "failed"                            -> "Failed"
    [] state = "succeeded"                         -> IF run # "" THEN run ELSE "Succeeded"
    [] state \in {"running", "ending"}             -> "Running"
    [] OTHER                                       -> "Waiting"

-----------------------------------------------------------------------------
Absent == [created |-> 0, stop |-> FALSE, cond |-> "", envs |-> {}, run |-> ""]

Idle == [pc |-> "idle", job |-> NoJob, tries |-> 0, rj |-> Absent, app |-> Application0,
         cond |-> "", failed |-> FALSE, next |-> NoJob, nextRj |-> Absent]

Ended(j) == [created |-> 1, stop |-> FALSE, cond |-> "Succeeded",
             envs |-> TargetEnvironments(j, Application0), run |-> "Succeeded"]

Init ==
  /\ ra = Application0
  /\ \E s \in Starts :
       /\ rj = [j \in Jobs |-> IF j \in s.done THEN Ended(j) ELSE Absent]
       /\ kj = [j \in Jobs |-> IF j \in s.done THEN "succeeded" ELSE "none"]
       /\ left = s.left
  /\ dying = [j \in Jobs |-> 0]
  /\ pending = {}
  /\ sync = Idle

Spend(d) == left[d] > 0 /\ left' = [left EXCEPT ![d] = @ - 1, !["calm"] = 0]

Undisturbed == left["calm"] = 1

(* Mutant: only a change of the condition counts as an update. *)
NotifiedOfCondition(j, new) ==
  IF ~IsDone(new.cond) /\ new.cond # rj[j].cond THEN {j} ELSE {}

(* UpdateFunc of the RadixJob informer: a done job is skipped, and so is an
   update that changes neither the generation (the spec) nor the condition. *)
Notified(j, new) ==
  IF ~IsDone(new.cond) /\ (new.cond # rj[j].cond \/ new.stop # rj[j].stop) THEN {j} ELSE {}

Store(j, new) ==
  /\ rj' = [rj EXCEPT ![j] = new]
  /\ pending' = pending \cup Notified(j, new)

(* HandleObject: an event of the Kubernetes Job enqueues the RadixJob that owns it. *)
KubeEvent(j) == pending' = IF Exists(j) THEN pending \cup {j} ELSE pending

(* A Kubernetes Job is deleted and its pod asked to terminate: the runner in it has a
   grace period to end. *)
Terminate(j) ==
  /\ kj' = [kj EXCEPT ![j] = "none"]
  /\ dying' = IF kj[j] = "running" THEN [dying EXCEPT ![j] = @ + 1] ELSE dying
  /\ KubeEvent(j)

(* What a Sync does next, by the copy it has: OnSync ignores a done job, writes the
   target environments once, then handleStop and handleJobQueueing decide. *)
AfterTargets(copy) ==
  IF copy.stop THEN "stop" ELSE IF IsQueuedOrEmpty(copy.cond) THEN "queueing" ELSE "reconcile"

FirstPhase(copy) ==
  IF copy.envs = {} THEN "targets" ELSE AfterTargets(copy)

(* Handler.Sync gets the RadixJob and OnSync the RadixApplication.  (One step: a
   change between the two calls would be refused by the conflict check.) *)
Begin(j, try) ==
  sync' = IF IsDone(rj[j].cond) THEN Idle
            ELSE [Idle EXCEPT !.pc = FirstPhase(rj[j]), !.job = j, !.tries = try, !.rj = rj[j], !.app = ra]

(* The Sync returns an error: AddRateLimited. *)
Requeue ==
  /\ sync' = Idle
  /\ pending' = pending \cup {sync.job}

(* Mutant: conflicts are retried without a limit. *)
RetryForever ==
  /\ Begin(sync.job, sync.tries + 1)
  /\ UNCHANGED pending

(* Sync returns a conflict: RetryOnConflict starts over, or gives up. *)
Retry ==
  \/ /\ sync.tries < MaxAttempts
     /\ Begin(sync.job, sync.tries + 1)
     /\ UNCHANGED pending
  \/ /\ sync.tries = MaxAttempts
     /\ Requeue

(* Mutant: the update does not carry the resource version. *)
UpdateStatusBlindly(new, then) ==
  /\ Store(sync.job, [new EXCEPT !.stop = rj[sync.job].stop])
  /\ sync' = then

(* updateStatus: the server takes the new object only if the copy is current;
   `then' is how the Sync goes on. *)
UpdateStatus(new, then) ==
  \/ /\ rj[sync.job] = sync.rj
     /\ Store(sync.job, new)
     /\ sync' = then
  \/ /\ rj[sync.job] # sync.rj
     /\ Retry
     /\ UNCHANGED rj

-----------------------------------------------------------------------------
(* The controller takes an item off the queue under the namespace lock. *)
StartSync(j) ==
  /\ sync.pc = "idle" /\ j \in pending
  /\ pending' = pending \ {j}
  /\ Begin(j, 1)
  /\ UNCHANGED <<ra, rj, kj, dying, left>>

(* syncTargetEnvironments *)
SyncTargetEnvironments ==
  LET new == [sync.rj EXCEPT !.envs = TargetEnvironments(sync.job, sync.app)] IN
  /\ sync.pc = "targets"
  /\ UpdateStatus(new, [sync EXCEPT !.rj = new, !.pc = AfterTargets(new)])
  /\ UNCHANGED <<ra, kj, dying, left>>

(* stopJob deletes the Kubernetes Job, its pod and the step jobs when the
   RadixJob is waiting or running, *)
DeletePipelineJobs ==
  /\ sync.pc = "stop"
  /\ sync' = [sync EXCEPT !.pc = "stopped"]
  /\ IF IsWaitingOrRunning(sync.rj.cond) /\ kj[sync.job] # "none"
       THEN Terminate(sync.job)
       ELSE UNCHANGED <<kj, dying, pending>>
  /\ UNCHANGED <<ra, rj, left>>

(* and reports it stopped. *)
StopUpdate ==
  LET new == [sync.rj EXCEPT !.cond = "Stopped"] IN
  /\ sync.pc = "stopped"
  /\ UpdateStatus(new, [sync EXCEPT !.pc = "wake", !.rj = new])
  /\ UNCHANGED <<ra, kj, dying, left>>

(* handleJobQueueing lists the RadixJobs; queueJob ends the Sync. *)
HandleJobQueueing ==
  /\ sync.pc = "queueing"
  /\ IF \/ ShouldBeQueuedBehindOlderJobs(sync.job, sync.app)
        \/ IsOtherJobRunningOnBranchOrEnvironment(sync.job, sync.app)
       THEN UpdateStatus([sync.rj EXCEPT !.cond = "Queued"], Idle)
       ELSE sync' = [sync EXCEPT !.pc = "reconcile"] /\ UNCHANGED <<rj, pending>>
  /\ UNCHANGED <<ra, kj, dying, left>>

(* reconcile creates the pipeline's ConfigMap and Kubernetes Job if there is none. *)
Reconcile ==
  /\ sync.pc = "reconcile"
  /\ sync' = [sync EXCEPT !.pc = "status"]
  /\ IF kj[sync.job] = "none" THEN kj' = [kj EXCEPT ![sync.job] = "waiting"] ELSE UNCHANGED kj
  /\ UNCHANGED <<ra, rj, dying, pending, left>>

(* When that fails, syncStatus still follows, and the Sync returns the error after it. *)
ReconcileFails ==
  /\ sync.pc = "reconcile"
  /\ Spend("error")
  /\ sync' = [sync EXCEPT !.pc = "status", !.failed = TRUE]
  /\ UNCHANGED <<ra, rj, kj, dying, pending>>

(* syncStatus reads the Kubernetes Job, *)
SyncStatusRead ==
  /\ sync.pc = "status"
  /\ sync' = [sync EXCEPT !.pc = "update",
                          !.cond = IF kj[sync.job] = "none" THEN sync.rj.cond
                                     ELSE FindJobCondition(kj[sync.job], sync.rj.run)]
  /\ UNCHANGED <<ra, rj, kj, dying, pending, left>>

(* Mutant: the end of a job does not wake the queue. *)
SyncStatusUpdateNoWake ==
  LET new == [sync.rj EXCEPT !.cond = sync.cond] IN
  /\ sync.pc = "update"
  /\ UpdateStatus(new, Idle)
  /\ UNCHANGED <<ra, kj, dying, left>>

(* and updates the status of the RadixJob; a job that is done wakes the next. *)
SyncStatusUpdate ==
  LET new  == [sync.rj EXCEPT !.cond = sync.cond]
      then == IF sync.failed THEN "failed" ELSE "wake"
  IN
  /\ sync.pc = "update"
  /\ UpdateStatus(new, IF sync.failed \/ IsDone(sync.cond) THEN [sync EXCEPT !.pc = then, !.rj = new] ELSE Idle)
  /\ UNCHANGED <<ra, kj, dying, left>>

(* Mutant: the condition of the job that is woken is not looked at. *)
WakeableAny(a) == {k \in Jobs : Exists(k) /\ ~IsOtherJobRunningOnBranchOrEnvironment(k, a)}

(* setNextJobToWaiting lists the RadixJobs and picks the first created of the
   queued ones that nothing blocks; sort.Slice leaves the order of equal
   timestamps open. *)
Wakeable(a) == {k \in Jobs : rj[k].cond = "Queued" /\ ~IsOtherJobRunningOnBranchOrEnvironment(k, a)}

SetNextJobToWaiting ==
  /\ sync.pc = "wake"
  /\ \/ Wakeable(sync.app) = {} /\ sync' = Idle
     \/ \E k \in Wakeable(sync.app) :
          /\ \A i \in Wakeable(sync.app) : rj[k].created <= rj[i].created
          /\ sync' = [sync EXCEPT !.pc = "waken", !.next = k, !.nextRj = rj[k]]
  /\ UNCHANGED <<ra, rj, kj, dying, pending, left>>

(* The update of the next job may conflict like any other. *)
UpdateNextJob ==
  /\ sync.pc = "waken"
  /\ \/ /\ rj[sync.next] = sync.nextRj
        /\ Store(sync.next, [sync.nextRj EXCEPT !.cond = "Waiting"])
        /\ sync' = Idle
     \/ /\ rj[sync.next] # sync.nextRj
        /\ Retry
        /\ UNCHANGED rj
  /\ UNCHANGED <<ra, kj, dying, left>>

(* reconcile's error is returned after the status is updated, any other at once. *)
SyncReturnsError ==
  /\ sync.pc = "failed"
  /\ Requeue
  /\ UNCHANGED <<ra, rj, kj, dying, left>>

SyncFails ==
  /\ sync.pc \notin {"idle", "reconcile", "failed"}
  /\ Spend("error")
  /\ Requeue
  /\ UNCHANGED <<ra, rj, kj, dying>>

(* The operator is killed and started: AddFunc enqueues the jobs not done. *)
Crash ==
  /\ Spend("crash")
  /\ sync' = Idle
  /\ pending' = {j \in Jobs : Exists(j) /\ ~IsDone(rj[j].cond)}
  /\ UNCHANGED <<ra, rj, kj, dying>>

-----------------------------------------------------------------------------
(* The api-server creates a RadixJob (trigger, or rerun of a stopped one): the
   creation time has a granularity of a second, so jobs may share it. *)
CreateJob(j) ==
  /\ ~Exists(j)
  /\ \E k \in Jobs, later \in {0, 1} :
       LET t == rj[k].created + later IN
       /\ t > 0 /\ \A i \in Jobs : rj[i].created <= t
       /\ rj' = [rj EXCEPT ![j] = [Absent EXCEPT !.created = t]]
  /\ pending' = pending \cup {j}
  /\ UNCHANGED <<ra, kj, dying, sync, left>>

(* StopJob of the api-server, refused for jobs that have failed or stopped. *)
StopJob(j) ==
  /\ Exists(j) /\ ~rj[j].stop
  /\ rj[j].cond \notin {"Failed", "Stopped", "StoppedNoChanges"}
  /\ Spend("stop")
  /\ Store(j, [rj[j] EXCEPT !.stop = TRUE])
  /\ UNCHANGED <<ra, kj, dying, sync>>

(* An apply-config pipeline changes the branch mapping. *)
ChangeApplication ==
  /\ Spend("application")
  /\ ra' \in Applications \ {ra}
  /\ UNCHANGED <<rj, kj, dying, pending, sync>>

-----------------------------------------------------------------------------
(* UpdateStatus of the runner retries conflicts; another error is only logged. *)
Report(j, status) ==
  \/ /\ Store(j, [rj[j] EXCEPT !.run = status])
     /\ UNCHANGED left
  \/ /\ Spend("lostReport")
     /\ UNCHANGED <<rj, pending>>

(* The pipeline's pod is started: the Kubernetes Job has an active pod ... *)
PodStarts(j) ==
  /\ kj[j] = "waiting"
  /\ kj' = [kj EXCEPT ![j] = "running"]
  /\ KubeEvent(j)
  /\ UNCHANGED <<ra, rj, dying, sync, left>>

(* ... and the runner reports that it runs, before and after every step, whatever was
   reported before, *)
RunnerReports(j) ==
  /\ kj[j] = "running" \/ dying[j] > 0
  /\ Store(j, [rj[j] EXCEPT !.run = "Running"])
  /\ UNCHANGED <<ra, kj, dying, sync, left>>

(* and how it ended: the last step succeeded, a step asked to stop the pipeline, or
   the pod was asked to terminate, *)
RunnerEnds(j) ==
  /\ kj[j] = "running"
  /\ \E status \in Outcomes[j] \ {"Failed"} : Report(j, status)
  /\ kj' = [kj EXCEPT ![j] = "ending"]
  /\ UNCHANGED <<ra, dying, sync>>

PodSucceeds(j) ==
  /\ kj[j] = "ending"
  /\ kj' = [kj EXCEPT ![j] = "succeeded"]
  /\ KubeEvent(j)
  /\ UNCHANGED <<ra, rj, dying, sync, left>>

(* or a step failed, or the pod did, which the runner may be unable to report. *)
PodFails(j) ==
  /\ kj[j] = "running" /\ "Failed" \in Outcomes[j]
  /\ \E run \in {"Failed", rj[j].run} : rj' = [rj EXCEPT ![j].run = run]
  /\ kj' = [kj EXCEPT ![j] = "failed"]
  /\ KubeEvent(j)
  /\ UNCHANGED <<ra, dying, sync, left>>

(* The runner of a pod that terminates ends in any of these ways, and reports it, also
   when its context is cancelled; the pod's event finds the Kubernetes Job by its name. *)
DyingEnds(j) ==
  /\ dying[j] > 0
  /\ dying' = [dying EXCEPT ![j] = @ - 1]
  /\ \/ /\ \E run \in Outcomes[j] \cup {"Stopped", "Failed"} : rj' = [rj EXCEPT ![j].run = run]
        /\ UNCHANGED left
     \/ /\ Spend("lostReport")
        /\ UNCHANGED rj
  /\ IF kj[j] = "none" THEN UNCHANGED pending ELSE KubeEvent(j)
  /\ UNCHANGED <<ra, kj, sync>>

(* Somebody deletes a Kubernetes Job; unless the job is done the operator starts it again. *)
KubeJobDeleted(j) ==
  /\ kj[j] # "none"
  /\ Spend("kubeDelete")
  /\ Terminate(j)
  /\ UNCHANGED <<ra, rj, sync>>

-----------------------------------------------------------------------------
SyncStep ==
  \/ SyncTargetEnvironments
  \/ DeletePipelineJobs \/ StopUpdate
  \/ HandleJobQueueing \/ Reconcile \/ ReconcileFails \/ SyncStatusRead \/ SyncStatusUpdate
  \/ SetNextJobToWaiting \/ UpdateNextJob \/ SyncReturnsError

Pipeline(j) ==
  PodStarts(j) \/ RunnerReports(j) \/ RunnerEnds(j) \/ PodSucceeds(j) \/ PodFails(j) \/ DyingEnds(j)

Next ==
  \/ \E j \in Jobs : \/ CreateJob(j) \/ StopJob(j) \/ KubeJobDeleted(j)
                     \/ StartSync(j) \/ Pipeline(j)
  \/ SyncStep \/ SyncFails \/ Crash \/ ChangeApplication

Spec == Init /\ [][Next]_vars

(* Items of the queue are served, a Sync makes progress, pods are scheduled and
   pipelines end.  Users and faults are under no obligation. *)
Fairness ==
  /\ \A j \in Jobs : SF_vars(StartSync(j)) /\ WF_vars(Pipeline(j))
  /\ WF_vars(SyncStep)

FairSpec == Spec /\ Fairness

-----------------------------------------------------------------------------
RadixJobs == [created : Nat, stop : BOOLEAN, cond : Conditions, envs : SUBSET Envs, run : RunStatuses]

TypeOK ==
  /\ ra \in Applications
  /\ rj \in [Jobs -> RadixJobs]
  /\ kj \in [Jobs -> KubeJobStates] /\ dying \in [Jobs -> Nat]
  /\ pending \subseteq Jobs
  /\ sync \in [pc : Phases, job : Jobs \cup {NoJob}, tries : 0..MaxAttempts, rj : RadixJobs,
               app : Applications, cond : Conditions, failed : BOOLEAN, next : Jobs \cup {NoJob}, nextRj : RadixJobs]
  /\ (sync.pc # "idle" => sync.job \in Jobs) /\ (sync.pc = "waken" => sync.next \in Jobs)
  /\ left \in [Disturbances -> Nat]

Active(j) == IsWaitingOrRunning(rj[j].cond)

(* Two builds of a git ref that maps to no environment. *)
SameUnmappedBuild(j, k, a) ==
  /\ IsBuildJob(j) /\ IsBuildJob(k) /\ Spec0[j].gitRef = Spec0[k].gitRef
  /\ TargetEnvironments(j, a) = {} /\ TargetEnvironments(k, a) = {}

(* Two RadixJobs that target a common environment, or build the same unmapped
   git ref, are never waiting or running at the same time, whatever stops,
   errors, conflicts, lost reports and restarts happen, while the application
   keeps its branch mapping (handleJobQueueing, setNextJobToWaiting). *)
ActiveJobsDisjoint ==
  \A j, k \in Jobs : j # k /\ Active(j) /\ Active(k) =>
    rj[j].envs \cap rj[k].envs = {} /\ ~SameUnmappedBuild(j, k, ra)

Executing(j) == kj[j] \in {"waiting", "running", "ending"}

(* Nor do two pipelines of a common environment have a Kubernetes Job that is
   not finished, until somebody stops a job or a Sync is cut off. *)
PipelinesDisjoint ==
  Undisturbed => \A j, k \in Jobs : j # k /\ Executing(j) /\ Executing(k) =>
    TargetEnvironments(j, ra) \cap TargetEnvironments(k, ra) = {}

(* A RadixJob that is done stays as it is: neither a Sync that read it earlier,
   nor the one that wakes the next job, nor an event of its Kubernetes Job
   changes the condition again. *)
DoneIsFinal ==
  [][\A j \in Jobs : IsDone(rj[j].cond) => rj'[j].cond = rj[j].cond]_vars

(* A RadixJob is never set to succeeded, or stopped for lack of changes, while its runner's
   report is another one: the report is read before the Kubernetes Job, but the update is
   refused when a report came in between (syncStatus, getJobConditionFromReport). *)
ReportedResult ==
  [][\A j \in Jobs : rj'[j].cond # rj[j].cond /\ rj'[j].cond \in {"Succeeded", "StoppedNoChanges"} =>
       rj'[j].run = rj[j].run /\ rj[j].run \in {"", rj'[j].cond}]_vars

(* What a runner reported is changed by nothing but a runner of the same job that has not
   ended, which may be another one when the Kubernetes Job was deleted: never by a Sync
   that writes the status from a copy it read before (UpdateStatus replaces all of it). *)
ReportIsKept ==
  [][\A j \in Jobs : rj'[j].run # rj[j].run => (kj[j] = "running" \/ dying[j] > 0) /\ UNCHANGED sync]_vars

Quiet == sync.pc = "idle" /\ pending = {}

(* When the operator has nothing left to do, no stop request is forgotten, also
   across errors, conflicts with the runner's reports and restarts. *)
NoStopForgotten == Quiet => \A j \in Jobs : rj[j].stop => IsDone(rj[j].cond)

QueueMoves ==
  Quiet => \A j \in Jobs : rj[j].cond = "Queued" => \E k \in Jobs : Active(k) /\ Executing(k)

(* When the operator has nothing left to do and no disturbance happened, a queued
   job is queued behind a job that is waiting or running and whose end will wake
   the queue. *)
QueueNotStuck == Undisturbed => QueueMoves

(* When a job is stopped, the next queued job is activated. *)
StopActivatesNext == (\E j \in Jobs : rj[j].cond = "Stopped") => QueueMoves

(* A stopped RadixJob has no pipeline job that runs on in the background. *)
StoppedJobIsGone ==
  \A j \in Jobs : Quiet /\ rj[j].cond = "Stopped" => ~Executing(j)

(* Every job that is created gets done: no wake-up of the queue is missed. *)
EveryJobEnds == \A j \in Jobs : Exists(j) ~> IsDone(rj[j].cond)

-----------------------------------------------------------------------------
(* What the queue promises (module ExclusiveJobs): the claims of a job are its
   target environments, or its git ref if it builds one that maps to none, ... *)
Claims == [j \in Jobs |->
  LET targets == TargetEnvironments(j, Application0) IN
  IF targets = {} /\ IsBuildJob(j)
    THEN {<<"gitRef", Spec0[j].gitRef>>}
    ELSE {<<"environment", e>> : e \in targets}]

(* ... its state is what the condition of its RadixJob says, ... *)
Reported(c) ==
  IF IsQueuedOrEmpty(c) THEN "open" ELSE IF IsWaitingOrRunning(c) THEN "active" ELSE c

JobState == [j \in Jobs |-> IF Exists(j) THEN Reported(rj[j].cond) ELSE "absent"]

(* ... and it ends with one of the conditions that are done. *)
Results == {c \in Conditions : IsDone(c)}

Exclusive == INSTANCE ExclusiveJobs WITH state <- JobState

(* The queue implements ExclusiveJobs: a job goes from created to active only
   when none it conflicts with is active, is never queued again, ends with a
   condition that stays, and no step of a Sync, whatever it read before and
   whatever failed or restarted since, is anything else to those who look. *)
JobsAreExclusive == Exclusive!Spec
=============================================================================
