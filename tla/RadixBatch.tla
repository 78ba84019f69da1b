----------------------------- MODULE RadixBatch -----------------------------
(***************************************************************************)
(* One RadixBatch: its jobs are started, stopped, restarted and followed.  *)
(* operator/batch, pkg/apis/batch, and the job-scheduler's requests.       *)
(*                                                                         *)
(* A Sync gets the RadixBatch from the API server, but the Kubernetes Jobs *)
(* come from the informer's cache, when they are reconciled and again when *)
(* the status is built.  Every API call is a step.                         *)
(***************************************************************************)
EXTENDS Integers, Sequences, FiniteSets

CONSTANTS
  JobSeq,       \* spec.jobs: the names of the batch jobs, in order
  StatusEvery,  \* syncStatusForEveryNumberOfBatchJobsReconciled
  MaxAttempts,  \* retry.DefaultRetry.Steps
  Requests,     \* bound: the jobs that one stop, or one restart, is for
  Ends,         \* bound: how the runs of each job may end
  MaxClock,     \* bound: the last second of a restart
  Starts        \* bound: the batch at the start, and how often each disturbance may happen

Jobs == {JobSeq[i] : i \in DOMAIN JobSeq}

Disturbances == {"stop", "restart", "error", "crash", "kubeDelete", "rdDelete"}

Phases == {"", "Waiting", "Active", "Succeeded", "Failed", "Stopped"}
BatchConditions == {"", "Waiting", "Active", "Completed"}
KubeJobStates == {"none", "pending", "active", "succeeded", "failed"}

Batches == [version : Nat, cond : BatchConditions,
            spec   : [Jobs -> [stop : BOOLEAN, restart : Nat]],
            status : [Jobs -> [phase : Phases, restart : Nat]]]

KubeJobs == [state : KubeJobStates, run : Nat]

ASSUME ConstantsAssumption ==
  /\ JobSeq \in Seq(Jobs) /\ JobSeq # <<>>
  /\ \A i, k \in DOMAIN JobSeq : JobSeq[i] = JobSeq[k] => i = k
  /\ {StatusEvery, MaxAttempts} \subseteq Nat \ {0} /\ MaxClock \in Nat
  /\ Requests \in [{"stop", "restart"} -> SUBSET (SUBSET Jobs)]
  /\ Ends \in [Jobs -> SUBSET {"succeeded", "failed"}]
  /\ Starts \subseteq [batch : Batches, kj : [Jobs -> KubeJobs], left : [Disturbances -> Nat]]
  /\ \A s \in Starts : \A j \in Jobs :
       /\ s.batch.status[j].restart <= s.batch.spec[j].restart /\ s.batch.spec[j].restart <= 1
       /\ s.batch.status[j].phase \in {"Succeeded", "Failed"} =>
            s.kj[j].state \in {"none", "succeeded", "failed"}
       /\ s.batch.status[j].phase = "" => s.batch.status[j].restart = 0
  /\ \A s \in Starts : s.batch.cond = "Completed" <=> \A j \in Jobs :
       s.batch.status[j].phase \in {"Succeeded", "Failed", "Stopped"}

VARIABLES
  clock,     \* the time of the last restart request, in seconds
  batch,     \* the RadixBatch as the API server has it
  kj,        \* the Kubernetes Jobs as the API server has them
  seen,      \* ... and as the informer's cache has them
  stream,    \* the changes of Kubernetes Jobs the watch has yet to deliver
  edited,    \* whether a change of the batch's spec is yet to be delivered
  pending,   \* whether the batch is on the work queue
  sync,      \* the Sync in progress
  rdExists,  \* whether the RadixDeployment the batch refers to exists
  results,   \* how each run of each job ended (history variable)
  left       \* what is left of the budget

vars == <<clock, batch, kj, seen, stream, edited, pending, sync, rdExists, results, left>>

(* A Kubernetes Job, and the restart it was created for. *)
KubeJob(state, run) == [state |-> state, run |-> run]
NoKubeJob == KubeJob("none", 0)

Batch0 == [version |-> 0, cond |-> "",
           spec   |-> [j \in Jobs |-> [stop |-> FALSE, restart |-> 0]],
           status |-> [j \in Jobs |-> [phase |-> "", restart |-> 0]]]

Idle == [pc |-> "idle", own |-> Batch0, i |-> 0, list |-> {}, restarted |-> {}, err |-> "", tries |-> 0]

(* What the reported statuses and the Kubernetes Jobs say about earlier runs. *)
ResultsOf(status, objects) ==
  {<<j, status[j].restart, IF status[j].phase = "Succeeded" THEN "succeeded" ELSE "failed">> :
     j \in {i \in Jobs : status[i].phase \in {"Succeeded", "Failed"}}}
  \cup {<<j, objects[j].run, objects[j].state>> : j \in {i \in Jobs : objects[i].state \in {"succeeded", "failed"}}}

(* The operator starts: AddFunc. *)
Init ==
  /\ clock = 1
  /\ \E s \in Starts : batch = s.batch /\ kj = s.kj /\ left = s.left
  /\ seen = kj /\ stream = <<>>
  /\ edited = FALSE /\ pending = TRUE
  /\ sync = Idle
  /\ rdExists = TRUE
  /\ results = ResultsOf(batch.status, kj)

Spend(d) == left[d] > 0 /\ left' = [left EXCEPT ![d] = @ - 1]

(* isJobStatusDone *)
IsDone(status) == status.phase \in {"Succeeded", "Failed", "Stopped"}

(* Mutant: a restart is taken again in every Sync. *)
RestartsAlways(j, b) == b.spec[j].restart # 0

(* jobRequiresRestart; it is asked for with a new timestamp. *)
RequiresRestart(j, b) == b.spec[j].restart \notin {0, b.status[j].restart}

(* OnSync has something to do. *)
ToDo(b) == b.cond # "Completed" \/ \E j \in Jobs : RequiresRestart(j, b)

-----------------------------------------------------------------------------
(* The API server stores a Kubernetes Job and tells the watch. *)
Store(j, new) ==
  /\ kj' = [kj EXCEPT ![j] = new]
  /\ stream' = Append(stream, [job |-> j, object |-> new])

(* Mutant: only a deleted Kubernetes Job is an event. *)
NotifiedOfDeletion(old, new) == new.state = "none"

(* UpdateFunc and DeleteFunc of the Kubernetes Jobs; there is no AddFunc. *)
Notified(old, new) == old.state # "none"

(* The watches deliver the next change to the cache and the event handlers. *)
DeliverKubeJob ==
  /\ stream # <<>>
  /\ LET j == Head(stream).job
         new == Head(stream).object
     IN /\ seen' = [seen EXCEPT ![j] = new]
        /\ pending' = (pending \/ Notified(seen[j], new))
  /\ stream' = Tail(stream)
  /\ UNCHANGED <<clock, batch, kj, edited, sync, rdExists, results, left>>

(* UpdateFunc of the RadixBatch: the spec has changed. *)
DeliverBatch ==
  /\ edited
  /\ edited' = FALSE /\ pending' = TRUE
  /\ UNCHANGED <<clock, batch, kj, seen, stream, sync, rdExists, results, left>>

-----------------------------------------------------------------------------
(* Handler.Sync gets the RadixBatch; OnSync ends when it is completed. *)
Begin(try) ==
  sync' = IF ToDo(batch) THEN [Idle EXCEPT !.pc = "list", !.own = batch, !.tries = try] ELSE Idle

(* The Sync returns an error: AddRateLimited. *)
Requeue ==
  /\ sync' = Idle
  /\ pending' = TRUE

(* Mutant: conflicts are retried without a limit. *)
RetryForever ==
  /\ Begin(sync.tries + 1)
  /\ UNCHANGED pending

(* The Sync returns a conflict: RetryOnConflict starts over with a new syncer, or
   gives up. *)
Retry ==
  \/ /\ sync.tries < MaxAttempts
     /\ Begin(sync.tries + 1)
     /\ UNCHANGED pending
  \/ /\ sync.tries = MaxAttempts
     /\ Requeue

StartSync ==
  /\ sync.pc = "idle" /\ pending
  /\ pending' = FALSE
  /\ Begin(1)
  /\ UNCHANGED <<clock, batch, kj, seen, stream, edited, rdExists, results, left>>

(* reconcile ends with an error, which is for the final syncStatus to return. *)
Fail(err) == sync' = [sync EXCEPT !.pc = "status", !.err = err]

(* reconcile looks for the RadixDeployment and lists the Kubernetes Jobs. *)
ReconcileList ==
  /\ sync.pc = "list"
  /\ IF rdExists
       THEN sync' = [sync EXCEPT !.pc = "job", !.i = 1,
                                 !.list = {j \in Jobs : seen[j].state # "none"}]
       ELSE Fail("deployment")
  /\ UNCHANGED <<clock, batch, kj, seen, stream, edited, pending, rdExists, results, left>>

(* The next batch job, or the status after every so many and at the end. *)
NextJob(state) ==
  IF state.i % StatusEvery = 0 /\ state.pc # "midStatus" THEN [state EXCEPT !.pc = "midStatus"]
  ELSE IF state.i = Len(JobSeq) THEN [state EXCEPT !.pc = "status"]
  ELSE [state EXCEPT !.pc = "job", !.i = @ + 1]

Current == JobSeq[sync.i]

StopRequested(j) == sync.own.spec[j].stop

(* deleteJobs deletes what was listed; it may be gone already. *)
Delete(j) ==
  IF j \in sync.list /\ kj[j].state # "none" THEN Store(j, NoKubeJob) ELSE UNCHANGED <<kj, stream>>

(* reconcileKubeJob, one disjunct of it after the other: a stop is requested, *)
ReconcileStop ==
  /\ sync.pc = "job" /\ StopRequested(Current)
  /\ Delete(Current)
  /\ sync' = NextJob(sync)
  /\ UNCHANGED <<clock, batch, seen, edited, pending, rdExists, results, left>>

(* Mutant: a job without a Kubernetes Job is started. *)
NeedsNoJobUnlessListed(j) == ~RequiresRestart(j, sync.own) /\ j \in sync.list

NeedsNoJob(j) ==
  ~RequiresRestart(j, sync.own) /\ (IsDone(sync.own.status[j]) \/ j \in sync.list)

(* there is nothing to do, *)
ReconcileSkip ==
  /\ sync.pc = "job" /\ ~StopRequested(Current) /\ NeedsNoJob(Current)
  /\ sync' = NextJob(sync)
  /\ UNCHANGED <<clock, batch, kj, seen, stream, edited, pending, rdExists, results, left>>

(* a restart is requested: the Kubernetes Job there is is deleted first, *)
ReconcileRestart ==
  /\ sync.pc = "job" /\ ~StopRequested(Current) /\ RequiresRestart(Current, sync.own)
  /\ Delete(Current)
  /\ sync' = [sync EXCEPT !.pc = "create", !.restarted = @ \cup {Current}]
  /\ UNCHANGED <<clock, batch, seen, edited, pending, rdExists, results, left>>

(* or the job is yet to be started; one that exists though it was not listed is an error. *)
ReconcileCreate ==
  /\ \/ sync.pc = "create"
     \/ /\ sync.pc = "job" /\ ~StopRequested(Current)
        /\ ~NeedsNoJob(Current) /\ ~RequiresRestart(Current, sync.own)
  /\ IF kj[Current].state = "none"
       THEN /\ Store(Current, KubeJob("pending", sync.own.spec[Current].restart))
            /\ sync' = NextJob(sync)
       ELSE /\ Fail("error")
            /\ UNCHANGED <<kj, stream>>
  /\ UNCHANGED <<clock, batch, seen, edited, pending, rdExists, results, left>>

-----------------------------------------------------------------------------
(* Mutant: a deleted Kubernetes Job has failed. *)
KubePhaseOrFailed(object, phase) ==
  CASE object.state = "succeeded" -> "Succeeded"
    [] object.state \in {"failed", "none"} -> "Failed"
    [] object.state = "active"    -> "Active"
    [] OTHER                      -> phase

(* The phase of a batch job by the conditions of its Kubernetes Job. *)
KubePhase(object, phase) ==
  CASE object.state = "succeeded" -> "Succeeded"
    [] object.state = "failed"    -> "Failed"
    [] object.state = "active"    -> "Active"
    [] OTHER                      -> phase

(* buildBatchJobStatus *)
BuildBatchJobStatus(j) ==
  LET current == sync.own.status[j]
      status == CASE j \in sync.restarted -> [phase |-> "Waiting", restart |-> sync.own.spec[j].restart]
                  [] j \notin sync.restarted /\ current.phase = "" -> [phase |-> "Waiting", restart |-> 0]
                  [] OTHER -> current
  IN CASE j \notin sync.restarted /\ IsDone(current) -> current
       [] StopRequested(j) /\ (j \in sync.restarted \/ ~IsDone(current)) -> [status EXCEPT !.phase = "Stopped"]
       [] OTHER -> [status EXCEPT !.phase = KubePhase(seen[j], status.phase)]

(* The statuses and the condition that syncStatus stores. *)
NewStatus ==
  LET status == [j \in Jobs |-> BuildBatchJobStatus(j)] IN
  [sync.own EXCEPT !.status = status,
                   !.cond = IF \A j \in Jobs : status[j].phase = "Waiting" THEN "Waiting"
                            ELSE IF \A j \in Jobs : IsDone(status[j]) THEN "Completed"
                            ELSE "Active"]

(* updateStatus is refused when the spec was changed meanwhile. *)
Update(new, taken, refused) ==
  \/ /\ batch.version = sync.own.version
     /\ batch' = new
     /\ taken
  \/ /\ batch.version # sync.own.version
     /\ UNCHANGED batch
     /\ refused

(* A syncStatus on the way; its error ends reconcile. *)
MidStatus ==
  /\ sync.pc = "midStatus"
  /\ Update(NewStatus, sync' = NextJob([sync EXCEPT !.own = NewStatus]), Fail("error"))
  /\ UNCHANGED <<clock, kj, seen, stream, edited, pending, rdExists, results, left>>

(* The final syncStatus, which returns the error of reconcile.  Without the
   RadixDeployment there is nothing to wait for once all jobs are done. *)
SyncStatus ==
  /\ sync.pc = "status"
  /\ Update(NewStatus,
            CASE sync.err = "error" -> Requeue
              [] sync.err = "deployment" /\ NewStatus.cond # "Completed" ->
                   /\ sync' = [sync EXCEPT !.pc = "condition", !.own = NewStatus]
                   /\ UNCHANGED pending
              [] OTHER -> sync' = Idle /\ UNCHANGED pending,
            Retry)
  /\ UNCHANGED <<clock, kj, seen, stream, edited, rdExists, results, left>>

(* It then stores the condition of the error. *)
SyncCondition ==
  /\ sync.pc = "condition"
  /\ Update([sync.own EXCEPT !.cond = "Waiting"], Requeue, Retry)
  /\ UNCHANGED <<clock, kj, seen, stream, edited, rdExists, results, left>>

(* An API call fails.  That of a deletion is part of a restart. *)
SyncFails ==
  /\ Spend("error")
  /\ \/ sync.pc \in {"list", "job", "create", "midStatus"} /\ Fail("error") /\ UNCHANGED pending
     \/ /\ sync.pc = "job" /\ ~StopRequested(Current) /\ RequiresRestart(Current, sync.own)
        /\ sync' = [sync EXCEPT !.pc = "status", !.err = "error", !.restarted = @ \cup {Current}]
        /\ UNCHANGED pending
     \/ sync.pc \in {"status", "condition"} /\ Requeue
  /\ UNCHANGED <<clock, batch, kj, seen, stream, edited, rdExists, results>>

(* The operator is killed and started: the cache is listed anew, and AddFunc
   enqueues the batch. *)
Crash ==
  /\ Spend("crash")
  /\ sync' = Idle
  /\ seen' = kj /\ stream' = <<>>
  /\ edited' = FALSE /\ pending' = TRUE
  /\ UNCHANGED <<clock, batch, kj, rdExists, results>>

-----------------------------------------------------------------------------
(* A request changes the spec, or changes nothing. *)
Edit(spec) ==
  /\ spec # batch.spec
  /\ batch' = [batch EXCEPT !.spec = spec, !.version = @ + 1]
  /\ edited' = TRUE

(* StopRadixBatch, StopRadixBatchJob: conflicts are retried. *)
Stop(jobs) ==
  /\ Spend("stop")
  /\ batch.cond # "Completed"
  /\ Edit([j \in Jobs |-> [batch.spec[j] EXCEPT !.stop =
             @ \/ (j \in jobs /\ batch.status[j].phase \notin {"Succeeded", "Failed"})]])
  /\ UNCHANGED <<clock, kj, seen, stream, pending, sync, rdExists, results>>

(* RestartRadixBatch, RestartRadixBatchJob: whatever the status is. *)
Restart(jobs) ==
  /\ Spend("restart")
  /\ \E now \in {clock, clock + 1} :
       /\ now <= MaxClock
       /\ clock' = now
       /\ Edit([j \in Jobs |-> IF j \in jobs THEN [stop |-> FALSE, restart |-> now] ELSE batch.spec[j]])
  /\ UNCHANGED <<kj, seen, stream, pending, sync, rdExists, results>>

(* The pods of a Kubernetes Job start, and end one way or the other. *)
PodsStart(j) ==
  /\ kj[j].state = "pending"
  /\ Store(j, [kj[j] EXCEPT !.state = "active"])
  /\ UNCHANGED <<clock, batch, seen, edited, pending, sync, rdExists, results, left>>

PodsEnd(j) ==
  /\ kj[j].state = "active"
  /\ \E end \in Ends[j] :
       /\ Store(j, [kj[j] EXCEPT !.state = end])
       /\ results' = results \cup {<<j, kj[j].run, end>>}
  /\ UNCHANGED <<clock, batch, seen, edited, pending, sync, rdExists, left>>

(* ttlSecondsAfterFinished. *)
KubeJobExpires(j) ==
  /\ kj[j].state \in {"succeeded", "failed"}
  /\ Spend("kubeDelete")
  /\ Store(j, NoKubeJob)
  /\ UNCHANGED <<clock, batch, seen, edited, pending, sync, rdExists, results>>

(* The RadixDeployment is deleted, or no longer has the job component. *)
DeleteRD ==
  /\ rdExists
  /\ Spend("rdDelete")
  /\ rdExists' = FALSE
  /\ UNCHANGED <<clock, batch, kj, seen, stream, edited, pending, sync, results>>

-----------------------------------------------------------------------------
SyncStep ==
  \/ ReconcileList \/ ReconcileStop \/ ReconcileSkip \/ ReconcileRestart \/ ReconcileCreate
  \/ MidStatus \/ SyncStatus \/ SyncCondition

Pods(j) == PodsStart(j) \/ PodsEnd(j)

Next ==
  \/ StartSync \/ SyncStep \/ SyncFails \/ Crash
  \/ DeliverKubeJob \/ DeliverBatch
  \/ \E j \in Jobs : Pods(j) \/ KubeJobExpires(j)
  \/ \E jobs \in Requests["stop"] : Stop(jobs)
  \/ \E jobs \in Requests["restart"] : Restart(jobs)
  \/ DeleteRD

Spec == Init /\ [][Next]_vars

(* The watches deliver, the batch is served, a Sync makes progress, jobs end. *)
Fairness ==
  /\ WF_vars(StartSync) /\ WF_vars(SyncStep)
  /\ WF_vars(DeliverKubeJob) /\ WF_vars(DeliverBatch)
  /\ \A j \in Jobs : WF_vars(Pods(j))

FairSpec == Spec /\ Fairness

-----------------------------------------------------------------------------
TypeOK ==
  /\ clock \in Nat
  /\ batch \in Batches
  /\ kj \in [Jobs -> KubeJobs] /\ seen \in [Jobs -> KubeJobs]
  /\ stream \in Seq([job : Jobs, object : KubeJobs])
  /\ edited \in BOOLEAN /\ pending \in BOOLEAN /\ rdExists \in BOOLEAN
  /\ sync \in [pc : {"idle", "list", "job", "create", "midStatus", "status", "condition"},
               own : Batches, i : 0..Len(JobSeq), list : SUBSET Jobs, restarted : SUBSET Jobs,
               err : {"", "error", "deployment"}, tries : 0..MaxAttempts]
  /\ sync.pc \in {"job", "create", "midStatus"} => sync.i # 0
  /\ results \subseteq Jobs \X Nat \X {"succeeded", "failed"}
  /\ left \in [Disturbances -> Nat]

Quiet == sync.pc = "idle" /\ ~pending /\ ~edited /\ stream = <<>>

Unfinished(j) == kj[j].state \in {"pending", "active"}

(* When the operator has nothing left to do, every stop, and every
   restart of a job that is not stopped again, is taken, every
   job that is not done has a Kubernetes Job whose end will be an event, and the
   batch is completed exactly when its jobs are: across conflicts with requests,
   stale caches, errors and restarts. *)
NothingForgotten ==
  Quiet /\ rdExists =>
    /\ \A j \in Jobs : /\ batch.spec[j].stop => IsDone(batch.status[j])
                       /\ ~batch.spec[j].stop => ~RequiresRestart(j, batch)
                       /\ IsDone(batch.status[j]) \/ Unfinished(j)
    /\ batch.cond = "Completed" <=> \A j \in Jobs : IsDone(batch.status[j])

(* A result is reported only if a run of the job ended so: neither a deletion nor
   the end of another job is taken for one (buildBatchJobStatus). *)
ResultIsReal ==
  \A j \in Jobs : \A end \in {<<"Succeeded", "succeeded">>, <<"Failed", "failed">>} :
    batch.status[j].phase = end[1] => \E r \in results : r[1] = j /\ r[3] = end[2]

(* A job that is done is not run again without a new restart, although its
   Kubernetes Job expires and Syncs and caches come and go. *)
NoRerun ==
  [][\A j \in Jobs : kj[j].state = "none" /\ kj'[j].state # "none" =>
       ~IsDone(batch.status[j]) \/ RequiresRestart(j, batch)]_vars

(* Unless its RadixDeployment goes away, every batch gets completed. *)
EveryBatchEnds == <>[]rdExists => <>[](batch.cond = "Completed")

(* A stopped job has no Kubernetes Job that runs on. *)
StoppedJobIsDeleted ==
  Quiet => \A j \in Jobs : batch.status[j].phase = "Stopped" => ~Unfinished(j)
=============================================================================
