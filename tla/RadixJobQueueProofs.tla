------------------------ MODULE RadixJobQueueProofs ------------------------
(***************************************************************************)
(* Proofs about the RadixJob queue, for any set of jobs, environments and  *)
(* branch mappings, and any number of stops, errors, lost reports and      *)
(* restarts.                                                               *)
(***************************************************************************)
EXTENDS RadixJobQueue, TLAPS

SyncRecords ==
  [pc : Phases, job : Jobs \cup {NoJob}, tries : 0..MaxAttempts, rj : RadixJobs,
   app : Applications, cond : Conditions, failed : BOOLEAN, next : Jobs \cup {NoJob}, nextRj : RadixJobs]

(* What a Sync may become keeps its type. *)
LEMMA IdleType == Absent \in RadixJobs /\ Idle \in SyncRecords /\ Idle.pc = "idle"
  BY ConstantsAssumption DEF Absent, Idle, SyncRecords, RadixJobs, Conditions, RunStatuses, Phases

LEMMA TargetsType ==
  ASSUME NEW j \in Jobs, NEW a \in Applications
  PROVE  TargetEnvironments(j, a) \in SUBSET Envs
  BY ConstantsAssumption DEF TargetEnvironments, IsBuildJob, PipelineTypes

LEMMA BeginType ==
  ASSUME TypeOK, NEW j \in Jobs, NEW try \in 1..MaxAttempts, Begin(j, try)
  PROVE  sync' \in SyncRecords /\ (sync'.pc # "idle" => sync'.job \in Jobs) /\ sync'.pc # "waken"
<1>1. /\ rj[j] \in RadixJobs /\ ra \in Applications
      /\ FirstPhase(rj[j]) \in Phases /\ FirstPhase(rj[j]) # "waken"
  BY DEF TypeOK, FirstPhase, AfterTargets, Phases
<1>2. CASE IsDone(rj[j].cond)
  BY <1>2, IdleType DEF Begin
<1>3. CASE ~IsDone(rj[j].cond)
  <2>1. sync' = [pc |-> FirstPhase(rj[j]), job |-> j, tries |-> try, rj |-> rj[j], app |-> ra,
                 cond |-> "", failed |-> FALSE, next |-> NoJob, nextRj |-> Absent]
    BY <1>3 DEF Begin, Idle
  <2>2. try \in 0..MaxAttempts /\ "" \in Conditions
    BY ConstantsAssumption DEF Conditions
  <2> QED BY <1>1, <2>1, <2>2, IdleType DEF SyncRecords
<1> QED BY <1>2, <1>3

SyncTyped ==
  /\ sync \in SyncRecords
  /\ sync.pc # "idle" => sync.job \in Jobs
  /\ sync.pc = "waken" => sync.next \in Jobs

LEMMA UpdateType ==
  ASSUME TypeOK, sync.pc \notin {"idle", "waken"}, NEW new \in RadixJobs,
         NEW then \in SyncRecords, then.pc # "idle" => then.job \in Jobs, then.pc # "waken",
         UpdateStatus(new, then)
  PROVE  rj' \in [Jobs -> RadixJobs] /\ pending' \subseteq Jobs /\ SyncTyped'
<1>0. sync.job \in Jobs /\ sync.tries \in 0..MaxAttempts /\ rj \in [Jobs -> RadixJobs] /\ pending \subseteq Jobs
  BY DEF TypeOK
<1>1. CASE Store(sync.job, new) /\ sync' = then
  BY <1>0, <1>1 DEF Store, Notified, SyncTyped
<1>2. CASE UNCHANGED <<rj, pending>> /\ Begin(sync.job, sync.tries + 1) /\ sync.tries < MaxAttempts
  <2>1. sync.tries + 1 \in 1..MaxAttempts
    BY <1>0, <1>2, ConstantsAssumption
  <2> QED BY <1>0, <1>2, <2>1, BeginType DEF SyncTyped
<1>3. CASE UNCHANGED rj /\ sync' = Idle /\ pending' = pending \cup {sync.job}
  BY <1>0, <1>3, IdleType DEF SyncTyped
<1> QED BY <1>1, <1>2, <1>3 DEF UpdateStatus, Retry, Requeue

LEMMA TypeStep == TypeOK /\ [Next]_vars => TypeOK'
<1> SUFFICES ASSUME TypeOK, [Next]_vars PROVE TypeOK'
  OBVIOUS
<1>t. /\ ra \in Applications /\ rj \in [Jobs -> RadixJobs] /\ kj \in [Jobs -> KubeJobStates]
      /\ dying \in [Jobs -> Nat] /\ pending \subseteq Jobs /\ SyncTyped /\ left \in [Disturbances -> Nat]
  BY DEF TypeOK, SyncTyped, SyncRecords
<1>p. ASSUME ra' \in Applications, rj' \in [Jobs -> RadixJobs], kj' \in [Jobs -> KubeJobStates],
             dying' \in [Jobs -> Nat], pending' \subseteq Jobs, SyncTyped', left' \in [Disturbances -> Nat]
      PROVE  TypeOK'
  BY <1>p DEF TypeOK, SyncTyped, SyncRecords
<1>s. ASSUME NEW d \in Disturbances, Spend(d) PROVE left' \in [Disturbances -> Nat]
  <2>1. left[d] - 1 \in Nat /\ left' = [left EXCEPT ![d] = left[d] - 1, !["calm"] = 0]
    BY <1>s, <1>t DEF Spend
  <2>2. [left EXCEPT ![d] = left[d] - 1] \in [Disturbances -> Nat]
    BY <1>t, <2>1
  <2>3. [[left EXCEPT ![d] = left[d] - 1] EXCEPT !["calm"] = 0] \in [Disturbances -> Nat]
    BY <2>2
  <2> QED BY <2>1, <2>3
<1>l. ASSUME UNCHANGED left PROVE left' \in [Disturbances -> Nat]
  BY <1>l, <1>t
<1>u. ASSUME NEW j \in Jobs, NEW new \in RadixJobs, Store(j, new)
      PROVE  rj' \in [Jobs -> RadixJobs] /\ pending' \subseteq Jobs
  BY <1>u, <1>t DEF Store, Notified
<1>k. ASSUME NEW j \in Jobs, KubeEvent(j) PROVE pending' \subseteq Jobs
  BY <1>k, <1>t DEF KubeEvent
<1>x. ASSUME NEW j \in Jobs, Terminate(j)
      PROVE  kj' \in [Jobs -> KubeJobStates] /\ dying' \in [Jobs -> Nat] /\ pending' \subseteq Jobs
  BY <1>x, <1>k, <1>t DEF Terminate, KubeJobStates
<1>y. ASSUME UNCHANGED sync PROVE SyncTyped'
  BY <1>y, <1>t DEF SyncTyped
<1>1. ASSUME NEW j \in Jobs, CreateJob(j) PROVE TypeOK'
  <2>1. PICK k \in Jobs, later \in {0, 1} :
          rj' = [rj EXCEPT ![j] = [Absent EXCEPT !.created = rj[k].created + later]]
    BY <1>1 DEF CreateJob
  <2>2. rj[k].created + later \in Nat
    BY <1>t DEF RadixJobs
  <2>3. [Absent EXCEPT !.created = rj[k].created + later] \in RadixJobs
    BY <2>2, IdleType DEF RadixJobs
  <2> QED BY <1>1, <1>p, <1>l, <1>y, <1>t, <2>1, <2>3 DEF CreateJob
<1>2. ASSUME NEW j \in Jobs, StopJob(j) PROVE TypeOK'
  <2>1. [rj[j] EXCEPT !.stop = TRUE] \in RadixJobs
    BY <1>t DEF RadixJobs
  <2> QED BY <1>2, <1>p, <1>s, <1>y, <1>u, <1>t, <2>1 DEF StopJob, Disturbances
<1>3. ASSUME NEW j \in Jobs, KubeJobDeleted(j) PROVE TypeOK'
  BY <1>3, <1>p, <1>s, <1>x, <1>y, <1>t DEF KubeJobDeleted, Disturbances
<1>4. ASSUME NEW j \in Jobs, StartSync(j) PROVE TypeOK'
  <2>1. SyncTyped'
    BY <1>4, BeginType, ConstantsAssumption DEF StartSync, SyncTyped
  <2> QED BY <1>4, <1>p, <1>l, <1>t, <2>1 DEF StartSync
<1>5. ASSUME NEW j \in Jobs, Pipeline(j) PROVE TypeOK'
  <2>r. ASSUME NEW status \in RunStatuses PROVE [rj[j] EXCEPT !.run = status] \in RadixJobs
    BY <1>t DEF RadixJobs
  <2>1. CASE PodStarts(j)
    BY <2>1, <1>p, <1>l, <1>k, <1>y, <1>t DEF PodStarts, KubeJobStates
  <2>2. CASE RunnerReports(j)
    <3>1. [rj[j] EXCEPT !.run = "Running"] \in RadixJobs
      BY <2>r DEF RunStatuses
    <3> QED BY <2>2, <3>1, <1>p, <1>l, <1>u, <1>y, <1>t DEF RunnerReports
  <2>3. CASE RunnerEnds(j)
    <3>1. PICK status \in Outcomes[j] \ {"Failed"} : Report(j, status)
      BY <2>3 DEF RunnerEnds
    <3>2. [rj[j] EXCEPT !.run = status] \in RadixJobs
      BY <2>r, ConstantsAssumption DEF RunStatuses
    <3>3. rj' \in [Jobs -> RadixJobs] /\ pending' \subseteq Jobs /\ left' \in [Disturbances -> Nat]
      BY <3>1, <3>2, <1>u, <1>s, <1>t DEF Report, Disturbances
    <3> QED BY <2>3, <3>3, <1>p, <1>y, <1>t DEF RunnerEnds, KubeJobStates
  <2>4. CASE PodSucceeds(j)
    BY <2>4, <1>p, <1>l, <1>k, <1>y, <1>t DEF PodSucceeds, KubeJobStates
  <2>5. CASE PodFails(j)
    <3>1. PICK run \in {"Failed", rj[j].run} : rj' = [rj EXCEPT ![j].run = run]
      BY <2>5 DEF PodFails
    <3>2. run \in RunStatuses
      BY <1>t DEF RadixJobs, RunStatuses
    <3>3. rj' \in [Jobs -> RadixJobs]
      BY <3>1, <3>2, <2>r, <1>t
    <3> QED BY <2>5, <3>3, <1>p, <1>l, <1>k, <1>y, <1>t DEF PodFails, KubeJobStates
  <2>6. CASE DyingEnds(j)
    <3>1. dying' \in [Jobs -> Nat] /\ pending' \subseteq Jobs
      BY <2>6, <1>k, <1>t DEF DyingEnds
    <3>2. rj' \in [Jobs -> RadixJobs] /\ left' \in [Disturbances -> Nat]
      <4>1. ASSUME NEW run \in Outcomes[j] \cup {"Stopped", "Failed"}, rj' = [rj EXCEPT ![j].run = run]
            PROVE  rj' \in [Jobs -> RadixJobs]
        <5>1. run \in RunStatuses
          BY ConstantsAssumption DEF RunStatuses
        <5> QED BY <4>1, <5>1, <2>r, <1>t
      <4> QED BY <2>6, <4>1, <1>s, <1>l, <1>t DEF DyingEnds, Disturbances
    <3> QED BY <2>6, <3>1, <3>2, <1>p, <1>y, <1>t DEF DyingEnds
  <2> QED BY <1>5, <2>1, <2>2, <2>3, <2>4, <2>5, <2>6 DEF Pipeline
<1>6. CASE SyncStep
  <2>u. ASSUME sync.pc # "idle", sync.pc # "waken", NEW new \in RadixJobs, NEW then \in SyncRecords,
               then.pc # "idle" => then.job \in Jobs, then.pc # "waken", UpdateStatus(new, then)
        PROVE  rj' \in [Jobs -> RadixJobs] /\ pending' \subseteq Jobs /\ SyncTyped'
    BY <2>u, UpdateType
  <2>1. CASE SyncTargetEnvironments
    <3> DEFINE new == [sync.rj EXCEPT !.envs = TargetEnvironments(sync.job, sync.app)]
    <3>1. sync.job \in Jobs /\ sync.app \in Applications /\ sync.rj \in RadixJobs
      BY <2>1, <1>t DEF SyncTargetEnvironments, SyncTyped, SyncRecords
    <3>2. new \in RadixJobs
      BY <3>1, TargetsType DEF RadixJobs
    <3>3. AfterTargets(new) \in Phases \ {"idle", "waken"}
      BY DEF AfterTargets, Phases
    <3>4. [sync EXCEPT !.rj = new, !.pc = AfterTargets(new)] \in SyncRecords
      BY <3>2, <3>3, <1>t DEF SyncRecords, SyncTyped
    <3> QED BY <2>1, <2>u, <3>1, <3>2, <3>3, <3>4, <1>p, <1>l, <1>t DEF SyncTargetEnvironments, SyncRecords, SyncTyped
  <2>2. CASE DeletePipelineJobs
    <3>1. sync.job \in Jobs /\ sync' = [sync EXCEPT !.pc = "stopped"]
      BY <2>2, <1>t DEF DeletePipelineJobs, SyncTyped
    <3>2. SyncTyped'
      BY <3>1, <1>t DEF SyncTyped, SyncRecords, Phases
    <3> QED BY <2>2, <3>1, <3>2, <1>x, <1>p, <1>l, <1>t DEF DeletePipelineJobs
  <2>3. CASE StopUpdate
    <3> DEFINE new == [sync.rj EXCEPT !.cond = "Stopped"]
    <3>1. sync.job \in Jobs /\ new \in RadixJobs
      BY <2>3, <1>t DEF StopUpdate, SyncTyped, SyncRecords, RadixJobs, Conditions
    <3>2. [sync EXCEPT !.pc = "wake", !.rj = new] \in SyncRecords
      BY <3>1, <1>t DEF SyncRecords, SyncTyped, Phases
    <3> QED BY <2>3, <2>u, <3>1, <3>2, <1>p, <1>l, <1>t DEF StopUpdate, SyncRecords, SyncTyped
  <2>4. CASE HandleJobQueueing
    <3>1. sync.job \in Jobs /\ [sync.rj EXCEPT !.cond = "Queued"] \in RadixJobs
      BY <2>4, <1>t DEF HandleJobQueueing, SyncTyped, SyncRecords, RadixJobs, Conditions
    <3>2. CASE UpdateStatus([sync.rj EXCEPT !.cond = "Queued"], Idle)
      BY <2>4, <2>u, <3>1, <3>2, IdleType, <1>p, <1>l, <1>t DEF HandleJobQueueing
    <3>3. CASE sync' = [sync EXCEPT !.pc = "reconcile"] /\ UNCHANGED <<rj, pending>>
      <4>1. SyncTyped'
        BY <3>1, <3>3, <1>t DEF SyncTyped, SyncRecords, Phases
      <4> QED BY <2>4, <3>3, <4>1, <1>p, <1>l, <1>t DEF HandleJobQueueing
    <3> QED BY <2>4, <3>2, <3>3 DEF HandleJobQueueing
  <2>5. CASE Reconcile
    <3>1. SyncTyped'
      BY <2>5, <1>t DEF Reconcile, SyncTyped, SyncRecords, Phases
    <3> QED BY <2>5, <3>1, <1>p, <1>l, <1>t DEF Reconcile, KubeJobStates
  <2>6. CASE SyncStatusRead
    <3>1. sync.job \in Jobs /\ sync.rj.cond \in Conditions /\ sync.rj.run \in RunStatuses
      BY <2>6, <1>t DEF SyncStatusRead, SyncTyped, SyncRecords, RadixJobs
    <3>2. FindJobCondition(kj[sync.job], sync.rj.run) \in Conditions
      BY <3>1 DEF FindJobCondition, Conditions, RunStatuses
    <3>3. SyncTyped'
      BY <2>6, <3>1, <3>2, <1>t DEF SyncStatusRead, SyncTyped, SyncRecords, Phases
    <3> QED BY <2>6, <3>3, <1>p, <1>l, <1>t DEF SyncStatusRead
  <2>7. CASE SyncStatusUpdate
    <3> DEFINE new == [sync.rj EXCEPT !.cond = sync.cond]
    <3>1. sync.job \in Jobs /\ new \in RadixJobs
      BY <2>7, <1>t DEF SyncStatusUpdate, SyncTyped, SyncRecords, RadixJobs
    <3>2. \A phase \in {"wake", "failed"} : [sync EXCEPT !.pc = phase, !.rj = new] \in SyncRecords
      BY <3>1, <1>t DEF SyncRecords, SyncTyped, Phases
    <3>3. ASSUME NEW phase \in {"wake", "failed"}, UpdateStatus(new, [sync EXCEPT !.pc = phase, !.rj = new])
          PROVE  TypeOK'
      BY <2>7, <2>u, <3>1, <3>2, <3>3, <1>p, <1>l, <1>t DEF SyncStatusUpdate, SyncRecords, SyncTyped
    <3>4. CASE UpdateStatus(new, Idle)
      BY <2>7, <2>u, <3>1, <3>4, IdleType, <1>p, <1>l, <1>t DEF SyncStatusUpdate
    <3> QED BY <2>7, <3>3, <3>4 DEF SyncStatusUpdate
  <2>8. CASE SetNextJobToWaiting
    <3>1. CASE sync' = Idle
      BY <2>8, <3>1, IdleType, <1>p, <1>l, <1>t DEF SetNextJobToWaiting, SyncTyped
    <3>2. ASSUME NEW k \in Wakeable(sync.app), sync' = [sync EXCEPT !.pc = "waken", !.next = k, !.nextRj = rj[k]]
          PROVE  TypeOK'
      <4>1. k \in Jobs /\ sync.job \in Jobs
        BY <2>8, <1>t DEF Wakeable, SetNextJobToWaiting, SyncTyped
      <4>2. SyncTyped'
        BY <3>2, <4>1, <1>t DEF SyncTyped, SyncRecords, Phases
      <4> QED BY <2>8, <4>2, <1>p, <1>l, <1>t DEF SetNextJobToWaiting
    <3> QED BY <2>8, <3>1, <3>2 DEF SetNextJobToWaiting
  <2>9. CASE UpdateNextJob
    <3>1. /\ sync.job \in Jobs /\ sync.next \in Jobs /\ sync.tries \in 0..MaxAttempts
          /\ [sync.nextRj EXCEPT !.cond = "Waiting"] \in RadixJobs
      BY <2>9, <1>t DEF UpdateNextJob, SyncTyped, SyncRecords, RadixJobs, Conditions
    <3>2. CASE Store(sync.next, [sync.nextRj EXCEPT !.cond = "Waiting"]) /\ sync' = Idle
      <4>1. SyncTyped'
        BY <3>2, IdleType DEF SyncTyped
      <4> QED BY <2>9, <3>1, <3>2, <4>1, <1>u, <1>p, <1>l, <1>t DEF UpdateNextJob
    <3>3. CASE Retry /\ UNCHANGED rj
      <4>1. SyncTyped' /\ pending' \subseteq Jobs
        <5>1. CASE sync' = Idle /\ pending' = pending \cup {sync.job}
          BY <5>1, <3>1, IdleType, <1>t DEF SyncTyped
        <5>2. CASE sync.tries < MaxAttempts /\ Begin(sync.job, sync.tries + 1) /\ UNCHANGED pending
          <6>1. sync.tries + 1 \in 1..MaxAttempts
            BY <5>2, <3>1, ConstantsAssumption
          <6> QED BY <5>2, <6>1, <3>1, BeginType, <1>t DEF SyncTyped
        <5> QED BY <3>3, <5>1, <5>2 DEF Retry, Requeue
      <4> QED BY <2>9, <3>3, <4>1, <1>p, <1>l, <1>t DEF UpdateNextJob
    <3> QED BY <2>9, <3>2, <3>3 DEF UpdateNextJob
  <2>10. CASE ReconcileFails
    <3>1. SyncTyped'
      BY <2>10, <1>t DEF ReconcileFails, SyncTyped, SyncRecords, Phases
    <3> QED BY <2>10, <3>1, <1>p, <1>s, <1>t DEF ReconcileFails, Disturbances
  <2>11. CASE SyncReturnsError
    <3>1. SyncTyped' /\ pending' \subseteq Jobs
      BY <2>11, IdleType, <1>t DEF SyncReturnsError, Requeue, SyncTyped
    <3> QED BY <2>11, <3>1, <1>p, <1>l, <1>t DEF SyncReturnsError
  <2> QED BY <1>6, <2>1, <2>2, <2>3, <2>4, <2>5, <2>6, <2>7, <2>8, <2>9, <2>10, <2>11 DEF SyncStep
<1>7. CASE SyncFails
  <2>1. SyncTyped' /\ pending' \subseteq Jobs
    BY <1>7, IdleType, <1>t DEF SyncFails, Requeue, SyncTyped
  <2> QED BY <1>7, <2>1, <1>p, <1>s, <1>t DEF SyncFails, Disturbances
<1>8. CASE Crash
  <2>1. SyncTyped' /\ pending' \subseteq Jobs
    BY <1>8, IdleType, <1>t DEF Crash, SyncTyped
  <2> QED BY <1>8, <2>1, <1>p, <1>s, <1>t DEF Crash, Disturbances
<1>9. CASE ChangeApplication
  BY <1>9, <1>p, <1>s, <1>y, <1>t DEF ChangeApplication, Disturbances
<1>10. CASE UNCHANGED vars
  BY <1>10, <1>p, <1>l, <1>y, <1>t DEF vars
<1> QED BY <1>1, <1>2, <1>3, <1>4, <1>5, <1>6, <1>7, <1>8, <1>9, <1>10 DEF Next

LEMMA TypeAtFirst == Init => TypeOK
<1> SUFFICES ASSUME Init PROVE TypeOK
  OBVIOUS
<1>1. \A j \in Jobs : Ended(j) \in RadixJobs
  BY TargetsType, ConstantsAssumption DEF Ended, RadixJobs, Conditions, RunStatuses
<1>2. PICK s \in Starts :
        /\ rj = [j \in Jobs |-> IF j \in s.done THEN Ended(j) ELSE Absent]
        /\ kj = [j \in Jobs |-> IF j \in s.done THEN "succeeded" ELSE "none"]
        /\ left = s.left
  BY DEF Init
<1>3. rj \in [Jobs -> RadixJobs] /\ kj \in [Jobs -> KubeJobStates] /\ left \in [Disturbances -> Nat]
  BY <1>1, <1>2, IdleType, ConstantsAssumption DEF KubeJobStates
<1> QED BY <1>3, IdleType, ConstantsAssumption DEF Init, TypeOK, SyncRecords

(* The stored RadixJobs, the Sync in progress and the queue keep their types. *)
THEOREM TypeCorrect == Spec => []TypeOK
  BY TypeStep, TypeAtFirst, PTL DEF Spec

-----------------------------------------------------------------------------
(* The application keeps its branch mapping from here on. *)
Targets(j) == TargetEnvironments(j, Application0)

Clash(j, k) == Targets(j) \cap Targets(k) # {} \/ SameUnmappedBuild(j, k, Application0)

Fixed == ra = Application0 /\ sync.app = Application0

(* Only created jobs have a condition, are queued, or are synced. *)
Created ==
  /\ \A j \in Jobs : rj[j].cond # "" => Exists(j)
  /\ \A j \in pending : Exists(j)
  /\ sync.pc # "idle" => Exists(sync.job)

Targeted == \A j \in Jobs : rj[j].envs \subseteq Targets(j)

(* No job that clashes with j is waiting or running. *)
Clear(j) == \A k \in Jobs \ {j} : Active(k) => ~Clash(j, k)

Apart == \A j \in Jobs : Active(j) => Clear(j)

(* A Sync that goes on to create or follow the pipeline job has a clear way, and
   so has the job it is about to wake. *)
SyncClear == sync.pc \in {"reconcile", "status", "update"} => Clear(sync.job)
NextClear == sync.pc = "waken" => Clear(sync.next) /\ sync.nextRj.cond = "Queued"

(* The copy a Sync starts from was not done. *)
SyncOpen == sync.pc = "targets" => ~IsDone(sync.rj.cond)

QueueInv == Fixed /\ Created /\ Targeted /\ Apart /\ SyncClear /\ NextClear /\ SyncOpen

LEMMA ClashSymmetric == \A j, k \in Jobs : Clash(j, k) => Clash(k, j)
  BY DEF Clash, SameUnmappedBuild, Targets

(* What isOtherJobRunningOnBranchOrEnvironment promises when it returns false. *)
LEMMA NotBlocked ==
  ASSUME Created, NEW j \in Jobs, ~IsOtherJobRunningOnBranchOrEnvironment(j, Application0)
  PROVE  Clear(j)
<1> SUFFICES ASSUME NEW k \in Jobs \ {j}, Active(k) PROVE ~Clash(j, k)
  BY DEF Clear
<1>1. Exists(k) /\ IsWaitingOrRunning(rj[k].cond)
  BY DEF Created, Active, IsWaitingOrRunning
<1> QED BY <1>1 DEF IsOtherJobRunningOnBranchOrEnvironment, Clash, SameUnmappedBuild, Targets,
     HasConflictingTargetEnvironments

(* Starting a Sync over, on the current RadixJob. *)
LEMMA BeginClear ==
  ASSUME TypeOK, QueueInv, NEW j \in Jobs, Exists(j), NEW try \in Nat, Begin(j, try), UNCHANGED <<ra, rj>>
  PROVE  /\ sync'.app = Application0
         /\ sync'.pc # "idle" => sync'.job = j
         /\ sync'.pc \in {"reconcile", "status", "update"} => Clear(j)
         /\ sync'.pc # "waken"
         /\ SyncOpen'
<1>1. CASE IsDone(rj[j].cond)
  BY <1>1 DEF Begin, Idle, SyncOpen
<1>2. CASE ~IsDone(rj[j].cond)
  <2>1. /\ sync'.app = ra /\ sync'.pc = FirstPhase(rj[j]) /\ sync'.job = j /\ sync'.rj = rj[j]
    BY <1>2 DEF Begin, Idle
  <2>2. FirstPhase(rj[j]) \in {"targets", "stop", "queueing", "reconcile"}
    BY DEF FirstPhase, AfterTargets
  <2>3. FirstPhase(rj[j]) = "reconcile" => Active(j)
    BY <1>2 DEF FirstPhase, AfterTargets, TypeOK, RadixJobs, Conditions, IsQueuedOrEmpty, IsDone,
       Active, IsWaitingOrRunning
  <2>4. SyncOpen'
    BY <1>2, <2>1 DEF SyncOpen, IsDone
  <2> QED BY <2>1, <2>2, <2>3, <2>4 DEF QueueInv, Fixed, Apart
<1> QED BY <1>1, <1>2

(* A step that changes neither the conditions nor the Sync keeps the invariant. *)
LEMMA QuietStep ==
  ASSUME TypeOK, QueueInv, UNCHANGED <<ra, sync>>, \A j \in pending' : Exists(j)',
         \A j \in Jobs : rj'[j].cond = rj[j].cond /\ rj'[j].envs \subseteq Targets(j),
         \A j \in Jobs : Exists(j) => Exists(j)'
  PROVE  QueueInv'
<1>1. \A j \in Jobs : Active(j)' <=> Active(j)
  BY DEF Active, IsWaitingOrRunning
<1>2. \A j \in Jobs : Clear(j)' <=> Clear(j)
  BY <1>1 DEF Clear, Clash, Targets, SameUnmappedBuild
<1>3. sync.pc # "idle" => sync.job \in Jobs
  BY DEF TypeOK
<1>4. sync.pc = "waken" => sync.next \in Jobs
  BY DEF TypeOK
<1>5. Fixed' /\ Created' /\ Targeted'
  BY <1>3 DEF QueueInv, Fixed, Created, Targeted
<1>6. Apart' /\ SyncClear' /\ NextClear' /\ SyncOpen'
  BY <1>1, <1>2, <1>3, <1>4 DEF QueueInv, Apart, SyncClear, NextClear, SyncOpen
<1> QED BY <1>5, <1>6 DEF QueueInv

(* Setting a job with a clear way to any condition keeps the active jobs apart. *)
LEMMA SetCondition ==
  ASSUME TypeOK, QueueInv, NEW j \in Jobs, UNCHANGED ra,
         \A k \in Jobs \ {j} : rj'[k] = rj[k], Active(j)' => Clear(j)
  PROVE  Apart'
<1>1. \A k \in Jobs \ {j} : Active(k)' <=> Active(k)
  BY DEF Active, IsWaitingOrRunning
<1> SUFFICES ASSUME NEW i \in Jobs, NEW k \in Jobs \ {i}, Active(i)', Active(k)' PROVE ~Clash(i, k)
  BY DEF Apart, Clear, Clash, Targets, SameUnmappedBuild
<1>2. CASE i = j
  BY <1>1, <1>2 DEF Clear
<1>3. CASE k = j
  BY <1>1, <1>3, ClashSymmetric DEF Clear
<1>4. CASE i # j /\ k # j
  BY <1>1, <1>4 DEF QueueInv, Apart, Clear
<1> QED BY <1>2, <1>3, <1>4

(* A step of the Sync that writes nothing keeps the invariant if it goes on with a clear way. *)
LEMMA MoveStep ==
  ASSUME TypeOK, QueueInv, UNCHANGED ra, UNCHANGED rj, NEW me \in Jobs, Exists(me),
         pending' \subseteq pending \cup {me}, sync'.app = Application0,
         sync'.pc # "idle" => sync'.job = me,
         sync'.pc \in {"reconcile", "status", "update"} => Clear(me),
         sync'.pc = "waken" => sync'.next \in Jobs /\ Clear(sync'.next) /\ sync'.nextRj.cond = "Queued",
         SyncOpen'
  PROVE  QueueInv'
<1>1. \A j \in Jobs : (Active(j)' <=> Active(j)) /\ (Clear(j)' <=> Clear(j))
  BY DEF Active, Clear, Clash, Targets, SameUnmappedBuild
<1>2. Fixed' /\ Created' /\ Targeted'
  BY DEF QueueInv, Fixed, Created, Targeted, Exists
<1>3. Apart' /\ SyncClear' /\ NextClear'
  BY <1>1 DEF QueueInv, Apart, SyncClear, NextClear
<1> QED BY <1>2, <1>3 DEF QueueInv

(* A Sync that met a conflict starts over with the current RadixJob. *)
LEMMA RetryStep ==
  ASSUME TypeOK, QueueInv, UNCHANGED ra, UNCHANGED rj, sync.pc # "idle", Retry
  PROVE  QueueInv'
<1>m. PICK me \in Jobs : me = sync.job
  BY DEF TypeOK
<1>0. Exists(me) /\ sync.tries \in 0..MaxAttempts
  BY <1>m DEF TypeOK, QueueInv, Created
<1>1. CASE sync' = Idle /\ pending' = pending \cup {me}
  <2>1. sync'.app = Application0 /\ sync'.pc = "idle" /\ SyncOpen'
    BY <1>1 DEF Idle, SyncOpen
  <2> QED BY <1>0, <1>1, <2>1, MoveStep
<1>2. CASE Begin(me, sync.tries + 1) /\ UNCHANGED pending
  <2>1. /\ sync'.app = Application0
        /\ sync'.pc # "idle" => sync'.job = me
        /\ sync'.pc \in {"reconcile", "status", "update"} => Clear(me)
        /\ sync'.pc # "waken"
        /\ SyncOpen'
    BY <1>0, <1>2, BeginClear
  <2> QED BY <1>0, <1>2, <2>1, MoveStep
<1> QED BY <1>m, <1>1, <1>2 DEF Retry, Requeue

(* A status update of the synced job: `new' is stored, or the Sync starts over. *)
LEMMA UpdateStep ==
  ASSUME TypeOK, QueueInv, UNCHANGED ra, sync.pc \notin {"idle", "waken"},
         NEW new \in RadixJobs, new.created = sync.rj.created,
         new.envs = sync.rj.envs \/ new.envs = Targets(sync.job),
         IsWaitingOrRunning(new.cond) => new.cond = sync.rj.cond \/ Clear(sync.job),
         NEW then \in SyncRecords, then.app = Application0, then.pc # "waken",
         then.pc # "idle" => then.job = sync.job, then.pc # "targets",
         then.pc \in {"reconcile", "status", "update"} => IsWaitingOrRunning(new.cond),
         UpdateStatus(new, then)
  PROVE  QueueInv'
<1>m. PICK me \in Jobs : me = sync.job
  BY DEF TypeOK
<1>0. me = sync.job /\ Exists(me) /\ sync.tries \in 0..MaxAttempts /\ rj \in [Jobs -> RadixJobs]
  BY <1>m DEF TypeOK, QueueInv, Created
<1>1. CASE rj[me] = sync.rj /\ Store(me, new) /\ sync' = then
  <2>1. /\ rj'[me] = new /\ \A k \in Jobs \ {me} : rj'[k] = rj[k]
        /\ new.created > 0 /\ pending' \subseteq pending \cup {me}
    BY <1>0, <1>1 DEF Store, Notified, Exists
  <2>2. Active(me)' => Clear(me)
    BY <1>0, <1>1, <2>1 DEF Active, QueueInv, Apart
  <2>3. Apart'
    BY <1>0, <2>1, <2>2, SetCondition
  <2>4. Created'
    <3>1. \A k \in Jobs : Exists(k) => Exists(k)'
      BY <2>1 DEF Exists
    <3>2. \A k \in Jobs : rj'[k].cond # "" => Exists(k)'
      BY <1>0, <2>1, <3>1 DEF QueueInv, Created
    <3>3. \A k \in pending' : Exists(k)'
      BY <1>0, <2>1, <3>1 DEF QueueInv, Created, TypeOK
    <3>4. (sync.pc # "idle" => Exists(sync.job))'
      BY <1>0, <1>1, <2>1 DEF Exists
    <3> QED BY <3>2, <3>3, <3>4 DEF Created
  <2>5. Targeted' /\ Fixed'
    BY <1>0, <1>1, <2>1 DEF QueueInv, Targeted, Fixed
  <2>6. SyncClear' /\ NextClear' /\ SyncOpen'
    BY <1>0, <1>1, <2>1, <2>3 DEF SyncClear, NextClear, Apart, Active, SyncOpen
  <2> QED BY <2>3, <2>4, <2>5, <2>6 DEF QueueInv
<1>2. CASE UNCHANGED rj /\ Retry
  <2>1. UNCHANGED ra /\ UNCHANGED rj /\ sync.pc # "idle"
    BY <1>2
  <2>2. Retry
    BY <1>2
  <2> QED BY <2>1, <2>2, RetryStep
<1> QED BY <1>0, <1>1, <1>2 DEF UpdateStatus

(* The steps of users, Kubernetes and the runner leave every condition alone. *)
LEMMA EnvironmentStep ==
  ASSUME TypeOK, QueueInv, NEW j \in Jobs,
         CreateJob(j) \/ StopJob(j) \/ KubeJobDeleted(j) \/ Pipeline(j)
  PROVE  QueueInv'
<1>t. rj \in [Jobs -> RadixJobs] /\ \A k \in Jobs : rj[k].created \in Nat /\ rj[k].envs \subseteq Targets(k)
  BY DEF TypeOK, RadixJobs, QueueInv, Targeted
<1>c. \A k \in Jobs : rj[k].cond # "" => Exists(k)
  BY DEF QueueInv, Created
<1>p. \A k \in pending : k \in Jobs /\ Exists(k)
  BY DEF QueueInv, Created, TypeOK
<1>q. ASSUME NEW new, rj' = [rj EXCEPT ![j] = new], new.cond = rj[j].cond, new.envs \subseteq Targets(j),
             new.created = rj[j].created \/ new.created > 0,
             pending' \subseteq pending \cup {j}, j \in pending' => j \in pending \/ new.created > 0,
             UNCHANGED <<ra, sync>>
      PROVE  QueueInv'
  <2>1. \A k \in Jobs : rj'[k].cond = rj[k].cond /\ rj'[k].envs \subseteq Targets(k)
    BY <1>q, <1>t
  <2>2. \A k \in Jobs : Exists(k) => Exists(k)'
    BY <1>q, <1>t DEF Exists
  <2>3. \A k \in pending' : Exists(k)'
    BY <1>q, <1>t, <1>p, <2>2 DEF Exists
  <2> QED BY <1>q, <2>1, <2>2, <2>3, QuietStep
<1>r. ASSUME UNCHANGED <<ra, rj, sync>>, KubeEvent(j) \/ UNCHANGED pending PROVE QueueInv'
  <2>1. rj' = [rj EXCEPT ![j] = rj[j]]
    BY <1>r, <1>t
  <2>2. pending' \subseteq pending \cup {j} /\ (j \in pending' => j \in pending \/ rj[j].created > 0)
    BY <1>r DEF KubeEvent, Exists
  <2> QED BY <1>r, <2>1, <2>2, <1>q, <1>t
<1>1. CASE CreateJob(j)
  <2>1. PICK k \in Jobs, later \in {0, 1} :
          /\ rj[k].created + later > 0
          /\ rj' = [rj EXCEPT ![j] = [Absent EXCEPT !.created = rj[k].created + later]]
    BY <1>1 DEF CreateJob
  <2>2. rj[j].cond = ""
    BY <1>1, <1>c DEF CreateJob
  <2> QED BY <1>1, <2>1, <2>2, <1>q DEF CreateJob, Absent
<1>2. CASE StopJob(j)
  <2>1. rj' = [rj EXCEPT ![j] = [rj[j] EXCEPT !.stop = TRUE]] /\ rj[j].created > 0
    BY <1>2 DEF StopJob, Store, Exists
  <2>2. pending' \subseteq pending \cup {j} /\ UNCHANGED <<ra, sync>>
    BY <1>2 DEF StopJob, Store, Notified
  <2>3. /\ [rj[j] EXCEPT !.stop = TRUE].cond = rj[j].cond /\ [rj[j] EXCEPT !.stop = TRUE].envs = rj[j].envs
        /\ [rj[j] EXCEPT !.stop = TRUE].created = rj[j].created
    BY <1>t DEF RadixJobs
  <2> QED BY <2>1, <2>2, <2>3, <1>q, <1>t
<1>3. ASSUME NEW status, Store(j, [rj[j] EXCEPT !.run = status]) \/
             (rj' = [rj EXCEPT ![j] = [rj[j] EXCEPT !.run = status]] /\ (KubeEvent(j) \/ UNCHANGED pending)),
             UNCHANGED <<ra, sync>>
      PROVE  QueueInv'
  <2>1. rj' = [rj EXCEPT ![j] = [rj[j] EXCEPT !.run = status]]
    BY <1>3 DEF Store
  <2>2. /\ [rj[j] EXCEPT !.run = status].cond = rj[j].cond /\ [rj[j] EXCEPT !.run = status].envs = rj[j].envs
        /\ [rj[j] EXCEPT !.run = status].created = rj[j].created /\ [rj[j] EXCEPT !.run = status].stop = rj[j].stop
    BY <1>t DEF RadixJobs
  <2>3. pending' \subseteq pending \cup {j} /\ (j \in pending' => j \in pending \/ rj[j].created > 0)
    BY <1>3, <2>2 DEF Store, Notified, KubeEvent, Exists
  <2> QED BY <1>3, <2>1, <2>2, <2>3, <1>q, <1>t
<1>4. CASE KubeJobDeleted(j)
  BY <1>4, <1>r DEF KubeJobDeleted, Terminate
<1>5. CASE Pipeline(j)
  <2>1. CASE PodStarts(j) \/ PodSucceeds(j)
    BY <2>1, <1>r DEF PodStarts, PodSucceeds
  <2>2. CASE RunnerReports(j)
    BY <2>2, <1>3 DEF RunnerReports
  <2>3. CASE RunnerEnds(j)
    BY <2>3, <1>3, <1>r DEF RunnerEnds, Report
  <2>4. CASE PodFails(j)
    <3>1. PICK run : rj' = [rj EXCEPT ![j] = [rj[j] EXCEPT !.run = run]]
      BY <2>4 DEF PodFails
    <3> QED BY <2>4, <3>1, <1>3 DEF PodFails
  <2>5. CASE DyingEnds(j)
    <3>1. UNCHANGED rj \/ \E run : rj' = [rj EXCEPT ![j] = [rj[j] EXCEPT !.run = run]]
      BY <2>5 DEF DyingEnds
    <3> QED BY <2>5, <3>1, <1>3, <1>r DEF DyingEnds
  <2> QED BY <1>5, <2>1, <2>2, <2>3, <2>4, <2>5 DEF Pipeline
<1> QED BY <1>1, <1>2, <1>4, <1>5

(* Every step of a Sync keeps the active jobs apart. *)
LEMMA SyncKeepsInv ==
  ASSUME TypeOK, QueueInv, SyncStep
  PROVE  QueueInv'
<1>m. sync.pc # "idle" /\ sync.app = Application0 /\ UNCHANGED ra
  BY DEF QueueInv, Fixed, SyncStep, SyncTargetEnvironments, DeletePipelineJobs, StopUpdate,
     HandleJobQueueing, Reconcile, SyncStatusRead, SyncStatusUpdate, SetNextJobToWaiting, UpdateNextJob,
     ReconcileFails, SyncReturnsError
<1>j. PICK me \in Jobs : me = sync.job
  BY <1>m DEF TypeOK
<1>t. /\ Exists(me) /\ sync \in SyncRecords /\ sync.rj \in RadixJobs /\ rj \in [Jobs -> RadixJobs]
      /\ Idle \in SyncRecords /\ Idle.app = Application0 /\ Idle.pc = "idle"
  BY <1>m, <1>j, IdleType DEF TypeOK, QueueInv, Created, SyncRecords, Idle
<1>g. ASSUME UNCHANGED rj, NEW phase, sync'.pc = phase, sync'.job = me, sync'.app = sync.app,
             phase \notin {"waken", "targets"}, phase \in {"reconcile", "status", "update"} => Clear(me),
             pending' \subseteq pending \cup {me}
      PROVE  QueueInv'
  <2>1. SyncOpen'
    BY <1>g DEF SyncOpen
  <2> QED BY <1>m, <1>t, <1>g, <2>1, MoveStep
<1>1. CASE SyncTargetEnvironments
  <2>1. PICK new : new = [sync.rj EXCEPT !.envs = Targets(me)]
    OBVIOUS
  <2>2. /\ new \in RadixJobs /\ new.created = sync.rj.created /\ new.envs = Targets(me)
        /\ new.cond = sync.rj.cond
    BY <1>m, <1>t, <2>1, TargetsType, ConstantsAssumption DEF RadixJobs, Targets
  <2>3. PICK then : then = [sync EXCEPT !.rj = new, !.pc = AfterTargets(new)]
    OBVIOUS
  <2>4. AfterTargets(new) \in {"stop", "queueing", "reconcile"}
    BY DEF AfterTargets
  <2>5. AfterTargets(new) = "reconcile" => IsWaitingOrRunning(new.cond)
    BY <1>1, <2>2 DEF AfterTargets, QueueInv, SyncOpen, SyncTargetEnvironments, RadixJobs, Conditions,
       IsDone, IsQueuedOrEmpty, IsWaitingOrRunning
  <2>6. /\ then \in SyncRecords /\ then.app = Application0 /\ then.pc = AfterTargets(new) /\ then.job = me
    BY <1>m, <1>j, <1>t, <2>2, <2>3, <2>4 DEF SyncRecords, Phases
  <2>7. UpdateStatus(new, then) /\ sync.pc = "targets"
    BY <1>m, <1>j, <1>1, <2>1, <2>3 DEF SyncTargetEnvironments, Targets
  <2> QED BY <1>m, <1>j, <2>2, <2>4, <2>5, <2>6, <2>7, UpdateStep
<1>2. CASE DeletePipelineJobs
  <2>1. sync'.pc = "stopped" /\ sync'.job = me /\ sync'.app = sync.app
    BY <1>j, <1>t, <1>2 DEF DeletePipelineJobs, SyncRecords
  <2>2. UNCHANGED rj /\ pending' \subseteq pending \cup {me}
    BY <1>j, <1>2 DEF DeletePipelineJobs, Terminate, KubeEvent
  <2> QED BY <2>1, <2>2, <1>g
<1>3. CASE StopUpdate
  <2>1. PICK new : new = [sync.rj EXCEPT !.cond = "Stopped"]
    OBVIOUS
  <2>2. /\ new \in RadixJobs /\ new.created = sync.rj.created /\ new.envs = sync.rj.envs
        /\ ~IsWaitingOrRunning(new.cond)
    BY <1>t, <2>1 DEF RadixJobs, Conditions, IsWaitingOrRunning
  <2>3. PICK then : then = [sync EXCEPT !.pc = "wake", !.rj = new]
    OBVIOUS
  <2>4. then \in SyncRecords /\ then.app = Application0 /\ then.pc = "wake" /\ then.job = me
    BY <1>m, <1>j, <1>t, <2>2, <2>3 DEF SyncRecords, Phases
  <2>5. UpdateStatus(new, then) /\ sync.pc = "stopped"
    BY <1>3, <2>1, <2>3 DEF StopUpdate
  <2> QED BY <1>m, <1>j, <2>2, <2>4, <2>5, UpdateStep
<1>4. CASE HandleJobQueueing
  <2>1. PICK new : new = [sync.rj EXCEPT !.cond = "Queued"]
    OBVIOUS
  <2>2. /\ new \in RadixJobs /\ new.created = sync.rj.created /\ new.envs = sync.rj.envs
        /\ ~IsWaitingOrRunning(new.cond)
    BY <1>t, <2>1 DEF RadixJobs, Conditions, IsWaitingOrRunning
  <2>3. CASE UpdateStatus(new, Idle)
    <3>1. sync.pc = "queueing"
      BY <1>4 DEF HandleJobQueueing
    <3> QED BY <1>m, <1>t, <2>2, <2>3, <3>1, UpdateStep
  <2>4. CASE /\ ~IsOtherJobRunningOnBranchOrEnvironment(sync.job, sync.app)
             /\ sync' = [sync EXCEPT !.pc = "reconcile"] /\ UNCHANGED <<rj, pending>>
    <3>1. Clear(me)
      BY <1>m, <1>j, <2>4, NotBlocked DEF QueueInv
    <3>2. sync'.pc = "reconcile" /\ sync'.job = me /\ sync'.app = sync.app
      BY <1>j, <1>t, <2>4 DEF SyncRecords
    <3> QED BY <2>4, <3>1, <3>2, <1>g
  <2> QED BY <1>4, <2>1, <2>3, <2>4 DEF HandleJobQueueing
<1>5. CASE Reconcile
  <2>1. sync'.pc = "status" /\ sync'.job = me /\ sync'.app = sync.app
    BY <1>j, <1>t, <1>5 DEF Reconcile, SyncRecords
  <2>2. Clear(me) /\ UNCHANGED <<rj, pending>>
    BY <1>j, <1>5 DEF Reconcile, QueueInv, SyncClear
  <2> QED BY <2>1, <2>2, <1>g
<1>6. CASE SyncStatusRead
  <2>1. sync'.pc = "update" /\ sync'.job = me /\ sync'.app = sync.app
    BY <1>j, <1>t, <1>6 DEF SyncStatusRead, SyncRecords
  <2>2. Clear(me) /\ UNCHANGED <<rj, pending>>
    BY <1>j, <1>6 DEF SyncStatusRead, QueueInv, SyncClear
  <2> QED BY <2>1, <2>2, <1>g
<1>7. CASE SyncStatusUpdate
  <2>1. PICK new : new = [sync.rj EXCEPT !.cond = sync.cond]
    OBVIOUS
  <2>2. new \in RadixJobs /\ new.created = sync.rj.created /\ new.envs = sync.rj.envs
    BY <1>t, <2>1 DEF RadixJobs, SyncRecords
  <2>3. Clear(sync.job) /\ sync.pc = "update"
    BY <1>7 DEF SyncStatusUpdate, QueueInv, SyncClear
  <2>4. ASSUME NEW phase \in {"wake", "failed"}, NEW then, then = [sync EXCEPT !.pc = phase, !.rj = new],
               UpdateStatus(new, then)
        PROVE  QueueInv'
    <3>1. then \in SyncRecords /\ then.app = Application0 /\ then.pc = phase /\ then.job = me
      BY <1>m, <1>j, <1>t, <2>2, <2>4 DEF SyncRecords, Phases
    <3> QED BY <1>m, <1>j, <2>2, <2>3, <2>4, <3>1, UpdateStep
  <2>5. CASE UpdateStatus(new, Idle)
    BY <1>m, <1>t, <2>2, <2>3, <2>5, UpdateStep
  <2> QED BY <1>7, <2>1, <2>4, <2>5 DEF SyncStatusUpdate
<1>8. CASE SetNextJobToWaiting
  <2>0. UNCHANGED <<rj, pending>>
    BY <1>8 DEF SetNextJobToWaiting
  <2>1. CASE sync' = Idle
    <3>1. SyncOpen'
      BY <1>t, <2>1 DEF SyncOpen
    <3> QED BY <1>m, <1>t, <2>0, <2>1, <3>1, MoveStep
  <2>2. ASSUME NEW k \in Wakeable(sync.app), sync' = [sync EXCEPT !.pc = "waken", !.next = k, !.nextRj = rj[k]]
        PROVE  QueueInv'
    <3>1. k \in Jobs /\ rj[k].cond = "Queued" /\ Clear(k)
      BY <1>m, NotBlocked DEF Wakeable, QueueInv
    <3>2. /\ sync'.pc = "waken" /\ sync'.job = me /\ sync'.app = Application0
          /\ sync'.next = k /\ sync'.nextRj = rj[k]
      BY <1>m, <1>j, <1>t, <2>2 DEF SyncRecords
    <3>3. SyncOpen'
      BY <3>2 DEF SyncOpen
    <3> QED BY <1>m, <1>t, <2>0, <3>1, <3>2, <3>3, MoveStep
  <2> QED BY <1>8, <2>1, <2>2 DEF SetNextJobToWaiting
<1>9. CASE UpdateNextJob
  <2>1. CASE Retry /\ UNCHANGED rj
    BY <1>m, <2>1, RetryStep
  <2>2. CASE /\ rj[sync.next] = sync.nextRj /\ sync' = Idle
             /\ Store(sync.next, [sync.nextRj EXCEPT !.cond = "Waiting"])
    <3>1. PICK k \in Jobs : k = sync.next
      BY <1>9 DEF UpdateNextJob, TypeOK
    <3>2. PICK new : new = [rj[k] EXCEPT !.cond = "Waiting"]
      OBVIOUS
    <3>3. Clear(k) /\ rj[k].cond = "Queued" /\ Exists(k)
      BY <1>9, <2>2, <3>1 DEF UpdateNextJob, QueueInv, NextClear, Created
    <3>4. /\ rj' = [rj EXCEPT ![k] = new] /\ new.created = rj[k].created /\ new.envs = rj[k].envs
          /\ pending' \subseteq pending \cup {k}
      BY <1>t, <2>2, <3>1, <3>2 DEF Store, Notified, RadixJobs
    <3>5. Apart'
      BY <1>m, <1>t, <3>3, <3>4, SetCondition
    <3>6. Created'
      <4>1. \A i \in Jobs : Exists(i)' <=> Exists(i)
        BY <1>t, <3>4 DEF Exists
      <4>2. \A i \in Jobs : rj'[i].cond # "" => Exists(i)'
        BY <1>t, <3>3, <3>4, <4>1 DEF QueueInv, Created
      <4>3. \A i \in pending' : Exists(i)'
        BY <3>3, <3>4, <4>1 DEF QueueInv, Created, TypeOK
      <4> QED BY <1>t, <2>2, <4>2, <4>3 DEF Created
    <3>7. Targeted' /\ Fixed'
      BY <1>m, <1>t, <2>2, <3>4 DEF QueueInv, Targeted, Fixed
    <3>8. SyncClear' /\ NextClear' /\ SyncOpen'
      BY <1>t, <2>2 DEF SyncClear, NextClear, SyncOpen
    <3> QED BY <3>5, <3>6, <3>7, <3>8 DEF QueueInv
  <2> QED BY <1>9, <2>1, <2>2 DEF UpdateNextJob
<1>10. CASE ReconcileFails
  <2>1. sync'.pc = "status" /\ sync'.job = me /\ sync'.app = sync.app
    BY <1>j, <1>t, <1>10 DEF ReconcileFails, SyncRecords
  <2>2. Clear(me) /\ UNCHANGED <<rj, pending>>
    BY <1>j, <1>10 DEF ReconcileFails, QueueInv, SyncClear
  <2> QED BY <2>1, <2>2, <1>g
<1>11. CASE SyncReturnsError
  <2>1. SyncOpen' /\ sync' = Idle /\ UNCHANGED rj /\ pending' \subseteq pending \cup {me}
    BY <1>j, <1>t, <1>11 DEF SyncReturnsError, Requeue, SyncOpen
  <2> QED BY <1>m, <1>t, <2>1, MoveStep
<1> QED BY <1>1, <1>2, <1>3, <1>4, <1>5, <1>6, <1>7, <1>8, <1>9, <1>10, <1>11 DEF SyncStep

LEMMA QueueInvStep ==
  ASSUME TypeOK, QueueInv, [Next]_vars, UNCHANGED ra
  PROVE  QueueInv'
<1>i. ASSUME UNCHANGED <<ra, rj>>, sync' = Idle, \A j \in pending' : j \in Jobs /\ Exists(j) PROVE QueueInv'
  <2>1. Fixed' /\ Created' /\ Targeted'
    BY <1>i, IdleType DEF QueueInv, Fixed, Created, Targeted, Exists, Idle
  <2>2. Apart'
    BY <1>i DEF QueueInv, Apart, Active, Clear, Clash, Targets, SameUnmappedBuild
  <2>3. SyncClear' /\ NextClear' /\ SyncOpen'
    BY <1>i, IdleType DEF SyncClear, NextClear, SyncOpen
  <2> QED BY <2>1, <2>2, <2>3 DEF QueueInv
<1>1. ASSUME NEW j \in Jobs, CreateJob(j) \/ StopJob(j) \/ KubeJobDeleted(j) \/ Pipeline(j) PROVE QueueInv'
  BY <1>1, EnvironmentStep
<1>2. ASSUME NEW j \in Jobs, StartSync(j) PROVE QueueInv'
  <2>1. Begin(j, 1) /\ UNCHANGED ra /\ UNCHANGED rj /\ pending' \subseteq pending
    BY <1>2 DEF StartSync
  <2>2. Exists(j)
    BY <1>2 DEF StartSync, QueueInv, Created
  <2>3. /\ sync'.app = Application0
        /\ sync'.pc # "idle" => sync'.job = j
        /\ sync'.pc \in {"reconcile", "status", "update"} => Clear(j)
        /\ sync'.pc # "waken"
        /\ SyncOpen'
    BY <2>1, <2>2, BeginClear
  <2> QED BY <2>1, <2>2, <2>3, MoveStep
<1>3. CASE SyncStep
  BY <1>3, SyncKeepsInv
<1>4. CASE SyncFails
  BY <1>4, <1>i DEF SyncFails, Requeue, QueueInv, Created, TypeOK
<1>5. CASE Crash
  BY <1>5, <1>i DEF Crash
<1>6. CASE ChangeApplication
  BY <1>6 DEF ChangeApplication
<1>7. CASE UNCHANGED vars
  <2>1. UNCHANGED <<ra, sync>> /\ UNCHANGED rj /\ UNCHANGED pending
    BY <1>7 DEF vars
  <2> QED BY <2>1, QuietStep DEF QueueInv, Created, Targeted, Exists, TypeOK
<1> QED BY <1>1, <1>2, <1>3, <1>4, <1>5, <1>6, <1>7 DEF Next

(* At the start a RadixJob is absent or has succeeded. *)
InitialJob(j) ==
  /\ rj[j].cond \in {"", "Succeeded"}
  /\ (rj[j].cond # "" => Exists(j))
  /\ rj[j].envs \subseteq Targets(j)

LEMMA InitialJobs == Init => \A j \in Jobs : InitialJob(j)
<1> SUFFICES ASSUME Init, NEW j \in Jobs PROVE InitialJob(j)
  OBVIOUS
<1>1. rj[j] = Ended(j) \/ rj[j] = Absent
  BY DEF Init
<1>2. CASE rj[j] = Ended(j)
  BY <1>2 DEF Ended, InitialJob, Exists, Targets
<1>3. CASE rj[j] = Absent
  <2>1. Absent.cond = "" /\ Absent.envs = {}
    BY DEF Absent
  <2> QED BY <1>3, <2>1 DEF InitialJob
<1> QED BY <1>1, <1>2, <1>3

LEMMA QueueInvAtFirst == Init => QueueInv
<1> SUFFICES ASSUME Init PROVE QueueInv
  OBVIOUS
<1>1. /\ ra = Application0 /\ pending = {} /\ sync.pc = "idle" /\ sync.app = Application0
  BY DEF Init, Idle
<1>2. \A j \in Jobs : InitialJob(j)
  BY InitialJobs
<1> QED BY <1>1, <1>2 DEF InitialJob, QueueInv, Fixed, Created, Targeted, Apart, SyncClear, NextClear, SyncOpen,
     Active, IsWaitingOrRunning

LEMMA FixedQueueInvStep ==
  ASSUME Applications = {Application0}
  PROVE  TypeOK /\ QueueInv /\ [Next]_vars => QueueInv'
<1> SUFFICES ASSUME TypeOK, QueueInv, [Next]_vars PROVE QueueInv'
  OBVIOUS
<1>1. UNCHANGED ra
  BY TypeStep DEF TypeOK, QueueInv, Fixed
<1> QED BY <1>1, QueueInvStep

(* While the application keeps its branch mapping, two RadixJobs that target a
   common environment, or build the same unmapped git ref, are never waiting or
   running together: handleJobQueueing and setNextJobToWaiting look before they
   let a job go, and the conflict check of every status update makes what they
   saw still true.  Any number of jobs, stops, errors and restarts. *)
THEOREM ActiveJobsDisjointHolds ==
  ASSUME Applications = {Application0}
  PROVE  Spec => []ActiveJobsDisjoint
<1>1. TypeOK /\ QueueInv /\ [Next]_vars => QueueInv'
  BY FixedQueueInvStep
<1>2. QueueInv => ActiveJobsDisjoint
  BY DEF QueueInv, ActiveJobsDisjoint, Fixed, Targeted, Apart, Clear, Clash
<1> QED BY <1>1, <1>2, QueueInvAtFirst, TypeCorrect, PTL DEF Spec

-----------------------------------------------------------------------------
(* The copies a Sync may still write are copies of jobs that were not done. *)
CopyOpen ==
  /\ sync.pc \notin {"idle", "wake", "waken", "failed"} => ~IsDone(sync.rj.cond)
  /\ sync.pc = "waken" => sync.nextRj.cond = "Queued"

OpenInv == Created /\ CopyOpen

KeepsDone == \A j \in Jobs : IsDone(rj[j].cond) => rj'[j].cond = rj[j].cond

(* A step that leaves every condition alone, and starts, drops or keeps a Sync. *)
LEMMA OpenQuiet ==
  ASSUME TypeOK, OpenInv, \A j \in Jobs : rj'[j].cond = rj[j].cond /\ (Exists(j) => Exists(j)'),
         \A j \in pending' : Exists(j)', (sync.pc # "idle" => Exists(sync.job))', CopyOpen'
  PROVE  OpenInv' /\ KeepsDone
<1>1. Created'
  BY DEF OpenInv, Created
<1> QED BY <1>1 DEF OpenInv, KeepsDone

(* A step that changes the condition of a job that is not done. *)
LEMMA OpenWrite ==
  ASSUME TypeOK, OpenInv, NEW me \in Jobs, Exists(me), ~IsDone(rj[me].cond),
         NEW new, new.created = rj[me].created, rj' = [rj EXCEPT ![me] = new],
         pending' \subseteq pending \cup {me}, (sync.pc # "idle" => Exists(sync.job))', CopyOpen'
  PROVE  OpenInv' /\ KeepsDone
<1>1. \A k \in Jobs : (Exists(k)' <=> Exists(k)) /\ (k # me => rj'[k] = rj[k])
  BY DEF TypeOK, Exists
<1>2. \A k \in Jobs : rj'[k].cond # "" => Exists(k)'
  BY <1>1 DEF OpenInv, Created
<1>3. \A k \in pending' : Exists(k)'
  BY <1>1 DEF OpenInv, Created, TypeOK
<1>4. Created'
  BY <1>2, <1>3 DEF Created
<1>5. KeepsDone
  BY <1>1 DEF KeepsDone
<1> QED BY <1>4, <1>5 DEF OpenInv

LEMMA OpenBegin ==
  ASSUME TypeOK, NEW j \in Jobs, Exists(j), NEW try, Begin(j, try), UNCHANGED rj
  PROVE  (sync.pc # "idle" => Exists(sync.job))' /\ CopyOpen'
<1>1. CASE IsDone(rj[j].cond)
  BY <1>1 DEF Begin, Idle, CopyOpen
<1>2. CASE ~IsDone(rj[j].cond)
  <2>1. sync'.pc = FirstPhase(rj[j]) /\ sync'.job = j /\ sync'.rj = rj[j]
    BY <1>2 DEF Begin, Idle
  <2>2. FirstPhase(rj[j]) # "waken"
    BY DEF FirstPhase, AfterTargets
  <2> QED BY <1>2, <2>1, <2>2 DEF CopyOpen, IsDone, Exists
<1> QED BY <1>1, <1>2

LEMMA OpenRetry ==
  ASSUME TypeOK, OpenInv, sync.pc # "idle", Retry, UNCHANGED rj
  PROVE  OpenInv' /\ KeepsDone
<1>m. PICK me \in Jobs : me = sync.job /\ Exists(me)
  BY DEF TypeOK, OpenInv, Created
<1>1. \A j \in pending' : Exists(j)'
  BY <1>m DEF Retry, Requeue, OpenInv, Created, Exists
<1>2. (sync.pc # "idle" => Exists(sync.job))' /\ CopyOpen'
  <2>1. CASE sync' = Idle
    BY <2>1 DEF Idle, CopyOpen
  <2>2. CASE Begin(me, sync.tries + 1)
    BY <1>m, <2>2, OpenBegin
  <2> QED BY <1>m, <2>1, <2>2 DEF Retry, Requeue
<1> QED BY <1>1, <1>2, OpenQuiet DEF Exists

LEMMA OpenUpdate ==
  ASSUME TypeOK, OpenInv, sync.pc \notin {"idle", "wake", "waken", "failed"},
         NEW new \in RadixJobs, new.created = sync.rj.created,
         NEW then \in SyncRecords, then.pc # "idle" => then.job = sync.job, then.pc # "waken",
         then.pc \notin {"idle", "wake", "failed"} => then.rj = new /\ ~IsDone(new.cond),
         UpdateStatus(new, then)
  PROVE  OpenInv' /\ KeepsDone
<1>m. PICK me \in Jobs : me = sync.job /\ Exists(me)
  BY DEF TypeOK, OpenInv, Created
<1>1. CASE rj[me] = sync.rj /\ Store(me, new) /\ sync' = then
  <2>1. rj' = [rj EXCEPT ![me] = new] /\ pending' \subseteq pending \cup {me} /\ ~IsDone(rj[me].cond)
    BY <1>1 DEF Store, Notified, OpenInv, CopyOpen
  <2>2. CopyOpen'
    BY <1>1 DEF CopyOpen, IsDone
  <2>3. (sync.pc # "idle" => Exists(sync.job))'
    BY <1>m, <1>1, <2>1 DEF Exists, TypeOK
  <2> QED BY <1>m, <1>1, <2>1, <2>2, <2>3, OpenWrite
<1>2. CASE Retry /\ UNCHANGED rj
  BY <1>2, OpenRetry
<1> QED BY <1>m, <1>1, <1>2 DEF UpdateStatus

LEMMA OpenSyncStep ==
  ASSUME TypeOK, OpenInv, SyncStep
  PROVE  OpenInv' /\ KeepsDone
<1>m. PICK me \in Jobs : me = sync.job /\ Exists(me) /\ sync.pc # "idle"
  BY DEF TypeOK, OpenInv, Created, SyncStep, SyncTargetEnvironments, DeletePipelineJobs, StopUpdate,
     HandleJobQueueing, Reconcile, SyncStatusRead, SyncStatusUpdate, SetNextJobToWaiting, UpdateNextJob,
     ReconcileFails, SyncReturnsError
<1>t. /\ sync \in SyncRecords /\ sync.rj \in RadixJobs /\ rj \in [Jobs -> RadixJobs]
      /\ Idle \in SyncRecords /\ Idle.pc = "idle"
  BY IdleType DEF TypeOK, SyncRecords
<1>g. ASSUME UNCHANGED rj, NEW phase, sync'.pc = phase, sync'.job = me, sync'.rj = sync.rj,
             sync.pc \notin {"wake", "waken", "failed"}, phase # "waken", pending' \subseteq pending \cup {me}
      PROVE  OpenInv' /\ KeepsDone
  <2>1. CopyOpen'
    BY <1>m, <1>g DEF CopyOpen, OpenInv, IsDone
  <2>2. \A j \in pending' : Exists(j)'
    BY <1>m, <1>g DEF OpenInv, Created, Exists
  <2> QED BY <1>m, <1>g, <2>1, <2>2, OpenQuiet DEF Exists
<1>1. CASE SyncTargetEnvironments
  <2>1. PICK new : new = [sync.rj EXCEPT !.envs = TargetEnvironments(sync.job, sync.app)]
    OBVIOUS
  <2>2. /\ new \in RadixJobs /\ new.created = sync.rj.created /\ new.cond = sync.rj.cond
    BY <1>m, <1>t, <2>1, TargetsType DEF RadixJobs, SyncRecords
  <2>3. PICK then : then = [sync EXCEPT !.rj = new, !.pc = AfterTargets(new)]
    OBVIOUS
  <2>4. AfterTargets(new) \in {"stop", "queueing", "reconcile"}
    BY DEF AfterTargets
  <2>5. then \in SyncRecords /\ then.pc = AfterTargets(new) /\ then.job = sync.job /\ then.rj = new
    BY <1>m, <1>t, <2>2, <2>3, <2>4 DEF SyncRecords, Phases
  <2>6. UpdateStatus(new, then) /\ sync.pc = "targets"
    BY <1>1, <2>1, <2>3 DEF SyncTargetEnvironments
  <2>7. ~IsDone(new.cond)
    BY <2>2, <2>6 DEF OpenInv, CopyOpen
  <2> QED BY <2>2, <2>4, <2>5, <2>6, <2>7, OpenUpdate
<1>2. CASE DeletePipelineJobs
  <2>1. sync'.pc = "stopped" /\ sync'.job = me /\ sync'.rj = sync.rj /\ sync.pc = "stop"
    BY <1>m, <1>t, <1>2 DEF DeletePipelineJobs, SyncRecords
  <2>2. UNCHANGED rj /\ pending' \subseteq pending \cup {me}
    BY <1>m, <1>2 DEF DeletePipelineJobs, Terminate, KubeEvent
  <2> QED BY <2>1, <2>2, <1>g
<1>3. CASE StopUpdate
  <2>1. PICK new : new = [sync.rj EXCEPT !.cond = "Stopped"]
    OBVIOUS
  <2>2. new \in RadixJobs /\ new.created = sync.rj.created
    BY <1>t, <2>1 DEF RadixJobs, Conditions
  <2>3. PICK then : then = [sync EXCEPT !.pc = "wake", !.rj = new]
    OBVIOUS
  <2>4. then \in SyncRecords /\ then.pc = "wake" /\ then.job = sync.job
    BY <1>t, <2>2, <2>3 DEF SyncRecords, Phases
  <2>5. UpdateStatus(new, then) /\ sync.pc = "stopped"
    BY <1>3, <2>1, <2>3 DEF StopUpdate
  <2> QED BY <2>2, <2>4, <2>5, OpenUpdate
<1>4. CASE HandleJobQueueing
  <2>0. sync.pc = "queueing"
    BY <1>4 DEF HandleJobQueueing
  <2>1. PICK new : new = [sync.rj EXCEPT !.cond = "Queued"]
    OBVIOUS
  <2>2. new \in RadixJobs /\ new.created = sync.rj.created
    BY <1>t, <2>1 DEF RadixJobs, Conditions
  <2>3. CASE UpdateStatus(new, Idle)
    BY <1>t, <2>0, <2>2, <2>3, OpenUpdate
  <2>4. CASE sync' = [sync EXCEPT !.pc = "reconcile"] /\ UNCHANGED <<rj, pending>>
    <3>1. sync'.pc = "reconcile" /\ sync'.job = me /\ sync'.rj = sync.rj
      BY <1>m, <1>t, <2>4 DEF SyncRecords
    <3> QED BY <2>0, <2>4, <3>1, <1>g
  <2> QED BY <1>4, <2>1, <2>3, <2>4 DEF HandleJobQueueing
<1>5. CASE Reconcile
  <2>1. sync'.pc = "status" /\ sync'.job = me /\ sync'.rj = sync.rj /\ sync.pc = "reconcile"
    BY <1>m, <1>t, <1>5 DEF Reconcile, SyncRecords
  <2> QED BY <1>5, <2>1, <1>g DEF Reconcile
<1>6. CASE SyncStatusRead
  <2>1. sync'.pc = "update" /\ sync'.job = me /\ sync'.rj = sync.rj /\ sync.pc = "status"
    BY <1>m, <1>t, <1>6 DEF SyncStatusRead, SyncRecords
  <2> QED BY <1>6, <2>1, <1>g DEF SyncStatusRead
<1>7. CASE SyncStatusUpdate
  <2>0. sync.pc = "update"
    BY <1>7 DEF SyncStatusUpdate
  <2>1. PICK new : new = [sync.rj EXCEPT !.cond = sync.cond]
    OBVIOUS
  <2>2. new \in RadixJobs /\ new.created = sync.rj.created
    BY <1>t, <2>1 DEF RadixJobs, SyncRecords
  <2>3. ASSUME NEW phase \in {"wake", "failed"}, NEW then, then = [sync EXCEPT !.pc = phase, !.rj = new],
               UpdateStatus(new, then)
        PROVE  OpenInv' /\ KeepsDone
    <3>1. then \in SyncRecords /\ then.pc = phase /\ then.job = sync.job
      BY <1>t, <2>2, <2>3 DEF SyncRecords, Phases
    <3> QED BY <2>0, <2>2, <2>3, <3>1, OpenUpdate
  <2>4. CASE UpdateStatus(new, Idle)
    BY <1>t, <2>0, <2>2, <2>4, OpenUpdate
  <2> QED BY <1>7, <2>1, <2>3, <2>4 DEF SyncStatusUpdate
<1>8. CASE SetNextJobToWaiting
  <2>0. UNCHANGED <<rj, pending>>
    BY <1>8 DEF SetNextJobToWaiting
  <2>1. (sync.pc # "idle" => Exists(sync.job))' /\ CopyOpen'
    <3>1. CASE sync' = Idle
      BY <1>t, <3>1 DEF CopyOpen
    <3>2. ASSUME NEW k \in Wakeable(sync.app), sync' = [sync EXCEPT !.pc = "waken", !.next = k, !.nextRj = rj[k]]
          PROVE  (sync.pc # "idle" => Exists(sync.job))' /\ CopyOpen'
      <4>1. sync'.pc = "waken" /\ sync'.job = me /\ sync'.nextRj = rj[k] /\ rj[k].cond = "Queued"
        BY <1>m, <1>t, <3>2 DEF SyncRecords, Wakeable
      <4> QED BY <1>m, <2>0, <4>1 DEF CopyOpen, Exists
    <3> QED BY <1>8, <3>1, <3>2 DEF SetNextJobToWaiting
  <2> QED BY <2>0, <2>1, OpenQuiet DEF Exists, OpenInv, Created
<1>9. CASE UpdateNextJob
  <2>1. CASE Retry /\ UNCHANGED rj
    BY <1>m, <2>1, OpenRetry
  <2>2. CASE /\ rj[sync.next] = sync.nextRj /\ sync' = Idle
             /\ Store(sync.next, [sync.nextRj EXCEPT !.cond = "Waiting"])
    <3>1. PICK k \in Jobs : k = sync.next
      BY <1>9 DEF UpdateNextJob, TypeOK
    <3>2. PICK new : new = [rj[k] EXCEPT !.cond = "Waiting"]
      OBVIOUS
    <3>3. rj[k].cond = "Queued" /\ Exists(k) /\ ~IsDone(rj[k].cond)
      BY <1>9, <2>2, <3>1 DEF UpdateNextJob, OpenInv, CopyOpen, Created, IsDone
    <3>4. rj' = [rj EXCEPT ![k] = new] /\ new.created = rj[k].created /\ pending' \subseteq pending \cup {k}
      BY <1>t, <2>2, <3>1, <3>2 DEF Store, Notified, RadixJobs
    <3>5. (sync.pc # "idle" => Exists(sync.job))' /\ CopyOpen'
      BY <1>t, <2>2 DEF CopyOpen
    <3> QED BY <3>3, <3>4, <3>5, OpenWrite
  <2> QED BY <1>9, <2>1, <2>2 DEF UpdateNextJob
<1>10. CASE ReconcileFails
  <2>1. sync'.pc = "status" /\ sync'.job = me /\ sync'.rj = sync.rj /\ sync.pc = "reconcile"
    BY <1>m, <1>t, <1>10 DEF ReconcileFails, SyncRecords
  <2> QED BY <1>10, <2>1, <1>g DEF ReconcileFails
<1>11. CASE SyncReturnsError
  <2>1. (sync.pc # "idle" => Exists(sync.job))' /\ CopyOpen'
    BY <1>t, <1>11 DEF SyncReturnsError, Requeue, CopyOpen
  <2>2. UNCHANGED rj /\ \A j \in pending' : Exists(j)'
    BY <1>m, <1>11 DEF SyncReturnsError, Requeue, OpenInv, Created, Exists
  <2> QED BY <2>1, <2>2, OpenQuiet DEF Exists
<1> QED BY <1>1, <1>2, <1>3, <1>4, <1>5, <1>6, <1>7, <1>8, <1>9, <1>10, <1>11 DEF SyncStep

LEMMA OpenEnvironment ==
  ASSUME TypeOK, OpenInv, NEW j \in Jobs,
         CreateJob(j) \/ StopJob(j) \/ KubeJobDeleted(j) \/ Pipeline(j)
  PROVE  OpenInv' /\ KeepsDone
<1>t. rj \in [Jobs -> RadixJobs] /\ \A k \in Jobs : rj[k].created \in Nat
  BY DEF TypeOK, RadixJobs
<1>s. UNCHANGED sync
  BY DEF CreateJob, StopJob, KubeJobDeleted, Pipeline, PodStarts, RunnerReports, RunnerEnds, PodSucceeds,
     PodFails, DyingEnds
<1>w. ASSUME NEW new, rj' = [rj EXCEPT ![j] = new], new.cond = rj[j].cond,
             new.created = rj[j].created \/ new.created > 0,
             \A k \in pending' : k \in pending \/ (k = j /\ new.created > 0)
      PROVE  OpenInv' /\ KeepsDone
  <2>1. \A k \in Jobs : rj'[k].cond = rj[k].cond /\ (Exists(k) => Exists(k)')
    BY <1>t, <1>w DEF Exists
  <2>2. \A k \in pending' : Exists(k)'
    BY <1>t, <1>w, <2>1 DEF OpenInv, Created, TypeOK, Exists
  <2>3. (sync.pc # "idle" => Exists(sync.job))' /\ CopyOpen'
    BY <1>s, <2>1 DEF OpenInv, Created, TypeOK, CopyOpen, Exists
  <2> QED BY <2>1, <2>2, <2>3, OpenQuiet
<1>r. ASSUME UNCHANGED rj, KubeEvent(j) \/ UNCHANGED pending PROVE OpenInv' /\ KeepsDone
  BY <1>r, <1>t, <1>w DEF KubeEvent, Exists
<1>u. ASSUME NEW status, UNCHANGED sync,
             \/ Store(j, [rj[j] EXCEPT !.run = status])
             \/ /\ rj' = [rj EXCEPT ![j] = [rj[j] EXCEPT !.run = status]]
                /\ KubeEvent(j) \/ UNCHANGED pending
      PROVE  OpenInv' /\ KeepsDone
  <2>1. PICK new : new = [rj[j] EXCEPT !.run = status]
    OBVIOUS
  <2>2. new.cond = rj[j].cond /\ new.created = rj[j].created /\ new.stop = rj[j].stop
    BY <1>t, <2>1 DEF TypeOK, RadixJobs
  <2>3. rj' = [rj EXCEPT ![j] = new]
    BY <1>u, <2>1 DEF Store
  <2>4. \A k \in pending' : k \in pending \/ (k = j /\ new.created > 0)
    BY <1>u, <2>1, <2>2 DEF Store, Notified, KubeEvent, Exists
  <2> QED BY <2>2, <2>3, <2>4, <1>w
<1>1. CASE CreateJob(j)
  <2>1. PICK k \in Jobs, later \in {0, 1} :
          /\ rj[k].created + later > 0
          /\ rj' = [rj EXCEPT ![j] = [Absent EXCEPT !.created = rj[k].created + later]]
    BY <1>1 DEF CreateJob
  <2>2. rj[j].cond = ""
    BY <1>1 DEF CreateJob, OpenInv, Created
  <2>3. PICK new : new = [Absent EXCEPT !.created = rj[k].created + later]
    OBVIOUS
  <2>4. new.created > 0 /\ new.cond = ""
    BY <2>1, <2>3 DEF Absent
  <2> QED BY <1>1, <2>1, <2>2, <2>3, <2>4, <1>w DEF CreateJob
<1>2. CASE StopJob(j)
  <2>1. PICK new : new = [rj[j] EXCEPT !.stop = TRUE]
    OBVIOUS
  <2>2. new.cond = rj[j].cond /\ new.created = rj[j].created /\ new.created > 0
    BY <1>t, <1>2, <2>1 DEF TypeOK, RadixJobs, StopJob, Exists
  <2>3. rj' = [rj EXCEPT ![j] = new] /\ \A k \in pending' : k \in pending \/ (k = j /\ new.created > 0)
    BY <1>2, <2>1, <2>2 DEF StopJob, Store, Notified
  <2> QED BY <2>2, <2>3, <1>w
<1>3. CASE KubeJobDeleted(j)
  BY <1>3, <1>r DEF KubeJobDeleted, Terminate
<1>4. CASE Pipeline(j)
  <2>1. CASE PodStarts(j) \/ PodSucceeds(j)
    BY <2>1, <1>r DEF PodStarts, PodSucceeds
  <2>2. CASE RunnerReports(j)
    BY <2>2, <1>u DEF RunnerReports
  <2>3. CASE RunnerEnds(j)
    BY <2>3, <1>u, <1>r DEF RunnerEnds, Report
  <2>4. CASE PodFails(j)
    <3>1. PICK run : rj' = [rj EXCEPT ![j] = [rj[j] EXCEPT !.run = run]]
      BY <2>4 DEF PodFails
    <3> QED BY <2>4, <3>1, <1>u DEF PodFails
  <2>5. CASE DyingEnds(j)
    <3>1. UNCHANGED rj \/ \E run : rj' = [rj EXCEPT ![j] = [rj[j] EXCEPT !.run = run]]
      BY <2>5 DEF DyingEnds
    <3> QED BY <2>5, <3>1, <1>u, <1>r DEF DyingEnds
  <2> QED BY <1>4, <2>1, <2>2, <2>3, <2>4, <2>5 DEF Pipeline
<1> QED BY <1>1, <1>2, <1>3, <1>4

LEMMA OpenStep == TypeOK /\ OpenInv /\ [Next]_vars => OpenInv' /\ KeepsDone
<1> SUFFICES ASSUME TypeOK, OpenInv, [Next]_vars PROVE OpenInv' /\ KeepsDone
  OBVIOUS
<1>i. ASSUME UNCHANGED rj, sync' = Idle, \A j \in pending' : j \in Jobs /\ Exists(j)
      PROVE  OpenInv' /\ KeepsDone
  <2>1. (sync.pc # "idle" => Exists(sync.job))' /\ CopyOpen'
    BY <1>i, IdleType DEF CopyOpen
  <2> QED BY <1>i, <2>1, OpenQuiet DEF Exists
<1>1. ASSUME NEW j \in Jobs, CreateJob(j) \/ StopJob(j) \/ KubeJobDeleted(j) \/ Pipeline(j)
      PROVE  OpenInv' /\ KeepsDone
  BY <1>1, OpenEnvironment
<1>2. ASSUME NEW j \in Jobs, StartSync(j) PROVE OpenInv' /\ KeepsDone
  <2>1. Begin(j, 1) /\ UNCHANGED rj /\ pending' \subseteq pending /\ Exists(j)
    BY <1>2 DEF StartSync, OpenInv, Created
  <2>2. (sync.pc # "idle" => Exists(sync.job))' /\ CopyOpen'
    BY <2>1, OpenBegin
  <2> QED BY <2>1, <2>2, OpenQuiet DEF OpenInv, Created, Exists
<1>3. CASE SyncStep
  BY <1>3, OpenSyncStep
<1>4. CASE SyncFails
  BY <1>4, <1>i DEF SyncFails, Requeue, OpenInv, Created, TypeOK
<1>5. CASE Crash
  BY <1>5, <1>i DEF Crash
<1>6. CASE UNCHANGED <<rj, pending, sync>>
  BY <1>6, OpenQuiet DEF OpenInv, Created, CopyOpen, Exists
<1> QED BY <1>1, <1>2, <1>3, <1>4, <1>5, <1>6 DEF Next, ChangeApplication, vars

(* Nobody rewrites the condition of a RadixJob that is done, for any number of
   jobs and whatever is stopped, retried, lost or restarted, also when the
   application changes: every Sync that can write had read a job that was not
   done, and its update is refused if the job is done by now (OnSync,
   updateRadixJobStatus). *)
THEOREM DoneIsFinalHolds == Spec => DoneIsFinal
<1>1. Init => OpenInv
  <2> SUFFICES ASSUME Init PROVE OpenInv
    OBVIOUS
  <2>1. pending = {} /\ sync.pc = "idle"
    BY DEF Init, Idle
  <2>2. \A j \in Jobs : InitialJob(j)
    BY InitialJobs
  <2> QED BY <2>1, <2>2 DEF InitialJob, OpenInv, Created, CopyOpen
<1>2. TypeOK /\ OpenInv /\ [Next]_vars => OpenInv'
  BY OpenStep
<1>3. TypeOK /\ OpenInv /\ [Next]_vars => [KeepsDone]_vars
  BY OpenStep
<1> QED BY <1>1, <1>2, <1>3, TypeCorrect, PTL DEF Spec, DoneIsFinal, KeepsDone

-----------------------------------------------------------------------------
(* What the phase of a Sync says of the copy it has: it goes on to queue a job
   only when the copy is queued or new, and does not take back that a job is
   active. *)
PhaseInv ==
  /\ sync.pc = "queueing" => IsQueuedOrEmpty(sync.rj.cond)
  /\ sync.pc = "update" /\ IsWaitingOrRunning(sync.rj.cond) => ~IsQueuedOrEmpty(sync.cond)

(* findJobCondition never returns an empty condition or Queued. *)
LEMMA FoundCondition ==
  ASSUME NEW state \in KubeJobStates, NEW run \in RunStatuses
  PROVE  ~IsQueuedOrEmpty(FindJobCondition(state, run))
  BY DEF FindJobCondition, IsQueuedOrEmpty, KubeJobStates, RunStatuses

LEMMA PhaseBegin ==
  ASSUME TypeOK, NEW j \in Jobs, NEW try, Begin(j, try)
  PROVE  PhaseInv'
<1>1. CASE IsDone(rj[j].cond)
  BY <1>1 DEF Begin, Idle, PhaseInv
<1>2. CASE ~IsDone(rj[j].cond)
  <2>1. sync'.pc = FirstPhase(rj[j]) /\ sync'.rj = rj[j]
    BY <1>2 DEF Begin, Idle
  <2> QED BY <2>1 DEF FirstPhase, AfterTargets, PhaseInv
<1> QED BY <1>1, <1>2

LEMMA PhaseRetry ==
  ASSUME TypeOK, sync.pc # "idle", Retry
  PROVE  PhaseInv'
<1>1. CASE sync' = Idle
  BY <1>1 DEF Idle, PhaseInv
<1>2. CASE Begin(sync.job, sync.tries + 1)
  BY <1>2, PhaseBegin DEF TypeOK
<1> QED BY <1>1, <1>2 DEF Retry, Requeue

LEMMA PhaseUpdate ==
  ASSUME TypeOK, sync.pc # "idle", NEW new, NEW then, UpdateStatus(new, then),
         then.pc # "update", then.pc = "queueing" => IsQueuedOrEmpty(then.rj.cond)
  PROVE  PhaseInv'
  BY PhaseRetry DEF UpdateStatus, PhaseInv

LEMMA PhaseSyncStep ==
  ASSUME TypeOK, PhaseInv, SyncStep
  PROVE  PhaseInv'
<1>m. sync.pc # "idle"
  BY DEF SyncStep, SyncTargetEnvironments, DeletePipelineJobs, StopUpdate, HandleJobQueueing, Reconcile,
     SyncStatusRead, SyncStatusUpdate, SetNextJobToWaiting, UpdateNextJob, ReconcileFails, SyncReturnsError
<1>t. sync \in SyncRecords /\ sync.rj \in RadixJobs /\ Idle.pc = "idle"
  BY IdleType DEF TypeOK, SyncRecords
<1>1. CASE SyncTargetEnvironments
  <2>1. PICK new : new = [sync.rj EXCEPT !.envs = TargetEnvironments(sync.job, sync.app)]
    OBVIOUS
  <2>2. PICK then : then = [sync EXCEPT !.rj = new, !.pc = AfterTargets(new)]
    OBVIOUS
  <2>3. then.pc = AfterTargets(new) /\ then.rj = new
    BY <1>t, <2>2 DEF SyncRecords
  <2>4. UpdateStatus(new, then)
    BY <1>1, <2>1, <2>2 DEF SyncTargetEnvironments
  <2> QED BY <1>m, <2>3, <2>4, PhaseUpdate DEF AfterTargets
<1>2. CASE DeletePipelineJobs \/ Reconcile \/ ReconcileFails
  <2>1. sync'.pc \in {"stopped", "status"}
    BY <1>t, <1>2 DEF DeletePipelineJobs, Reconcile, ReconcileFails, SyncRecords
  <2> QED BY <2>1 DEF PhaseInv
<1>3. CASE StopUpdate
  <2>1. PICK new : new = [sync.rj EXCEPT !.cond = "Stopped"]
    OBVIOUS
  <2>2. PICK then : then = [sync EXCEPT !.pc = "wake", !.rj = new]
    OBVIOUS
  <2>3. then.pc = "wake"
    BY <1>t, <2>2 DEF SyncRecords
  <2>4. UpdateStatus(new, then)
    BY <1>3, <2>1, <2>2 DEF StopUpdate
  <2> QED BY <1>m, <2>3, <2>4, PhaseUpdate
<1>4. CASE HandleJobQueueing
  <2>1. CASE UpdateStatus([sync.rj EXCEPT !.cond = "Queued"], Idle)
    BY <1>m, <1>t, <2>1, PhaseUpdate
  <2>2. CASE sync' = [sync EXCEPT !.pc = "reconcile"]
    BY <1>t, <2>2 DEF SyncRecords, PhaseInv
  <2> QED BY <1>4, <2>1, <2>2 DEF HandleJobQueueing
<1>5. CASE SyncStatusRead
  <2>1. /\ sync'.pc = "update" /\ sync'.rj = sync.rj
        /\ sync'.cond = IF kj[sync.job] = "none" THEN sync.rj.cond
                          ELSE FindJobCondition(kj[sync.job], sync.rj.run)
    BY <1>t, <1>5 DEF SyncStatusRead, SyncRecords
  <2>2. kj[sync.job] \in KubeJobStates /\ sync.rj.run \in RunStatuses
    BY <1>m, <1>t DEF TypeOK, RadixJobs
  <2>3. ~IsQueuedOrEmpty(FindJobCondition(kj[sync.job], sync.rj.run))
    BY <2>2, FoundCondition
  <2> QED BY <2>1, <2>3 DEF PhaseInv, IsWaitingOrRunning, IsQueuedOrEmpty
<1>6. CASE SyncStatusUpdate
  <2>1. PICK new : new = [sync.rj EXCEPT !.cond = sync.cond]
    OBVIOUS
  <2>2. ASSUME NEW phase \in {"wake", "failed"}, UpdateStatus(new, [sync EXCEPT !.pc = phase, !.rj = new])
        PROVE  PhaseInv'
    <3>1. PICK then : then = [sync EXCEPT !.pc = phase, !.rj = new]
      OBVIOUS
    <3>2. then.pc = phase
      BY <1>t, <3>1 DEF SyncRecords
    <3> QED BY <1>m, <2>2, <3>1, <3>2, PhaseUpdate
  <2>3. CASE UpdateStatus(new, Idle)
    BY <1>m, <1>t, <2>3, PhaseUpdate
  <2> QED BY <1>6, <2>1, <2>2, <2>3 DEF SyncStatusUpdate
<1>7. CASE SetNextJobToWaiting
  <2>1. sync'.pc \in {"idle", "waken"}
    BY <1>t, <1>7 DEF SetNextJobToWaiting, SyncRecords
  <2> QED BY <2>1 DEF PhaseInv
<1>8. CASE UpdateNextJob \/ SyncReturnsError
  <2>1. Retry \/ sync' = Idle
    BY <1>8 DEF UpdateNextJob, SyncReturnsError, Requeue
  <2> QED BY <1>m, <1>t, <2>1, PhaseRetry DEF PhaseInv
<1> QED BY <1>1, <1>2, <1>3, <1>4, <1>5, <1>6, <1>7, <1>8 DEF SyncStep

LEMMA PhaseStep == TypeOK /\ PhaseInv /\ [Next]_vars => PhaseInv'
<1> SUFFICES ASSUME TypeOK, PhaseInv, [Next]_vars PROVE PhaseInv'
  OBVIOUS
<1>1. ASSUME NEW j \in Jobs, StartSync(j) PROVE PhaseInv'
  BY <1>1, PhaseBegin DEF StartSync
<1>2. CASE SyncStep
  BY <1>2, PhaseSyncStep
<1>3. CASE sync' = Idle
  BY <1>3, IdleType DEF PhaseInv
<1>4. CASE UNCHANGED sync
  BY <1>4 DEF PhaseInv
<1> QED BY <1>1, <1>2, <1>3, <1>4 DEF Next, vars, SyncFails, Requeue, Crash, ChangeApplication,
     CreateJob, StopJob, KubeJobDeleted, Pipeline, PodStarts, RunnerReports, RunnerEnds, PodSucceeds, PodFails,
     DyingEnds

-----------------------------------------------------------------------------
(* What a claim is, and that jobs which do not clash have no claim in common. *)
LEMMA ClaimIs ==
  ASSUME NEW j \in Jobs, NEW c \in Claims[j]
  PROVE  \/ /\ Targets(j) = {} /\ IsBuildJob(j)
            /\ c[1] = "gitRef" /\ c[2] = Spec0[j].gitRef
         \/ c[1] = "environment" /\ c[2] \in Targets(j)
<1>1. Claims[j] = IF Targets(j) = {} /\ IsBuildJob(j) THEN {<<"gitRef", Spec0[j].gitRef>>}
                    ELSE {<<"environment", e>> : e \in Targets(j)}
  BY DEF Claims, Targets
<1>2. CASE Targets(j) = {} /\ IsBuildJob(j)
  <2>1. c = <<"gitRef", Spec0[j].gitRef>>
    BY <1>1, <1>2
  <2> QED BY <1>2, <2>1
<1>3. CASE ~(Targets(j) = {} /\ IsBuildJob(j))
  <2>1. PICK e \in Targets(j) : c = <<"environment", e>>
    BY <1>1, <1>3
  <2> QED BY <2>1
<1> QED BY <1>2, <1>3

LEMMA ClaimsApart ==
  ASSUME NEW j \in Jobs, NEW k \in Jobs, ~Clash(j, k)
  PROVE  Claims[j] \cap Claims[k] = {}
<1> SUFFICES ASSUME NEW c \in Claims[j], c \in Claims[k] PROVE FALSE
  OBVIOUS
<1>1. \/ /\ Targets(j) = {} /\ IsBuildJob(j)
         /\ c[1] = "gitRef" /\ c[2] = Spec0[j].gitRef
      \/ c[1] = "environment" /\ c[2] \in Targets(j)
  BY ClaimIs
<1>2. \/ /\ Targets(k) = {} /\ IsBuildJob(k)
         /\ c[1] = "gitRef" /\ c[2] = Spec0[k].gitRef
      \/ c[1] = "environment" /\ c[2] \in Targets(k)
  BY ClaimIs
<1> QED BY <1>1, <1>2 DEF Clash, SameUnmappedBuild, Targets

(* A job's state, from its RadixJob. *)
StateOf(r) == IF r.created > 0 THEN Reported(r.cond) ELSE "absent"

LEMMA JobStateIs == JobState = [j \in Jobs |-> StateOf(rj[j])]
  BY DEF JobState, StateOf, Exists

LEMMA JobStateNext == JobState' = [j \in Jobs |-> StateOf(rj'[j])]
  BY DEF JobState, StateOf, Exists

(* A step that leaves conditions alone is not seen. *)
LEMMA NotSeen ==
  ASSUME TypeOK, \A j \in Jobs : rj'[j].cond = rj[j].cond /\ rj'[j].created = rj[j].created
  PROVE  UNCHANGED JobState
<1>1. \A j \in Jobs : StateOf(rj'[j]) = StateOf(rj[j])
  BY DEF StateOf
<1> QED BY <1>1, JobStateIs, JobStateNext

(* A write of one RadixJob is seen as the change of the state of that job. *)
LEMMA SeenWrite ==
  ASSUME TypeOK, NEW me \in Jobs, NEW new, rj' = [rj EXCEPT ![me] = new]
  PROVE  /\ JobState' = [JobState EXCEPT ![me] = StateOf(new)]
         /\ JobState[me] = StateOf(rj[me])
<1>1. \A j \in Jobs : rj'[j] = IF j = me THEN new ELSE rj[j]
  BY DEF TypeOK
<1>2. \A j \in Jobs : StateOf(rj'[j]) = IF j = me THEN StateOf(new) ELSE StateOf(rj[j])
  BY <1>1
<1> QED BY <1>2, JobStateIs, JobStateNext

(* A write of a job that is not done is a step of ExclusiveJobs, if it makes the
   job active only with a clear way, and queues no active job again. *)
LEMMA WriteIsStep ==
  ASSUME TypeOK, QueueInv, NEW me \in Jobs, Exists(me), ~IsDone(rj[me].cond),
         NEW new \in RadixJobs, new.created = rj[me].created, rj' = [rj EXCEPT ![me] = new],
         IsWaitingOrRunning(new.cond) => Active(me) \/ Clear(me),
         Active(me) => ~IsQueuedOrEmpty(new.cond)
  PROVE  Exclusive!Next \/ UNCHANGED JobState
<1>1. /\ JobState' = [JobState EXCEPT ![me] = StateOf(new)]
      /\ JobState[me] = StateOf(rj[me])
  BY SeenWrite
<1>2. rj[me].created > 0 /\ rj[me].cond \in Conditions /\ new.cond \in Conditions
  BY DEF Exists, TypeOK, RadixJobs
<1>3. StateOf(rj[me]) = IF Active(me) THEN "active" ELSE "open"
  BY <1>2 DEF Reported, StateOf, Active, Conditions, IsDone, IsQueuedOrEmpty, IsWaitingOrRunning
<1>4. CASE IsDone(new.cond)
  <2>1. StateOf(new) = new.cond /\ new.cond \in Results
    BY <1>2, <1>4 DEF Reported, StateOf, IsDone, IsQueuedOrEmpty, IsWaitingOrRunning, Results
  <2>2. JobState'[me] = StateOf(new)
    BY <1>1 DEF JobState
  <2>3. Exclusive!End(me)
    BY <1>1, <1>3, <2>1, <2>2 DEF Exclusive!End
  <2> QED BY <2>3 DEF Exclusive!Next
<1>5. CASE IsQueuedOrEmpty(new.cond)
  <2>1. StateOf(new) = "open" /\ StateOf(rj[me]) = "open"
    BY <1>2, <1>3, <1>5 DEF Reported, StateOf
  <2> QED BY <1>1, <2>1 DEF JobState
<1>6. CASE IsWaitingOrRunning(new.cond)
  <2>1. StateOf(new) = "active"
    BY <1>2, <1>6 DEF Reported, StateOf, IsQueuedOrEmpty, IsWaitingOrRunning
  <2>2. CASE Active(me)
    BY <1>1, <1>3, <2>1, <2>2 DEF JobState
  <2>3. CASE ~Active(me)
    <3>1. ASSUME NEW k \in Jobs \ {me}, JobState[k] = "active" PROVE Claims[me] \cap Claims[k] = {}
      <4>1. rj[k].cond \in Conditions /\ Reported(rj[k].cond) = "active"
        BY <3>1 DEF JobState, TypeOK, RadixJobs
      <4>2. Active(k)
        BY <4>1 DEF Reported, Active, Conditions, IsWaitingOrRunning
      <4> QED BY <1>6, <2>3, <4>2, ClaimsApart DEF Clear
    <3>2. Exclusive!Activate(me)
      BY <1>1, <1>3, <2>1, <2>3, <3>1 DEF Exclusive!Activate
    <3> QED BY <3>2 DEF Exclusive!Next
  <2> QED BY <2>2, <2>3
<1> QED BY <1>2, <1>4, <1>5, <1>6 DEF Conditions, IsDone, IsQueuedOrEmpty, IsWaitingOrRunning

(* A status update is such a write, or is refused. *)
LEMMA UpdateIsStep ==
  ASSUME TypeOK, QueueInv, NEW me \in Jobs, me = sync.job, Exists(me), ~IsDone(sync.rj.cond),
         NEW new \in RadixJobs, new.created = sync.rj.created, NEW then, UpdateStatus(new, then),
         IsWaitingOrRunning(new.cond) => IsWaitingOrRunning(sync.rj.cond) \/ Clear(me),
         IsWaitingOrRunning(sync.rj.cond) => ~IsQueuedOrEmpty(new.cond)
  PROVE  Exclusive!Next \/ UNCHANGED JobState
<1>1. CASE rj[me] = sync.rj /\ Store(me, new)
  <2>1. rj' = [rj EXCEPT ![me] = new]
    BY <1>1 DEF Store
  <2> QED BY <1>1, <2>1, WriteIsStep DEF Active
<1>2. CASE UNCHANGED rj
  BY <1>2, NotSeen
<1> QED BY <1>1, <1>2 DEF UpdateStatus

LEMMA SyncIsStep ==
  ASSUME TypeOK, QueueInv, CopyOpen, PhaseInv, SyncStep
  PROVE  Exclusive!Next \/ UNCHANGED JobState
<1>m. PICK me \in Jobs : me = sync.job /\ Exists(me) /\ sync.pc # "idle"
  BY DEF TypeOK, QueueInv, Created, SyncStep, SyncTargetEnvironments, DeletePipelineJobs, StopUpdate,
     HandleJobQueueing, Reconcile, SyncStatusRead, SyncStatusUpdate, SetNextJobToWaiting, UpdateNextJob,
     ReconcileFails, SyncReturnsError
<1>t. /\ sync \in SyncRecords /\ sync.rj \in RadixJobs /\ rj \in [Jobs -> RadixJobs]
      /\ sync.app = Application0 /\ sync.cond \in Conditions
  BY DEF TypeOK, SyncRecords, QueueInv, Fixed
<1>1. CASE SyncTargetEnvironments
  <2>1. PICK new : new = [sync.rj EXCEPT !.envs = TargetEnvironments(sync.job, sync.app)]
    OBVIOUS
  <2>2. new \in RadixJobs /\ new.created = sync.rj.created /\ new.cond = sync.rj.cond
    BY <1>m, <1>t, <2>1, TargetsType DEF RadixJobs, SyncRecords
  <2>3. ~IsDone(sync.rj.cond) /\ \E then : UpdateStatus(new, then)
    BY <1>1, <2>1 DEF SyncTargetEnvironments, CopyOpen
  <2>4. IsWaitingOrRunning(sync.rj.cond) => ~IsQueuedOrEmpty(new.cond)
    BY <2>2 DEF IsWaitingOrRunning, IsQueuedOrEmpty
  <2> QED BY <1>m, <2>2, <2>3, <2>4, UpdateIsStep
<1>2. CASE StopUpdate
  <2>1. PICK new : new = [sync.rj EXCEPT !.cond = "Stopped"]
    OBVIOUS
  <2>2. new \in RadixJobs /\ new.created = sync.rj.created /\ new.cond = "Stopped"
    BY <1>t, <2>1 DEF RadixJobs, Conditions
  <2>3. ~IsDone(sync.rj.cond) /\ \E then : UpdateStatus(new, then)
    BY <1>2, <2>1 DEF StopUpdate, CopyOpen
  <2>4. ~IsWaitingOrRunning(new.cond) /\ ~IsQueuedOrEmpty(new.cond)
    BY <2>2 DEF IsWaitingOrRunning, IsQueuedOrEmpty
  <2> QED BY <1>m, <2>2, <2>3, <2>4, UpdateIsStep
<1>3. CASE HandleJobQueueing
  <2>1. PICK new : new = [sync.rj EXCEPT !.cond = "Queued"]
    OBVIOUS
  <2>2. new \in RadixJobs /\ new.created = sync.rj.created /\ new.cond = "Queued"
    BY <1>t, <2>1 DEF RadixJobs, Conditions
  <2>3. ~IsDone(sync.rj.cond) /\ ~IsWaitingOrRunning(sync.rj.cond) /\ ~IsWaitingOrRunning(new.cond)
    BY <1>3, <2>2 DEF HandleJobQueueing, CopyOpen, PhaseInv, IsWaitingOrRunning, IsQueuedOrEmpty
  <2>4. CASE UpdateStatus(new, Idle)
    BY <1>m, <2>2, <2>3, <2>4, UpdateIsStep
  <2> QED BY <1>3, <2>1, <2>4, NotSeen DEF HandleJobQueueing
<1>4. CASE SyncStatusUpdate
  <2>1. PICK new : new = [sync.rj EXCEPT !.cond = sync.cond]
    OBVIOUS
  <2>2. new \in RadixJobs /\ new.created = sync.rj.created /\ new.cond = sync.cond
    BY <1>t, <2>1 DEF RadixJobs
  <2>3. ~IsDone(sync.rj.cond) /\ \E then : UpdateStatus(new, then)
    BY <1>4, <2>1 DEF SyncStatusUpdate, CopyOpen
  <2>4. Clear(me) /\ (IsWaitingOrRunning(sync.rj.cond) => ~IsQueuedOrEmpty(new.cond))
    BY <1>m, <1>4, <2>2 DEF SyncStatusUpdate, QueueInv, SyncClear, PhaseInv
  <2> QED BY <1>m, <2>2, <2>3, <2>4, UpdateIsStep
<1>5. CASE UpdateNextJob
  <2>1. CASE UNCHANGED rj
    BY <2>1, NotSeen
  <2>2. CASE rj[sync.next] = sync.nextRj /\ Store(sync.next, [sync.nextRj EXCEPT !.cond = "Waiting"])
    <3>1. PICK k \in Jobs : k = sync.next
      BY <1>5 DEF UpdateNextJob, TypeOK
    <3>2. PICK new : new = [rj[k] EXCEPT !.cond = "Waiting"]
      OBVIOUS
    <3>3. Clear(k) /\ rj[k].cond = "Queued" /\ Exists(k)
      BY <1>5, <2>2, <3>1 DEF UpdateNextJob, QueueInv, NextClear, Created
    <3>4. new \in RadixJobs /\ new.created = rj[k].created /\ rj' = [rj EXCEPT ![k] = new]
      BY <1>t, <2>2, <3>1, <3>2 DEF Store, RadixJobs, Conditions
    <3>5. ~IsDone(rj[k].cond) /\ ~Active(k)
      BY <3>3 DEF IsDone, Active, IsWaitingOrRunning
    <3> QED BY <3>3, <3>4, <3>5, WriteIsStep
  <2> QED BY <1>5, <2>1, <2>2 DEF UpdateNextJob
<1>6. CASE UNCHANGED rj
  BY <1>6, NotSeen
<1> QED BY <1>1, <1>2, <1>3, <1>4, <1>5, <1>6 DEF SyncStep, DeletePipelineJobs, Reconcile, ReconcileFails,
     SyncStatusRead, SetNextJobToWaiting, SyncReturnsError

(* Users, Kubernetes and runners create jobs, and change nothing else that is seen. *)
LEMMA EnvironmentIsStep ==
  ASSUME TypeOK, QueueInv, NEW j \in Jobs,
         CreateJob(j) \/ StopJob(j) \/ KubeJobDeleted(j) \/ Pipeline(j)
  PROVE  Exclusive!Next \/ UNCHANGED JobState
<1>t. rj \in [Jobs -> RadixJobs] /\ \A k \in Jobs : rj[k].created \in Nat
  BY DEF TypeOK, RadixJobs
<1>w. ASSUME NEW new, new.cond = rj[j].cond, new.created = rj[j].created, rj' = [rj EXCEPT ![j] = new]
      PROVE  UNCHANGED JobState
  BY <1>t, <1>w, NotSeen
<1>r. ASSUME NEW run, rj' = [rj EXCEPT ![j] = [rj[j] EXCEPT !.run = run]] PROVE UNCHANGED JobState
  <2>1. PICK new : new = [rj[j] EXCEPT !.run = run]
    OBVIOUS
  <2> QED BY <1>t, <1>r, <2>1, <1>w DEF RadixJobs
<1>1. CASE CreateJob(j)
  <2>1. PICK k \in Jobs, later \in {0, 1} :
          /\ rj[k].created + later > 0
          /\ rj' = [rj EXCEPT ![j] = [Absent EXCEPT !.created = rj[k].created + later]]
    BY <1>1 DEF CreateJob
  <2>2. PICK new : new = [Absent EXCEPT !.created = rj[k].created + later]
    OBVIOUS
  <2>3. StateOf(new) = "open" /\ StateOf(rj[j]) = "absent"
    BY <1>t, <1>1, <2>1, <2>2 DEF Reported, CreateJob, Exists, Absent, StateOf, IsQueuedOrEmpty, Conditions
  <2>4. rj' = [rj EXCEPT ![j] = new]
    BY <2>1, <2>2
  <2>5. JobState' = [JobState EXCEPT ![j] = StateOf(new)] /\ JobState[j] = StateOf(rj[j])
    BY <2>4, SeenWrite
  <2>6. Exclusive!Create(j)
    BY <2>3, <2>5 DEF Exclusive!Create
  <2> QED BY <2>6 DEF Exclusive!Next
<1>2. CASE StopJob(j)
  <2>1. PICK new : new = [rj[j] EXCEPT !.stop = TRUE]
    OBVIOUS
  <2>2. rj' = [rj EXCEPT ![j] = new]
    BY <1>2, <2>1 DEF StopJob, Store
  <2> QED BY <1>t, <2>1, <2>2, <1>w DEF RadixJobs
<1>3. CASE UNCHANGED rj
  BY <1>3, NotSeen
<1>4. CASE RunnerReports(j)
  BY <1>4, <1>r DEF RunnerReports, Store
<1>5. CASE RunnerEnds(j)
  <2>1. CASE \E status \in Outcomes[j] : Store(j, [rj[j] EXCEPT !.run = status])
    BY <2>1, <1>r DEF Store
  <2> QED BY <1>3, <1>5, <2>1 DEF RunnerEnds, Report
<1>6. CASE PodFails(j)
  <2>1. PICK run : rj' = [rj EXCEPT ![j] = [rj[j] EXCEPT !.run = run]]
    BY <1>6 DEF PodFails
  <2> QED BY <2>1, <1>r
<1>7. CASE DyingEnds(j)
  <2>1. UNCHANGED rj \/ \E run : rj' = [rj EXCEPT ![j] = [rj[j] EXCEPT !.run = run]]
    BY <1>7 DEF DyingEnds
  <2> QED BY <1>3, <2>1, <1>r
<1> QED BY <1>1, <1>2, <1>3, <1>4, <1>5, <1>6, <1>7 DEF KubeJobDeleted, Pipeline, PodStarts, PodSucceeds

LEMMA NextIsStep ==
  ASSUME TypeOK, QueueInv, CopyOpen, PhaseInv, [Next]_vars
  PROVE  [Exclusive!Next]_JobState
<1>1. ASSUME NEW j \in Jobs, CreateJob(j) \/ StopJob(j) \/ KubeJobDeleted(j) \/ Pipeline(j)
      PROVE  Exclusive!Next \/ UNCHANGED JobState
  BY <1>1, EnvironmentIsStep
<1>2. CASE SyncStep
  BY <1>2, SyncIsStep
<1>3. CASE UNCHANGED rj
  BY <1>3, NotSeen
<1> QED BY <1>1, <1>2, <1>3 DEF Next, vars, StartSync, SyncFails, Crash, ChangeApplication

LEMMA InitIsInit == Init => Exclusive!Init
<1> SUFFICES ASSUME Init PROVE Exclusive!Init
  OBVIOUS
<1>1. ASSUME NEW j \in Jobs PROVE StateOf(rj[j]) \in {"absent"} \cup Results
  <2>1. rj[j] = Ended(j) \/ rj[j] = Absent
    BY DEF Init
  <2>2. CASE rj[j] = Ended(j)
    <3>1. rj[j].created = 1 /\ rj[j].cond = "Succeeded"
      BY <2>2 DEF Ended
    <3>2. "Succeeded" \in Conditions /\ "Succeeded" \in Results
      BY DEF Conditions, Results, IsDone
    <3>3. Reported("Succeeded") = "Succeeded"
      BY <3>2 DEF Reported, IsQueuedOrEmpty, IsWaitingOrRunning
    <3> QED BY <3>1, <3>2, <3>3 DEF StateOf
  <2>3. CASE rj[j] = Absent
    <3>1. Absent.created = 0
      BY DEF Absent
    <3> QED BY <2>3, <3>1 DEF StateOf
  <2> QED BY <2>1, <2>2, <2>3
<1> QED BY <1>1, JobStateIs DEF Exclusive!Init

(* The queue implements ExclusiveJobs, for any number of jobs, environments,
   stops, errors, lost reports and restarts, while the application keeps its
   branch mapping: every write of a condition is a job that becomes active with
   a clear way, one that ends, or nothing to those who look. *)
THEOREM ImplementsExclusiveJobs ==
  ASSUME Applications = {Application0}
  PROVE  Spec => JobsAreExclusive
<1>1. Init => QueueInv /\ CopyOpen /\ PhaseInv
  <2> SUFFICES ASSUME Init PROVE CopyOpen /\ PhaseInv
    BY QueueInvAtFirst
  <2>1. sync.pc = "idle"
    BY IdleType DEF Init
  <2> QED BY <2>1 DEF CopyOpen, PhaseInv
<1>2. TypeOK /\ QueueInv /\ [Next]_vars => QueueInv'
  BY FixedQueueInvStep
<1>3. TypeOK /\ QueueInv /\ CopyOpen /\ [Next]_vars => CopyOpen'
  BY OpenStep DEF OpenInv, QueueInv
<1>4. TypeOK /\ PhaseInv /\ [Next]_vars => PhaseInv'
  BY PhaseStep
<1>5. TypeOK /\ QueueInv /\ CopyOpen /\ PhaseInv /\ [Next]_vars => [Exclusive!Next]_JobState
  BY NextIsStep
<1> QED BY <1>1, <1>2, <1>3, <1>4, <1>5, InitIsInit, TypeCorrect, PTL DEF Spec, JobsAreExclusive, Exclusive!Spec
=============================================================================
