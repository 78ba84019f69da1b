------------------------- MODULE RadixJobOutcomeProofs -----------------------
(***************************************************************************)
(* Proofs about what users ask for and what runners report: no stop        *)
(* request is forgotten, no Sync undoes a report, and a job succeeds only  *)
(* with its runner's report, for any set of jobs and environments, any     *)
(* changes of the branch mapping, and any number of stops, errors, lost    *)
(* reports, deleted pipelines and restarts.  And about the queue while     *)
(* nothing disturbs it: it does not get stuck, and pipelines of a common   *)
(* environment do not execute together.                                    *)
(***************************************************************************)
EXTENDS RadixJobQueueProofs

Asked(r) == r.stop /\ ~IsDone(r.cond)

(* The Sync in progress is on its way to stop job j. *)
Stopping(j) == sync.pc \in {"targets", "stop", "stopped"} /\ sync.job = j /\ sync.rj.stop

(* A job that is asked to stop is on the queue or being stopped; nothing is known of one
   that is not created. *)
JobSound(j) ==
  /\ ~Exists(j) => ~rj[j].stop /\ rj[j].run = "" /\ kj[j] = "none" /\ dying[j] = 0
  /\ Asked(rj[j]) => j \in pending \/ Stopping(j)

(* What the copy of the Sync says of its job j. *)
CopySound(j) ==
  /\ sync.rj.stop => rj[j].stop
  /\ sync.pc \in {"stop", "stopped"} => sync.rj.stop
  /\ sync.pc \in {"queueing", "reconcile", "status", "update"} => ~sync.rj.stop

StopInv == \A j \in Jobs : JobSound(j) /\ (sync.pc # "idle" /\ sync.job = j => CopySound(j))

KeepsReport ==
  \A j \in Jobs : rj'[j].run # rj[j].run => (kj[j] = "running" \/ dying[j] > 0) /\ UNCHANGED sync

-----------------------------------------------------------------------------
(* The Sync ends, and every job that is asked to stop is on the queue. *)
LEMMA StopIdle ==
  ASSUME StopInv, UNCHANGED <<rj, kj, dying>>, sync' = Idle,
         \A k \in Jobs : Asked(rj[k]) => k \in pending'
  PROVE  StopInv' /\ KeepsReport
<1>1. sync'.pc = "idle"
  BY DEF Idle
<1>2. \A k \in Jobs : JobSound(k)'
  BY DEF StopInv, JobSound, Exists
<1> QED BY <1>1, <1>2 DEF StopInv, KeepsReport

(* A Sync begins, or starts over, with the current RadixJob j. *)
LEMMA StopBegin ==
  ASSUME TypeOK, StopInv, UNCHANGED <<rj, kj, dying>>, NEW j \in Jobs, NEW try, Begin(j, try),
         sync.pc # "idle" => sync.job = j, \A k \in Jobs \ {j} : k \in pending => k \in pending'
  PROVE  StopInv' /\ KeepsReport
<1>o. \A k \in Jobs \ {j} : Asked(rj[k]) => k \in pending'
  BY DEF StopInv, JobSound, Stopping
<1>1. CASE IsDone(rj[j].cond)
  <2>1. sync' = Idle
    BY <1>1 DEF Begin
  <2> QED BY <1>o, <1>1, <2>1, StopIdle DEF Asked
<1>2. CASE ~IsDone(rj[j].cond)
  <2>1. sync'.pc = FirstPhase(rj[j]) /\ sync'.job = j /\ sync'.rj = rj[j]
    BY <1>2 DEF Begin, Idle
  <2>2. /\ rj[j].stop => FirstPhase(rj[j]) \in {"targets", "stop"}
        /\ ~rj[j].stop => FirstPhase(rj[j]) \in {"targets", "queueing", "reconcile"}
    BY DEF FirstPhase, AfterTargets
  <2>3. CopySound(j)'
    BY <2>1, <2>2 DEF StopInv, JobSound, CopySound
  <2>4. \A k \in Jobs : Asked(rj'[k]) => k \in pending' \/ Stopping(k)'
    BY <1>o, <2>1, <2>2 DEF Stopping, Asked
  <2>5. \A k \in Jobs : JobSound(k)'
    BY <2>4 DEF StopInv, JobSound, Exists
  <2> QED BY <2>1, <2>3, <2>5 DEF StopInv, KeepsReport
<1> QED BY <1>1, <1>2

LEMMA StopRequeue ==
  ASSUME TypeOK, StopInv, UNCHANGED <<rj, kj, dying>>, sync.pc # "idle", Requeue
  PROVE  StopInv' /\ KeepsReport
<1>1. \A k \in Jobs : Asked(rj[k]) => k \in pending'
  BY DEF Requeue, StopInv, JobSound, Stopping
<1> QED BY <1>1, StopIdle DEF Requeue

LEMMA StopRetry ==
  ASSUME TypeOK, StopInv, UNCHANGED <<rj, kj, dying>>, sync.pc # "idle", Retry
  PROVE  StopInv' /\ KeepsReport
<1>m. sync.job \in Jobs
  BY DEF TypeOK
<1>1. CASE Begin(sync.job, sync.tries + 1) /\ UNCHANGED pending
  BY <1>m, <1>1, StopBegin
<1>2. CASE Requeue
  BY <1>2, StopRequeue
<1> QED BY <1>1, <1>2 DEF Retry

(* A status update of the synced job changes neither the stop request nor the report. *)
LEMMA StopWrite ==
  ASSUME TypeOK, StopInv, UNCHANGED <<kj, dying>>, sync.pc # "idle",
         NEW new, new.stop = sync.rj.stop, new.run = sync.rj.run, new.created = sync.rj.created,
         NEW then, then.pc # "idle" => then.job = sync.job /\ then.rj = new,
         then.pc \in {"stop", "stopped"} => new.stop,
         then.pc \in {"queueing", "reconcile", "status", "update"} => ~new.stop,
         Asked(new) => then.pc \in {"targets", "stop", "stopped"},
         UpdateStatus(new, then)
  PROVE  StopInv' /\ KeepsReport
<1>m. PICK me \in Jobs : me = sync.job
  BY DEF TypeOK
<1>1. CASE rj[me] = sync.rj /\ Store(me, new) /\ sync' = then
  <2>1. /\ rj'[me] = new /\ \A k \in Jobs \ {me} : rj'[k] = rj[k]
        /\ pending \subseteq pending'
    BY <1>1 DEF Store, TypeOK
  <2>2. \A k \in Jobs : /\ rj'[k].stop = rj[k].stop /\ rj'[k].run = rj[k].run
                        /\ rj'[k].created = rj[k].created
    BY <1>m, <1>1, <2>1
  <2>3. \A k \in Jobs \ {me} : Asked(rj'[k]) => k \in pending'
    BY <1>m, <2>1 DEF StopInv, JobSound, Stopping
  <2>4. Asked(rj'[me]) => Stopping(me)'
    BY <1>m, <1>1, <2>1 DEF Stopping, Asked
  <2>5. \A k \in Jobs : JobSound(k)'
    BY <2>2, <2>3, <2>4 DEF StopInv, JobSound, Exists
  <2>6. sync'.pc # "idle" => sync'.job = me /\ CopySound(me)'
    BY <1>m, <1>1, <2>1, <2>2 DEF StopInv, JobSound, CopySound
  <2> QED BY <2>2, <2>5, <2>6 DEF StopInv, KeepsReport
<1>2. CASE Retry /\ UNCHANGED rj
  BY <1>2, StopRetry
<1> QED BY <1>m, <1>1, <1>2 DEF UpdateStatus

(* A job that a step does not touch stays sound. *)
LEMMA UntouchedSound ==
  ASSUME NEW k \in Jobs, JobSound(k), rj'[k] = rj[k], kj'[k] = kj[k], dying'[k] = dying[k],
         k \in pending => k \in pending', Stopping(k) => Stopping(k)'
  PROVE  JobSound(k)'
<1>1. ~Exists(k)' => ~rj'[k].stop /\ rj'[k].run = "" /\ kj'[k] = "none" /\ dying'[k] = 0
  BY DEF JobSound, Exists
<1>2. Asked(rj'[k]) => k \in pending' \/ Stopping(k)'
  BY DEF JobSound
<1> QED BY <1>1, <1>2 DEF JobSound

(* A step of the Sync that writes no RadixJob: it goes on with the copy it has. *)
LEMMA StopMove ==
  ASSUME TypeOK, StopInv, UNCHANGED rj, NEW me \in Jobs, sync.job = me, sync.pc # "idle",
         \A k \in Jobs : k \in pending => k \in pending',
         sync'.job = me, sync'.rj = sync.rj,
         sync'.pc \in {"stop", "stopped"} => sync.rj.stop,
         sync'.pc \in {"queueing", "reconcile", "status", "update"} => ~sync.rj.stop,
         Stopping(me) => Stopping(me)',
         Exists(me), \A k \in Jobs \ {me} : kj'[k] = kj[k] /\ dying'[k] = dying[k]
  PROVE  StopInv' /\ KeepsReport
<1>1. CopySound(me) /\ JobSound(me)
  BY DEF StopInv
<1>2. CopySound(me)'
  BY <1>1 DEF CopySound
<1>3. JobSound(me)'
  BY <1>1 DEF JobSound, CopySound, Exists
<1>4. ASSUME NEW k \in Jobs \ {me} PROVE JobSound(k)'
  <2>1. ~Stopping(k)
    BY DEF Stopping
  <2> QED BY <2>1, UntouchedSound DEF StopInv
<1> QED BY <1>2, <1>3, <1>4 DEF StopInv, KeepsReport

LEMMA StopSyncStep ==
  ASSUME TypeOK, OpenInv, StopInv, SyncStep
  PROVE  StopInv' /\ KeepsReport
<1>m. PICK me \in Jobs : me = sync.job /\ Exists(me) /\ sync.pc # "idle"
  BY DEF TypeOK, OpenInv, Created, SyncStep, SyncTargetEnvironments, DeletePipelineJobs, StopUpdate,
     HandleJobQueueing, Reconcile, SyncStatusRead, SyncStatusUpdate, SetNextJobToWaiting, UpdateNextJob,
     ReconcileFails, SyncReturnsError
<1>t. /\ sync \in SyncRecords /\ sync.rj \in RadixJobs /\ rj \in [Jobs -> RadixJobs]
      /\ kj \in [Jobs -> KubeJobStates] /\ dying \in [Jobs -> Nat] /\ Idle.pc = "idle"
  BY IdleType DEF TypeOK, SyncRecords
<1>c. JobSound(me) /\ CopySound(me)
  BY <1>m DEF StopInv
<1>1. CASE SyncTargetEnvironments
  <2>1. PICK new : new = [sync.rj EXCEPT !.envs = TargetEnvironments(sync.job, sync.app)]
    OBVIOUS
  <2>2. /\ new.created = sync.rj.created /\ new.stop = sync.rj.stop /\ new.run = sync.rj.run
    BY <1>t, <2>1 DEF RadixJobs
  <2>3. PICK then : then = [sync EXCEPT !.rj = new, !.pc = AfterTargets(new)]
    OBVIOUS
  <2>4. then.pc = AfterTargets(new) /\ then.job = sync.job /\ then.rj = new
    BY <1>t, <2>3 DEF SyncRecords
  <2>5. /\ new.stop => AfterTargets(new) = "stop"
        /\ ~new.stop => AfterTargets(new) \in {"queueing", "reconcile"}
    BY DEF AfterTargets
  <2>6. UpdateStatus(new, then) /\ UNCHANGED <<kj, dying>>
    BY <1>1, <2>1, <2>3 DEF SyncTargetEnvironments
  <2> QED BY <1>m, <2>2, <2>4, <2>5, <2>6, StopWrite DEF Asked
<1>2. CASE DeletePipelineJobs
  <2>1. sync'.pc = "stopped" /\ sync'.job = me /\ sync'.rj = sync.rj /\ sync.pc = "stop"
    BY <1>m, <1>t, <1>2 DEF DeletePipelineJobs, SyncRecords
  <2>2. /\ UNCHANGED rj /\ \A k \in Jobs : k \in pending => k \in pending'
        /\ \A k \in Jobs \ {me} : kj'[k] = kj[k] /\ dying'[k] = dying[k]
    BY <1>m, <1>t, <1>2 DEF DeletePipelineJobs, Terminate, KubeEvent
  <2>3. sync.rj.stop
    BY <1>c, <2>1 DEF CopySound
  <2> QED BY <1>m, <2>1, <2>2, <2>3, StopMove DEF Stopping
<1>3. CASE StopUpdate
  <2>1. PICK new : new = [sync.rj EXCEPT !.cond = "Stopped"]
    OBVIOUS
  <2>2. /\ new.created = sync.rj.created /\ new.stop = sync.rj.stop /\ new.run = sync.rj.run
        /\ new.cond = "Stopped"
    BY <1>t, <2>1 DEF RadixJobs
  <2>3. PICK then : then = [sync EXCEPT !.pc = "wake", !.rj = new]
    OBVIOUS
  <2>4. then.pc = "wake" /\ then.job = sync.job /\ then.rj = new
    BY <1>t, <2>3 DEF SyncRecords
  <2>5. UpdateStatus(new, then) /\ UNCHANGED <<kj, dying>>
    BY <1>3, <2>1, <2>3 DEF StopUpdate
  <2> QED BY <1>m, <2>2, <2>4, <2>5, StopWrite DEF Asked, IsDone
<1>4. CASE HandleJobQueueing
  <2>0. sync.pc = "queueing" /\ ~sync.rj.stop /\ UNCHANGED <<kj, dying>>
    BY <1>4, <1>c DEF HandleJobQueueing, CopySound
  <2>1. PICK new : new = [sync.rj EXCEPT !.cond = "Queued"]
    OBVIOUS
  <2>2. /\ new.created = sync.rj.created /\ new.stop = sync.rj.stop /\ new.run = sync.rj.run
    BY <1>t, <2>1 DEF RadixJobs
  <2>3. CASE UpdateStatus(new, Idle)
    BY <1>m, <1>t, <2>0, <2>2, <2>3, StopWrite DEF Asked
  <2>4. CASE sync' = [sync EXCEPT !.pc = "reconcile"] /\ UNCHANGED <<rj, pending>>
    <3>1. sync'.pc = "reconcile" /\ sync'.job = me /\ sync'.rj = sync.rj
      BY <1>m, <1>t, <2>4 DEF SyncRecords
    <3> QED BY <1>m, <2>0, <2>4, <3>1, StopMove DEF Stopping
  <2> QED BY <1>4, <2>1, <2>3, <2>4 DEF HandleJobQueueing
<1>5. CASE Reconcile
  <2>1. /\ sync'.pc = "status" /\ sync'.job = me /\ sync'.rj = sync.rj /\ sync.pc = "reconcile"
        /\ UNCHANGED <<rj, pending>>
    BY <1>m, <1>t, <1>5 DEF Reconcile, SyncRecords
  <2>2. \A k \in Jobs \ {me} : kj'[k] = kj[k] /\ dying'[k] = dying[k]
    BY <1>m, <1>t, <1>5 DEF Reconcile
  <2>3. ~sync.rj.stop
    BY <1>c, <2>1 DEF CopySound
  <2> QED BY <1>m, <2>1, <2>2, <2>3, StopMove DEF Stopping
<1>6. CASE SyncStatusRead
  <2>1. /\ sync'.pc = "update" /\ sync'.job = me /\ sync'.rj = sync.rj /\ sync.pc = "status"
        /\ UNCHANGED <<rj, kj, dying, pending>>
    BY <1>m, <1>t, <1>6 DEF SyncStatusRead, SyncRecords
  <2>2. ~sync.rj.stop
    BY <1>c, <2>1 DEF CopySound
  <2> QED BY <1>m, <2>1, <2>2, StopMove DEF Stopping
<1>7. CASE SyncStatusUpdate
  <2>0. sync.pc = "update" /\ ~sync.rj.stop /\ UNCHANGED <<kj, dying>>
    BY <1>7, <1>c DEF SyncStatusUpdate, CopySound
  <2>1. PICK new : new = [sync.rj EXCEPT !.cond = sync.cond]
    OBVIOUS
  <2>2. /\ new.created = sync.rj.created /\ new.stop = sync.rj.stop /\ new.run = sync.rj.run
    BY <1>t, <2>1 DEF RadixJobs
  <2>3. ASSUME NEW phase \in {"wake", "failed"}, NEW then, then = [sync EXCEPT !.pc = phase, !.rj = new],
               UpdateStatus(new, then)
        PROVE  StopInv' /\ KeepsReport
    <3>1. then.pc = phase /\ then.job = sync.job /\ then.rj = new
      BY <1>t, <2>3 DEF SyncRecords
    <3> QED BY <1>m, <2>0, <2>2, <2>3, <3>1, StopWrite DEF Asked
  <2>4. CASE UpdateStatus(new, Idle)
    BY <1>m, <1>t, <2>0, <2>2, <2>4, StopWrite DEF Asked
  <2> QED BY <1>7, <2>1, <2>3, <2>4 DEF SyncStatusUpdate
<1>8. CASE SetNextJobToWaiting
  <2>0. UNCHANGED <<rj, kj, dying, pending>> /\ sync.pc = "wake"
    BY <1>8 DEF SetNextJobToWaiting
  <2>1. CASE sync' = Idle
    <3>1. \A k \in Jobs : Asked(rj[k]) => k \in pending'
      BY <2>0 DEF StopInv, JobSound, Stopping
    <3> QED BY <2>0, <2>1, <3>1, StopIdle
  <2>2. ASSUME NEW k \in Wakeable(sync.app), sync' = [sync EXCEPT !.pc = "waken", !.next = k, !.nextRj = rj[k]]
        PROVE  StopInv' /\ KeepsReport
    <3>1. sync'.pc = "waken" /\ sync'.job = me /\ sync'.rj = sync.rj
      BY <1>m, <1>t, <2>2 DEF SyncRecords
    <3> QED BY <1>m, <2>0, <3>1, StopMove DEF Stopping
  <2> QED BY <1>8, <2>1, <2>2 DEF SetNextJobToWaiting
<1>9. CASE UpdateNextJob
  <2>0. sync.pc = "waken" /\ UNCHANGED <<kj, dying>>
    BY <1>9 DEF UpdateNextJob
  <2>1. CASE Retry /\ UNCHANGED rj
    BY <1>m, <2>0, <2>1, StopRetry
  <2>2. CASE /\ rj[sync.next] = sync.nextRj /\ sync' = Idle
             /\ Store(sync.next, [sync.nextRj EXCEPT !.cond = "Waiting"])
    <3>1. PICK k \in Jobs : k = sync.next
      BY <2>0 DEF TypeOK
    <3>2. PICK new : new = [rj[k] EXCEPT !.cond = "Waiting"]
      OBVIOUS
    <3>3. /\ new.stop = rj[k].stop /\ new.run = rj[k].run /\ new.created = rj[k].created
          /\ Asked(new) => Asked(rj[k])
      BY <1>t, <2>0, <2>2, <3>1, <3>2 DEF RadixJobs, OpenInv, CopyOpen, Asked, IsDone
    <3>4. rj' = [rj EXCEPT ![k] = new] /\ pending \subseteq pending'
      BY <2>2, <3>1, <3>2 DEF Store
    <3>5. \A i \in Jobs : /\ rj'[i].stop = rj[i].stop /\ rj'[i].run = rj[i].run
                          /\ rj'[i].created = rj[i].created /\ (Asked(rj'[i]) => Asked(rj[i]))
      BY <1>t, <3>3, <3>4
    <3>6. \A i \in Jobs : Asked(rj'[i]) => i \in pending'
      BY <2>0, <3>4, <3>5 DEF StopInv, JobSound, Stopping
    <3>7. \A i \in Jobs : JobSound(i)'
      BY <2>0, <3>5, <3>6 DEF StopInv, JobSound, Exists
    <3>8. sync'.pc = "idle"
      BY <1>t, <2>2
    <3> QED BY <3>5, <3>7, <3>8 DEF StopInv, KeepsReport
  <2> QED BY <1>9, <2>1, <2>2 DEF UpdateNextJob
<1>10. CASE ReconcileFails
  <2>1. /\ sync'.pc = "status" /\ sync'.job = me /\ sync'.rj = sync.rj /\ sync.pc = "reconcile"
        /\ UNCHANGED <<rj, kj, dying, pending>>
    BY <1>m, <1>t, <1>10 DEF ReconcileFails, SyncRecords
  <2>2. ~sync.rj.stop
    BY <1>c, <2>1 DEF CopySound
  <2> QED BY <1>m, <2>1, <2>2, StopMove DEF Stopping
<1>11. CASE SyncReturnsError
  BY <1>m, <1>11, StopRequeue DEF SyncReturnsError
<1> QED BY <1>1, <1>2, <1>3, <1>4, <1>5, <1>6, <1>7, <1>8, <1>9, <1>10, <1>11 DEF SyncStep

(* What users, runners, pods and those who delete Kubernetes Jobs do to job j. *)
LEMMA StopEnvironment ==
  ASSUME TypeOK, OpenInv, StopInv, NEW j \in Jobs,
         CreateJob(j) \/ StopJob(j) \/ KubeJobDeleted(j) \/ Pipeline(j)
  PROVE  StopInv' /\ KeepsReport
<1>t. /\ rj \in [Jobs -> RadixJobs] /\ \A k \in Jobs : rj[k].created \in Nat
      /\ kj \in [Jobs -> KubeJobStates] /\ dying \in [Jobs -> Nat]
  BY DEF TypeOK, RadixJobs
<1>s. UNCHANGED sync
  BY DEF CreateJob, StopJob, KubeJobDeleted, Pipeline, PodStarts, RunnerReports, RunnerEnds, PodSucceeds,
     PodFails, DyingEnds
<1>c. JobSound(j) /\ (sync.pc # "idle" /\ sync.job = j => CopySound(j))
  BY DEF StopInv
(* It is enough that job j stays sound. *)
<1>w. ASSUME \A k \in Jobs \ {j} : rj'[k] = rj[k] /\ kj'[k] = kj[k] /\ dying'[k] = dying[k],
             \A k \in Jobs : k \in pending => k \in pending',
             JobSound(j)', sync.pc # "idle" /\ sync.job = j => CopySound(j)',
             rj'[j].run # rj[j].run => kj[j] = "running" \/ dying[j] > 0
      PROVE  StopInv' /\ KeepsReport
  <2>1. ASSUME NEW k \in Jobs \ {j}
        PROVE  JobSound(k)' /\ (sync.pc # "idle" /\ sync.job = k => CopySound(k)')
    <3>1. JobSound(k)'
      BY <1>s, <1>w, UntouchedSound DEF StopInv, Stopping
    <3>2. sync.pc # "idle" /\ sync.job = k => CopySound(k)'
      BY <1>s, <1>w DEF StopInv, CopySound
    <3> QED BY <3>1, <3>2
  <2> QED BY <1>s, <1>w, <2>1 DEF StopInv, KeepsReport
<1>1. CASE CreateJob(j)
  <2>1. PICK k \in Jobs, later \in {0, 1} :
          /\ rj[k].created + later > 0
          /\ rj' = [rj EXCEPT ![j] = [Absent EXCEPT !.created = rj[k].created + later]]
    BY <1>1 DEF CreateJob
  <2>3. PICK new : new = [Absent EXCEPT !.created = rj[k].created + later]
    OBVIOUS
  <2>4. new.created > 0 /\ ~new.stop /\ new.run = ""
    BY <2>1, <2>3 DEF Absent
  <2>5. /\ rj'[j] = new /\ \A i \in Jobs \ {j} : rj'[i] = rj[i]
        /\ UNCHANGED <<kj, dying>> /\ pending' = pending \cup {j} /\ ~Exists(j)
    BY <1>1, <1>t, <2>1, <2>3 DEF CreateJob
  <2>6. JobSound(j)'
    BY <2>4, <2>5 DEF JobSound, Exists, Asked
  <2>7. ~(sync.pc # "idle" /\ sync.job = j) /\ rj[j].run = ""
    BY <1>c, <2>5 DEF OpenInv, Created, JobSound
  <2> QED BY <2>4, <2>5, <2>6, <2>7, <1>w
<1>2. CASE StopJob(j)
  <2>1. PICK new : new = [rj[j] EXCEPT !.stop = TRUE]
    OBVIOUS
  <2>2. /\ new.cond = rj[j].cond /\ new.created = rj[j].created /\ new.created > 0
        /\ new.stop /\ new.run = rj[j].run
    BY <1>t, <1>2, <2>1 DEF RadixJobs, StopJob, Exists
  <2>3. /\ rj'[j] = new /\ \A i \in Jobs \ {j} : rj'[i] = rj[i]
        /\ UNCHANGED <<kj, dying>> /\ pending' = pending \cup Notified(j, new) /\ ~rj[j].stop
    BY <1>2, <1>t, <2>1 DEF StopJob, Store
  <2>4. Asked(new) => j \in pending'
    BY <2>2, <2>3 DEF Notified, Asked
  <2>5. JobSound(j)'
    BY <1>c, <2>2, <2>3, <2>4 DEF JobSound, Exists
  <2>6. sync.pc # "idle" /\ sync.job = j => CopySound(j)'
    BY <1>c, <1>s, <2>2, <2>3 DEF CopySound
  <2> QED BY <2>2, <2>3, <2>5, <2>6, <1>w
<1>3. CASE KubeJobDeleted(j)
  <2>1. /\ \A i \in Jobs \ {j} : kj'[i] = kj[i] /\ dying'[i] = dying[i]
        /\ UNCHANGED rj /\ (\A k \in Jobs : k \in pending => k \in pending') /\ Exists(j)
    BY <1>3, <1>c, <1>t DEF KubeJobDeleted, Terminate, KubeEvent, JobSound
  <2>2. JobSound(j)'
    BY <1>c, <1>s, <2>1 DEF JobSound, Exists, Stopping
  <2>3. sync.pc # "idle" /\ sync.job = j => CopySound(j)'
    BY <1>c, <1>s, <2>1 DEF CopySound
  <2> QED BY <2>1, <2>2, <2>3, <1>w
<1>4. CASE Pipeline(j)
  <2>0. kj[j] # "none" \/ dying[j] > 0
    BY <1>4 DEF Pipeline, PodStarts, RunnerReports, RunnerEnds, PodSucceeds, PodFails, DyingEnds
  <2>x. Exists(j)
    <3>1. CASE kj[j] # "none"
      BY <1>c, <3>1 DEF JobSound
    <3>2. CASE dying[j] > 0
      <4>1. dying[j] # 0
        BY <3>2
      <4> QED BY <1>c, <4>1 DEF JobSound
    <3> QED BY <2>0, <3>1, <3>2
  <2>r. ASSUME NEW run, rj' = [rj EXCEPT ![j] = [rj[j] EXCEPT !.run = run]] \/ UNCHANGED rj,
               \A i \in Jobs \ {j} : kj'[i] = kj[i] /\ dying'[i] = dying[i],
               \A k \in Jobs : k \in pending => k \in pending',
               UNCHANGED rj \/ kj[j] = "running" \/ dying[j] > 0
        PROVE  StopInv' /\ KeepsReport
    <3>1. /\ rj'[j].stop = rj[j].stop /\ rj'[j].cond = rj[j].cond /\ rj'[j].created = rj[j].created
          /\ \A i \in Jobs \ {j} : rj'[i] = rj[i]
      BY <1>t, <2>r DEF RadixJobs
    <3>2. JobSound(j)'
      BY <1>c, <1>s, <2>r, <2>x, <3>1 DEF JobSound, Stopping, Asked, Exists
    <3>3. sync.pc # "idle" /\ sync.job = j => CopySound(j)'
      BY <1>c, <1>s, <3>1 DEF CopySound
    <3> QED BY <2>r, <3>1, <3>2, <3>3, <1>w
  <2>1. CASE PodStarts(j) \/ PodSucceeds(j)
    BY <2>1, <2>r, <1>t DEF PodStarts, PodSucceeds, KubeEvent
  <2>2. CASE RunnerReports(j)
    BY <2>2, <2>r, <1>t DEF RunnerReports, Store
  <2>3. CASE RunnerEnds(j)
    BY <2>3, <2>r, <1>t DEF RunnerEnds, Report, Store
  <2>4. CASE PodFails(j)
    <3>1. PICK run : rj' = [rj EXCEPT ![j] = [rj[j] EXCEPT !.run = run]]
      BY <2>4 DEF PodFails
    <3> QED BY <2>4, <3>1, <2>r, <1>t DEF PodFails, KubeEvent
  <2>5. CASE DyingEnds(j)
    <3>1. UNCHANGED rj \/ \E run : rj' = [rj EXCEPT ![j] = [rj[j] EXCEPT !.run = run]]
      BY <2>5 DEF DyingEnds
    <3>2. /\ \A i \in Jobs \ {j} : kj'[i] = kj[i] /\ dying'[i] = dying[i]
          /\ \A k \in Jobs : k \in pending => k \in pending'
      BY <2>5, <1>t DEF DyingEnds, KubeEvent
    <3> QED BY <2>5, <3>1, <3>2, <2>r DEF DyingEnds
  <2> QED BY <1>4, <2>1, <2>2, <2>3, <2>4, <2>5 DEF Pipeline
<1> QED BY <1>1, <1>2, <1>3, <1>4

LEMMA StopStep == TypeOK /\ OpenInv /\ StopInv /\ [Next]_vars => StopInv' /\ KeepsReport
<1> SUFFICES ASSUME TypeOK, OpenInv, StopInv, [Next]_vars PROVE StopInv' /\ KeepsReport
  OBVIOUS
<1>1. ASSUME NEW j \in Jobs, CreateJob(j) \/ StopJob(j) \/ KubeJobDeleted(j) \/ Pipeline(j)
      PROVE  StopInv' /\ KeepsReport
  BY <1>1, StopEnvironment
<1>2. ASSUME NEW j \in Jobs, StartSync(j) PROVE StopInv' /\ KeepsReport
  <2>1. /\ Begin(j, 1) /\ UNCHANGED <<rj, kj, dying>> /\ sync.pc = "idle"
        /\ \A k \in Jobs \ {j} : k \in pending => k \in pending'
    BY <1>2 DEF StartSync
  <2> QED BY <2>1, StopBegin
<1>3. CASE SyncStep
  BY <1>3, StopSyncStep
<1>4. CASE SyncFails
  BY <1>4, StopRequeue DEF SyncFails
<1>5. CASE Crash
  <2>1. \A k \in Jobs : Asked(rj[k]) => k \in pending'
    BY <1>5 DEF Crash, StopInv, JobSound, Asked
  <2> QED BY <1>5, <2>1, StopIdle DEF Crash
<1>6. CASE UNCHANGED <<rj, kj, dying, pending, sync>>
  BY <1>6 DEF StopInv, JobSound, CopySound, Stopping, Exists, KeepsReport
<1> QED BY <1>1, <1>2, <1>3, <1>4, <1>5, <1>6 DEF Next, ChangeApplication, vars

LEMMA StopInit == Init => OpenInv /\ StopInv
<1> SUFFICES ASSUME Init PROVE OpenInv /\ StopInv
  OBVIOUS
<1>1. pending = {} /\ sync.pc = "idle"
  BY DEF Init, Idle
<1>2. \A j \in Jobs : InitialJob(j)
  BY InitialJobs
<1>3. OpenInv
  BY <1>1, <1>2 DEF InitialJob, OpenInv, Created, CopyOpen
<1>4. PICK s \in Starts :
        /\ rj = [j \in Jobs |-> IF j \in s.done THEN Ended(j) ELSE Absent]
        /\ kj = [j \in Jobs |-> IF j \in s.done THEN "succeeded" ELSE "none"]
        /\ dying = [j \in Jobs |-> 0]
  BY DEF Init
<1>5. ASSUME NEW j \in Jobs PROVE JobSound(j)
  <2>1. CASE j \in s.done
    <3>1. rj[j].created = 1 /\ ~rj[j].stop
      BY <1>4, <2>1 DEF Ended
    <3>2. Exists(j) /\ ~Asked(rj[j])
      BY <3>1 DEF Exists, Asked
    <3> QED BY <3>2 DEF JobSound
  <2>2. CASE j \notin s.done
    BY <1>4, <2>2 DEF JobSound, Absent, Exists, Asked
  <2> QED BY <2>1, <2>2
<1> QED BY <1>1, <1>3, <1>5 DEF StopInv

(* The invariants hold in every state. *)
LEMMA Invariants == Spec => [](TypeOK /\ OpenInv /\ StopInv)
<1>1. TypeOK /\ OpenInv /\ [Next]_vars => OpenInv'
  BY OpenStep
<1>2. TypeOK /\ OpenInv /\ StopInv /\ [Next]_vars => StopInv'
  BY StopStep
<1> QED BY <1>1, <1>2, StopInit, TypeCorrect, PTL DEF Spec

(* When the operator has nothing left to do, every job that somebody asked to stop is
   done, for any number of jobs, stops, errors, conflicts and restarts, also when the
   application changes (handleStop, the filter of the event handlers, the retries):
   NoStopForgotten, in general. *)
THEOREM NoStopForgottenHolds == Spec => []NoStopForgotten
<1>1. StopInv => NoStopForgotten
  BY DEF StopInv, JobSound, Stopping, Asked, NoStopForgotten, Quiet
<1> QED BY <1>1, Invariants, PTL

(* What a runner reported is replaced only by a runner of the same job that has not ended,
   possibly another one after its Kubernetes Job was deleted: not by the status update of
   a Sync that read the RadixJob before it, which is refused (updateRadixJobStatus), for
   any number of jobs and any interleaving of reports, Syncs and faults: ReportIsKept,
   in general. *)
THEOREM ReportIsKeptHolds == Spec => ReportIsKept
<1>1. TypeOK /\ OpenInv /\ StopInv /\ [Next]_vars => [KeepsReport]_vars
  BY StopStep
<1> QED BY <1>1, Invariants, PTL DEF Spec, ReportIsKept, KeepsReport

-----------------------------------------------------------------------------
Well == {"Succeeded", "StoppedNoChanges"}

(* The good end that a Sync is about to write is not another than the report it read. *)
ReadInv == sync.pc = "update" /\ sync.cond \in Well => sync.rj.run \in {"", sync.cond}

LEMMA BeginIsEarly ==
  ASSUME NEW j \in Jobs, NEW try, Begin(j, try)
  PROVE  sync'.pc # "update"
  BY DEF Begin, Idle, FirstPhase, AfterTargets

LEMMA UpdateIsEarly ==
  ASSUME TypeOK, sync.pc # "idle", NEW new, NEW then, UpdateStatus(new, then), then.pc # "update"
  PROVE  sync'.pc # "update"
<1>1. sync.job \in Jobs /\ Idle.pc # "update"
  BY DEF TypeOK, Idle
<1> QED BY <1>1, BeginIsEarly DEF UpdateStatus, Retry, Requeue

(* A Sync is ready to update the status only after it has read it. *)
LEMMA OnlyReadIsReady ==
  ASSUME TypeOK, [Next]_vars, sync'.pc = "update"
  PROVE  SyncStatusRead \/ UNCHANGED sync
<1>t. /\ sync \in SyncRecords /\ sync.rj \in RadixJobs /\ Idle.pc = "idle"
  BY IdleType DEF TypeOK, SyncRecords
<1>u. ASSUME NEW new, NEW phase, phase # "update", sync.pc # "idle",
             UpdateStatus(new, [sync EXCEPT !.rj = new, !.pc = phase])
      PROVE  FALSE
  <2>1. PICK then : then = [sync EXCEPT !.rj = new, !.pc = phase]
    OBVIOUS
  <2>2. then.pc = phase
    BY <1>t, <2>1 DEF SyncRecords
  <2> QED BY <1>u, <2>1, <2>2, UpdateIsEarly
<1>i. ASSUME NEW new, sync.pc # "idle", UpdateStatus(new, Idle) PROVE FALSE
  BY <1>i, <1>t, UpdateIsEarly
<1>1. ASSUME NEW j \in Jobs, StartSync(j) PROVE FALSE
  BY <1>1, BeginIsEarly DEF StartSync
<1>2. CASE SyncTargetEnvironments
  <2>1. PICK new : new = [sync.rj EXCEPT !.envs = TargetEnvironments(sync.job, sync.app)]
    OBVIOUS
  <2>2. AfterTargets(new) # "update"
    BY DEF AfterTargets
  <2> QED BY <1>2, <1>u, <2>1, <2>2 DEF SyncTargetEnvironments
<1>3. CASE StopUpdate
  <2>1. PICK new : new = [sync.rj EXCEPT !.cond = "Stopped"]
    OBVIOUS
  <2>2. PICK then : then = [sync EXCEPT !.pc = "wake", !.rj = new]
    OBVIOUS
  <2>3. then.pc = "wake"
    BY <1>t, <2>2 DEF SyncRecords
  <2>4. UpdateStatus(new, then) /\ sync.pc # "idle"
    BY <1>3, <2>1, <2>2 DEF StopUpdate
  <2> QED BY <2>3, <2>4, UpdateIsEarly
<1>4. CASE SyncStatusUpdate
  <2>1. PICK new : new = [sync.rj EXCEPT !.cond = sync.cond]
    OBVIOUS
  <2>2. ASSUME NEW phase \in {"wake", "failed"}, UpdateStatus(new, [sync EXCEPT !.pc = phase, !.rj = new])
        PROVE  FALSE
    <3>1. PICK then : then = [sync EXCEPT !.pc = phase, !.rj = new]
      OBVIOUS
    <3>2. then.pc = phase
      BY <1>t, <3>1 DEF SyncRecords
    <3> QED BY <1>4, <2>2, <3>1, <3>2, UpdateIsEarly DEF SyncStatusUpdate
  <2>3. CASE UpdateStatus(new, Idle)
    BY <1>4, <1>i, <2>3 DEF SyncStatusUpdate
  <2> QED BY <1>4, <2>1, <2>2, <2>3 DEF SyncStatusUpdate
<1>5. CASE HandleJobQueueing
  <2>1. CASE UpdateStatus([sync.rj EXCEPT !.cond = "Queued"], Idle)
    BY <1>5, <1>i, <2>1 DEF HandleJobQueueing
  <2>2. CASE sync' = [sync EXCEPT !.pc = "reconcile"]
    BY <1>t, <2>2 DEF SyncRecords
  <2> QED BY <1>5, <2>1, <2>2 DEF HandleJobQueueing
<1>6. CASE DeletePipelineJobs \/ Reconcile \/ ReconcileFails \/ SetNextJobToWaiting
  BY <1>6, <1>t DEF DeletePipelineJobs, Reconcile, ReconcileFails, SetNextJobToWaiting, SyncRecords
<1>7. CASE UpdateNextJob
  <2>1. sync.job \in Jobs
    BY <1>7 DEF UpdateNextJob, TypeOK
  <2> QED BY <1>7, <1>t, <2>1, BeginIsEarly DEF UpdateNextJob, Retry, Requeue
<1>8. CASE sync' = Idle
  BY <1>8, <1>t
<1> QED BY <1>1, <1>2, <1>3, <1>4, <1>5, <1>6, <1>7, <1>8 DEF Next, vars, SyncStep, SyncReturnsError, SyncFails,
     Requeue, Crash, ChangeApplication, CreateJob, StopJob, KubeJobDeleted, Pipeline, PodStarts, RunnerReports,
     RunnerEnds, PodSucceeds, PodFails, DyingEnds

LEMMA ReadStep == TypeOK /\ OpenInv /\ ReadInv /\ [Next]_vars => ReadInv'
<1> SUFFICES ASSUME TypeOK, OpenInv, ReadInv, [Next]_vars, sync'.pc = "update", sync'.cond \in Well
             PROVE  sync'.rj.run \in {"", sync'.cond}
  BY DEF ReadInv
<1>1. CASE UNCHANGED sync
  BY <1>1 DEF ReadInv
<1>2. CASE SyncStatusRead
  <2>1. /\ sync'.rj = sync.rj
        /\ sync'.cond = IF kj[sync.job] = "none" THEN sync.rj.cond
                          ELSE FindJobCondition(kj[sync.job], sync.rj.run)
    BY <1>2 DEF SyncStatusRead, TypeOK, SyncRecords
  <2>2. sync.rj.cond \notin Well
    BY <1>2 DEF SyncStatusRead, OpenInv, CopyOpen, Well, IsDone
  <2> QED BY <2>1, <2>2 DEF FindJobCondition, Well
<1> QED BY <1>1, <1>2, OnlyReadIsReady

(* The stored report agrees with the good end that is written for a job. *)
WritesReported ==
  \A j \in Jobs : rj'[j].cond # rj[j].cond /\ rj'[j].cond \in Well =>
    rj'[j].run = rj[j].run /\ rj[j].run \in {"", rj'[j].cond}

LEMMA UpdateIsReported ==
  ASSUME TypeOK, sync.job \in Jobs, NEW new, NEW then, UpdateStatus(new, then),
         new.cond = sync.rj.cond \/ new.cond \notin Well
           \/ (new.run = sync.rj.run /\ sync.rj.run \in {"", new.cond})
  PROVE  WritesReported
<1>1. CASE rj[sync.job] = sync.rj /\ Store(sync.job, new)
  BY <1>1 DEF Store, TypeOK, WritesReported
<1>2. CASE UNCHANGED rj
  BY <1>2 DEF WritesReported
<1> QED BY <1>1, <1>2 DEF UpdateStatus

LEMMA SyncIsReported ==
  ASSUME TypeOK, ReadInv, SyncStep
  PROVE  WritesReported
<1>m. sync.job \in Jobs
  BY DEF TypeOK, SyncStep, SyncTargetEnvironments, DeletePipelineJobs, StopUpdate, HandleJobQueueing, Reconcile,
     SyncStatusRead, SyncStatusUpdate, SetNextJobToWaiting, UpdateNextJob, ReconcileFails, SyncReturnsError
<1>t. /\ sync \in SyncRecords /\ sync.rj \in RadixJobs /\ rj \in [Jobs -> RadixJobs]
  BY DEF TypeOK, SyncRecords
<1>0. CASE UNCHANGED rj
  BY <1>0 DEF WritesReported
<1>1. CASE SyncTargetEnvironments
  <2>1. PICK new : new = [sync.rj EXCEPT !.envs = TargetEnvironments(sync.job, sync.app)]
    OBVIOUS
  <2>2. new.cond = sync.rj.cond /\ \E then : UpdateStatus(new, then)
    BY <1>1, <1>t, <2>1 DEF SyncTargetEnvironments, RadixJobs
  <2> QED BY <1>m, <2>2, UpdateIsReported
<1>2. CASE StopUpdate
  <2>1. PICK new : new = [sync.rj EXCEPT !.cond = "Stopped"]
    OBVIOUS
  <2>2. new.cond \notin Well /\ \E then : UpdateStatus(new, then)
    BY <1>2, <1>t, <2>1 DEF StopUpdate, RadixJobs, Well
  <2> QED BY <1>m, <2>2, UpdateIsReported
<1>3. CASE HandleJobQueueing
  <2>1. PICK new : new = [sync.rj EXCEPT !.cond = "Queued"]
    OBVIOUS
  <2>2. new.cond \notin Well
    BY <1>t, <2>1 DEF RadixJobs, Well
  <2>3. CASE UpdateStatus(new, Idle)
    BY <1>m, <2>2, <2>3, UpdateIsReported
  <2> QED BY <1>0, <1>3, <2>1, <2>3 DEF HandleJobQueueing
<1>4. CASE SyncStatusUpdate
  <2>1. PICK new : new = [sync.rj EXCEPT !.cond = sync.cond]
    OBVIOUS
  <2>2. /\ new.cond = sync.cond /\ new.run = sync.rj.run /\ sync.pc = "update"
        /\ \E then : UpdateStatus(new, then)
    BY <1>4, <1>t, <2>1 DEF SyncStatusUpdate, RadixJobs
  <2> QED BY <1>m, <2>2, UpdateIsReported DEF ReadInv
<1>5. CASE UpdateNextJob
  <2>1. CASE Store(sync.next, [sync.nextRj EXCEPT !.cond = "Waiting"])
    <3>1. PICK k \in Jobs : k = sync.next
      BY <1>5 DEF UpdateNextJob, TypeOK
    <3>2. PICK new : new = [sync.nextRj EXCEPT !.cond = "Waiting"]
      OBVIOUS
    <3>3. new.cond \notin Well
      BY <1>t, <3>2 DEF RadixJobs, SyncRecords, Well
    <3> QED BY <1>t, <2>1, <3>1, <3>2, <3>3 DEF Store, WritesReported
  <2> QED BY <1>0, <1>5, <2>1 DEF UpdateNextJob
<1> QED BY <1>0, <1>1, <1>2, <1>3, <1>4, <1>5 DEF SyncStep, DeletePipelineJobs, Reconcile, ReconcileFails,
     SyncStatusRead, SetNextJobToWaiting, SyncReturnsError

LEMMA NextIsReported == TypeOK /\ ReadInv /\ [Next]_vars => WritesReported
<1> SUFFICES ASSUME TypeOK, ReadInv, [Next]_vars PROVE WritesReported
  OBVIOUS
<1>t. rj \in [Jobs -> RadixJobs]
  BY DEF TypeOK
<1>0. CASE UNCHANGED rj
  BY <1>0 DEF WritesReported
<1>1. CASE SyncStep
  BY <1>1, SyncIsReported
<1>w. ASSUME NEW j \in Jobs, NEW new, rj' = [rj EXCEPT ![j] = new], new.cond \notin Well \/ new.cond = rj[j].cond
      PROVE  WritesReported
  BY <1>t, <1>w DEF WritesReported
<1>r. ASSUME NEW j \in Jobs, NEW run, rj' = [rj EXCEPT ![j] = [rj[j] EXCEPT !.run = run]] PROVE WritesReported
  <2>1. PICK new : new = [rj[j] EXCEPT !.run = run]
    OBVIOUS
  <2> QED BY <1>t, <1>w, <1>r, <2>1 DEF RadixJobs
<1>2. ASSUME NEW j \in Jobs, CreateJob(j) PROVE WritesReported
  <2>1. PICK created : rj' = [rj EXCEPT ![j] = [Absent EXCEPT !.created = created]]
    BY <1>2 DEF CreateJob
  <2>2. PICK new : new = [Absent EXCEPT !.created = created]
    OBVIOUS
  <2> QED BY <1>w, <2>1, <2>2 DEF Absent, Well
<1>3. ASSUME NEW j \in Jobs, StopJob(j) PROVE WritesReported
  <2>1. PICK new : new = [rj[j] EXCEPT !.stop = TRUE]
    OBVIOUS
  <2> QED BY <1>t, <1>w, <1>3, <2>1 DEF StopJob, Store, RadixJobs
<1>4. ASSUME NEW j \in Jobs, Pipeline(j) PROVE WritesReported
  <2>1. UNCHANGED rj \/ \E run : rj' = [rj EXCEPT ![j] = [rj[j] EXCEPT !.run = run]]
    BY <1>4 DEF Pipeline, PodStarts, RunnerReports, RunnerEnds, Report, Store, PodSucceeds, PodFails, DyingEnds
  <2> QED BY <1>0, <1>r, <2>1
<1> QED BY <1>0, <1>1, <1>2, <1>3, <1>4 DEF Next, vars, StartSync, KubeJobDeleted, SyncFails, Crash, ChangeApplication

(* A job is not set to succeeded, or to stopped for lack of changes, while its runner's
   report is another one, for any interleaving of reports, Syncs and faults
   (findJobCondition, updateRadixJobStatus): ReportedResult, in general. *)
THEOREM ReportedResultHolds == Spec => ReportedResult
<1>1. ASSUME Init PROVE ReadInv
  <2>1. sync.pc = "idle"
    BY <1>1 DEF Init, Idle
  <2> QED BY <2>1 DEF ReadInv
<1>2. TypeOK /\ ReadInv /\ [Next]_vars => [WritesReported]_vars
  BY NextIsReported
<1> QED BY <1>1, <1>2, ReadStep, Invariants, PTL DEF Spec, ReportedResult, WritesReported, Well

-----------------------------------------------------------------------------
(* How far the runner has come with its reports. *)
Rank(run) == IF run = "" THEN 0 ELSE IF run = "Running" THEN 1 ELSE 2

(* The RadixJob has only been reported on since the copy was read. *)
Newer(r, copy) ==
  /\ r.created = copy.created /\ r.stop = copy.stop /\ r.cond = copy.cond /\ r.envs = copy.envs
  /\ r.run = copy.run \/ Rank(copy.run) < Rank(r.run)

(* handleJobQueueing would queue job j. *)
Blocked(j) ==
  \/ ShouldBeQueuedBehindOlderJobs(j, Application0)
  \/ IsOtherJobRunningOnBranchOrEnvironment(j, Application0)

Working == {"targets", "queueing", "reconcile", "status", "update"}
Waking == {"wake", "waken"}

Busy(j) == sync.pc \in Working /\ sync.job = j

AtWork(j) == j \in pending \/ Busy(j)

(* A job that is not started yet, no younger than j, that the operator will look at. *)
Ahead(m, j) ==
  Exists(m) /\ IsQueuedOrEmpty(rj[m].cond) /\ rj[m].created <= rj[j].created /\ AtWork(m)

(* Something will wake the queue that job j is in. *)
Served(j) == sync.pc \in Waking \/ (\E k \in Jobs : Active(k)) \/ (\E m \in Jobs : Ahead(m, j))

(* What is so of each job while nothing disturbs the operator: its pipeline runs once, a
   pipeline that ended was reported, and a job is done after its pipeline; *)
Orderly(j) ==
  /\ ~rj[j].stop /\ dying[j] = 0
  /\ kj[j] \in {"none", "waiting", "running"} => ~IsDone(rj[j].run)
  /\ kj[j] \in {"ending", "succeeded"} => IsDone(rj[j].run)
  /\ IsDone(rj[j].cond) => kj[j] \in {"succeeded", "failed"}

(* a pipeline is created before the condition says so only by the Sync of its job, which
   nothing blocks; *)
Started(j) == kj[j] # "none" /\ IsQueuedOrEmpty(rj[j].cond) => Busy(j) /\ ~Blocked(j)

(* a new job is looked at; *)
Noticed(j) == Exists(j) /\ rj[j].cond = "" => AtWork(j)

(* the end of the pipeline of an active job is noticed; *)
Followed(j) ==
  Active(j) => \/ Executing(j) \/ j \in pending
               \/ (Busy(j) /\ (sync.pc = "update" => IsDone(sync.cond) \/ rj[j] # sync.rj))

(* and a queued job is served. *)
Waits(j) == rj[j].cond = "Queued" => Served(j)

JobCalm(j) == Orderly(j) /\ Started(j) /\ Noticed(j) /\ Followed(j) /\ Waits(j)

(* The Sync meets a conflict only with reports, of which there are two: it has been
   started over as often as its copy saw one. *)
WorkCalm ==
  sync.pc \in Working =>
    /\ Newer(rj[sync.job], sync.rj)
    /\ sync.tries <= 1 + Rank(sync.rj.run)
    /\ sync.pc = "queueing" => IsQueuedOrEmpty(sync.rj.cond)
    /\ sync.pc \in {"reconcile", "status", "update"} /\ IsQueuedOrEmpty(sync.rj.cond) => ~Blocked(sync.job)
    /\ sync.pc \in {"status", "update"} => kj[sync.job] # "none"
    /\ sync.pc = "update" => /\ ~IsQueuedOrEmpty(sync.cond)
                             /\ IsDone(sync.cond) => kj[sync.job] \in {"succeeded", "failed"}

SyncCalm ==
  /\ sync.pc # "idle" => sync.pc \in Working \cup Waking /\ ~sync.failed
  /\ WorkCalm
  /\ sync.pc = "waken" => rj[sync.next] = sync.nextRj /\ sync.nextRj.cond = "Queued"

CalmInv == (\A j \in Jobs : JobCalm(j)) /\ SyncCalm

-----------------------------------------------------------------------------
LEMMA Below == \A a, b \in Nat : (a <= b => ~(b < a)) /\ (a < b => a <= b)
  OBVIOUS

LEMMA RankRange ==
  /\ \A run : Rank(run) \in 0..2 /\ 1 <= 1 + Rank(run)
  /\ Rank("") < Rank("Running")
  /\ \A run : IsDone(run) => Rank("") < Rank(run) /\ Rank("Running") < Rank(run)
<1>1. ASSUME NEW run PROVE Rank(run) \in 0..2 /\ 1 <= 1 + Rank(run)
  BY DEF Rank
<1>2. Rank("") < Rank("Running")
  BY DEF Rank
<1>3. ASSUME NEW run, IsDone(run) PROVE Rank("") < Rank(run) /\ Rank("Running") < Rank(run)
  <2>1. CASE run = "Succeeded"
    BY <2>1 DEF Rank
  <2>2. CASE run = "Failed"
    BY <2>2 DEF Rank
  <2>3. CASE run = "Stopped"
    BY <2>3 DEF Rank
  <2>4. CASE run = "StoppedNoChanges"
    BY <2>4 DEF Rank
  <2> QED BY <1>3, <2>1, <2>2, <2>3, <2>4 DEF IsDone
<1> QED BY <1>1, <1>2, <1>3

LEMMA NewerTransitive ==
  ASSUME NEW r, NEW s, NEW copy, Newer(r, s), Newer(s, copy)
  PROVE  Newer(r, copy)
<1>1. Rank(r.run) \in 0..2 /\ Rank(s.run) \in 0..2 /\ Rank(copy.run) \in 0..2
  BY DEF Rank
<1>2. Rank(copy.run) < Rank(s.run) /\ Rank(s.run) < Rank(r.run) => Rank(copy.run) < Rank(r.run)
  BY <1>1
<1> QED BY <1>2 DEF Newer

(* What users, pods and runners do to job j. *)
LEMMA CalmQuiet ==
  ASSUME TypeOK, TypeOK', OpenInv, StopInv, CalmInv, NEW j \in Jobs, UNCHANGED sync,
         \A k \in Jobs \ {j} : rj'[k] = rj[k] /\ kj'[k] = kj[k],
         \A k \in pending : k \in pending',
         Exists(j) => Newer(rj'[j], rj[j]),
         ~Exists(j) => /\ rj'[j].cond = "" /\ ~rj'[j].stop /\ j \in pending'
                       /\ \A k \in Jobs : rj[k].created <= rj'[j].created,
         kj[j] = "none" <=> kj'[j] = "none", UNCHANGED dying,
         kj'[j] \in {"none", "waiting", "running"} => ~IsDone(rj'[j].run),
         kj'[j] \in {"ending", "succeeded"} => IsDone(rj'[j].run),
         kj[j] \in {"succeeded", "failed"} => kj'[j] = kj[j],
         kj[j] = "none" /\ Exists(j) => rj'[j] = rj[j],
         Executing(j) => Executing(j)' \/ j \in pending',
         rj'[j] # rj[j] /\ Exists(j) => Executing(j)' \/ j \in pending'
  PROVE  CalmInv'
<1>t. /\ rj \in [Jobs -> RadixJobs] /\ \A k \in Jobs : rj[k].created \in Nat
      /\ pending \subseteq Jobs /\ sync \in SyncRecords /\ sync.rj \in RadixJobs
  BY DEF TypeOK, SyncRecords, RadixJobs
<1>e. ~Exists(j) => rj[j].cond = ""
  BY DEF OpenInv, Created
<1>c. /\ \A k \in Jobs : rj'[k].cond = rj[k].cond
      /\ \A k \in Jobs : Exists(k) => rj'[k].created = rj[k].created
      /\ \A k \in Jobs : Exists(k) => Exists(k)'
  BY <1>e DEF Newer, Exists
<1>n. \A k \in Jobs : ~Exists(k) => k = j \/ (rj'[k] = rj[k] /\ ~Exists(k)')
  BY DEF Exists
<1>q. \A k \in Jobs : rj'[k].created \in Nat
  BY DEF TypeOK, RadixJobs
<1>o. \A k \in Jobs : Exists(k) => \A m \in Jobs : Exists(m)' /\ rj'[m].created < rj'[k].created =>
                                       Exists(m) /\ rj[m].created < rj[k].created
  <2> SUFFICES ASSUME NEW k \in Jobs, Exists(k), NEW m \in Jobs, Exists(m)', rj'[m].created < rj'[k].created
               PROVE  Exists(m) /\ rj[m].created < rj[k].created
    OBVIOUS
  <2>1. Exists(m)
    <3>1. CASE ~Exists(j) /\ m = j
      <4>1. rj[k].created <= rj'[j].created /\ rj'[j].created < rj[k].created
        BY <1>c, <3>1
      <4>2. rj[k].created \in Nat /\ rj'[j].created \in Nat
        BY <1>t, <1>q
      <4> QED BY <4>1, <4>2, Below
    <3> QED BY <1>n, <3>1
  <2> QED BY <1>c, <2>1
<1>b. \A k \in Jobs : Exists(k) /\ ~Blocked(k) => ~Blocked(k)'
  <2> SUFFICES ASSUME NEW k \in Jobs, Exists(k), Blocked(k)' PROVE Blocked(k)
    OBVIOUS
  <2>1. CASE ShouldBeQueuedBehindOlderJobs(k, Application0)'
    <3>1. PICK m \in Jobs \ {k} :
            /\ Exists(m)' /\ rj'[m].created < rj'[k].created /\ IsQueuedOrEmpty(rj'[m].cond)
            /\ HasConflictingTargetEnvironments(k, m, Application0)
      BY <2>1 DEF ShouldBeQueuedBehindOlderJobs, HasConflictingTargetEnvironments, TargetEnvironments, IsBuildJob
    <3>2. Exists(m) /\ rj[m].created < rj[k].created /\ IsQueuedOrEmpty(rj[m].cond)
      BY <1>c, <1>o, <3>1
    <3> QED BY <3>1, <3>2 DEF Blocked, ShouldBeQueuedBehindOlderJobs
  <2>2. CASE IsOtherJobRunningOnBranchOrEnvironment(k, Application0)'
    <3>1. PICK m \in Jobs \ {k} :
            /\ Exists(m)' /\ IsWaitingOrRunning(rj'[m].cond)
            /\ IF TargetEnvironments(k, Application0) = {}
                 THEN IsBuildJob(k) /\ IsBuildJob(m) /\ Spec0[k].gitRef = Spec0[m].gitRef
                 ELSE HasConflictingTargetEnvironments(k, m, Application0)
      BY <2>2 DEF IsOtherJobRunningOnBranchOrEnvironment, HasConflictingTargetEnvironments, TargetEnvironments, IsBuildJob
    <3>2. Exists(m) /\ IsWaitingOrRunning(rj[m].cond)
      BY <1>c, <3>1 DEF OpenInv, Created, IsWaitingOrRunning
    <3> QED BY <3>1, <3>2 DEF Blocked, IsOtherJobRunningOnBranchOrEnvironment
  <2> QED BY <2>1, <2>2 DEF Blocked
<1>x. \A k \in Jobs : (kj[k] # "none" \/ rj[k].cond # "") => Exists(k)
  BY DEF StopInv, JobSound, OpenInv, Created
<1>j. \A k \in Jobs : JobCalm(k)
  BY DEF CalmInv
<1>w. \A k \in Jobs : (Busy(k)' <=> Busy(k)) /\ (AtWork(k) => AtWork(k)') /\ (Active(k)' <=> Active(k))
  BY <1>c DEF Busy, AtWork, Active
<1>1. \A k \in Jobs : Orderly(k)'
  <2>1. Orderly(j)'
    BY <1>j, <1>c DEF JobCalm, Orderly, Newer, IsDone
  <2>2. \A k \in Jobs \ {j} : Orderly(k)'
    BY <1>j DEF JobCalm, Orderly
  <2> QED BY <2>1, <2>2
<1>2. \A k \in Jobs : Started(k)'
  <2>1. \A k \in Jobs : kj'[k] # "none" => kj[k] # "none"
    OBVIOUS
  <2> QED BY <1>j, <1>b, <1>c, <1>w, <1>x, <2>1 DEF JobCalm, Started
<1>3. \A k \in Jobs : Noticed(k)'
  BY <1>j, <1>c, <1>n, <1>w DEF JobCalm, Noticed, AtWork
<1>4. \A k \in Jobs : Followed(k)'
  <2>1. Followed(j)'
    BY <1>j, <1>w, <1>x DEF JobCalm, Followed, Active, IsWaitingOrRunning
  <2>2. \A k \in Jobs \ {j} : Followed(k)'
    BY <1>j, <1>w DEF JobCalm, Followed, Executing
  <2> QED BY <2>1, <2>2
<1>5. \A k \in Jobs : Waits(k)'
  <2> SUFFICES ASSUME NEW k \in Jobs, rj[k].cond = "Queued" PROVE Served(k)'
    BY <1>c DEF Waits
  <2>1. Served(k) /\ Exists(k)
    BY <1>j, <1>x DEF JobCalm, Waits
  <2>2. \A m \in Jobs : Ahead(m, k) => Ahead(m, k)'
    BY <2>1, <1>c, <1>w DEF Ahead
  <2> QED BY <2>1, <2>2, <1>w DEF Served
<1>6. SyncCalm'
  <2>1. sync.pc # "idle" => sync.job \in Jobs /\ Exists(sync.job)
    BY DEF TypeOK, OpenInv, Created
  <2>2. ASSUME sync.pc \in Working PROVE Newer(rj'[sync.job], sync.rj)
    <3>1. Newer(rj[sync.job], sync.rj)
      BY <2>2 DEF CalmInv, SyncCalm, WorkCalm
    <3>2. Newer(rj'[sync.job], rj[sync.job])
      BY <2>1, <2>2 DEF Newer, Working
    <3> QED BY <3>1, <3>2, NewerTransitive
  <2>3. ASSUME sync.pc \in Working PROVE kj[sync.job] # "none" => kj'[sync.job] # "none"
    BY <2>1, <2>3 DEF Working
  <2>4. ASSUME sync.pc \in Working
        PROVE  kj[sync.job] \in {"succeeded", "failed"} => kj'[sync.job] \in {"succeeded", "failed"}
    BY <2>1, <2>4 DEF Working
  <2>5. WorkCalm'
    BY <2>1, <2>2, <2>3, <2>4, <1>b DEF CalmInv, SyncCalm, WorkCalm, Working
  <2>6. ASSUME sync.pc = "waken" PROVE rj'[sync.next] = sync.nextRj
    <3>1. sync.next \in Jobs /\ rj[sync.next] = sync.nextRj /\ rj[sync.next].cond = "Queued"
      BY <2>6 DEF TypeOK, CalmInv, SyncCalm
    <3>2. kj[sync.next] = "none" /\ Exists(sync.next)
      BY <2>6, <3>1, <1>j, <1>x DEF JobCalm, Started, Busy, Working, IsQueuedOrEmpty
    <3> QED BY <3>1, <3>2
  <2> QED BY <2>5, <2>6 DEF CalmInv, SyncCalm
<1> QED BY <1>1, <1>2, <1>3, <1>4, <1>5, <1>6 DEF CalmInv, JobCalm

LEMMA BlockedSame ==
  ASSUME NEW me \in Jobs, \A k \in Jobs \ {me} : rj'[k] = rj[k], rj'[me].created = rj[me].created
  PROVE  Blocked(me)' <=> Blocked(me)
<1>1. \A k \in Jobs \ {me} : Exists(k)' <=> Exists(k)
  BY DEF Exists
<1>2. ShouldBeQueuedBehindOlderJobs(me, Application0)' <=> ShouldBeQueuedBehindOlderJobs(me, Application0)
  BY <1>1 DEF ShouldBeQueuedBehindOlderJobs, HasConflictingTargetEnvironments, TargetEnvironments, IsBuildJob
<1>3. IsOtherJobRunningOnBranchOrEnvironment(me, Application0)'
        <=> IsOtherJobRunningOnBranchOrEnvironment(me, Application0)
  BY <1>1 DEF IsOtherJobRunningOnBranchOrEnvironment, HasConflictingTargetEnvironments, TargetEnvironments, IsBuildJob
<1> QED BY <1>2, <1>3 DEF Blocked

(* A Sync begins with the current RadixJob j. *)
LEMMA CalmBegin ==
  ASSUME TypeOK, OpenInv, CalmInv, UNCHANGED <<rj, kj, dying>>, NEW j \in Jobs, NEW try, Begin(j, try),
         try <= 1 + Rank(rj[j].run),
         \/ sync.pc = "idle" /\ pending' = pending \ {j}
         \/ sync.pc \in Working /\ sync.job = j /\ ~IsDone(rj[j].cond) /\ UNCHANGED pending
  PROVE  CalmInv'
<1>j. \A k \in Jobs : JobCalm(k)
  BY DEF CalmInv
<1>b. \A k \in Jobs : (Blocked(k)' <=> Blocked(k)) /\ (Exists(k)' <=> Exists(k))
  BY BlockedSame DEF Exists
<1>1. CASE IsDone(rj[j].cond)
  <2>1. sync.pc = "idle" /\ sync'.pc = "idle" /\ pending' = pending \ {j}
    BY <1>1 DEF Begin, Idle
  <2>2. \A m \in Jobs : ~IsDone(rj[m].cond) /\ AtWork(m) => AtWork(m)'
    BY <1>1, <2>1 DEF AtWork, Busy, Working
  <2>3. \A m \in Jobs : IsQueuedOrEmpty(rj[m].cond) \/ Active(m) => ~IsDone(rj[m].cond)
    BY DEF IsQueuedOrEmpty, Active, IsWaitingOrRunning, IsDone
  <2>4. \A k \in Jobs : Orderly(k)'
    BY <1>j DEF JobCalm, Orderly
  <2>5. \A k \in Jobs : Started(k)'
    BY <1>j, <2>1 DEF JobCalm, Started, Busy, Working
  <2>6. \A k \in Jobs : Noticed(k)'
    BY <1>j, <2>2, <2>3 DEF JobCalm, Noticed, Exists, IsQueuedOrEmpty
  <2>7. \A k \in Jobs : Followed(k)'
    <3>1. \A k \in Jobs : Active(k) => Executing(k) \/ k \in pending
      BY <1>j, <2>1 DEF JobCalm, Followed, Busy, Working
    <3>2. \A k \in Jobs : Active(k) => Executing(k) \/ k \in pending'
      BY <1>1, <2>1, <2>3, <3>1
    <3> QED BY <3>2 DEF Followed, Executing, Active
  <2>8. \A k \in Jobs : Waits(k)'
    <3> SUFFICES ASSUME NEW k \in Jobs, rj[k].cond = "Queued" PROVE Served(k)'
      BY DEF Waits
    <3>1. (\E m \in Jobs : Active(m)) \/ (\E m \in Jobs : Ahead(m, k))
      BY <1>j, <2>1 DEF JobCalm, Waits, Served, Waking
    <3>2. \A m \in Jobs : Ahead(m, k) => Ahead(m, k)'
      BY <2>2, <2>3 DEF Ahead, Exists
    <3> QED BY <3>1, <3>2 DEF Served, Active
  <2>9. SyncCalm'
    BY <2>1 DEF SyncCalm, WorkCalm, Working
  <2> QED BY <2>4, <2>5, <2>6, <2>7, <2>8, <2>9 DEF CalmInv, JobCalm
<1>2. CASE ~IsDone(rj[j].cond)
  <2>1. /\ sync'.pc = FirstPhase(rj[j]) /\ sync'.job = j /\ sync'.rj = rj[j] /\ sync'.tries = try
        /\ sync'.failed = FALSE
    BY <1>2 DEF Begin, Idle
  <2>2. /\ sync'.pc \in {"targets", "queueing", "reconcile"}
        /\ sync'.pc = "queueing" => IsQueuedOrEmpty(rj[j].cond)
        /\ sync'.pc = "reconcile" => ~IsQueuedOrEmpty(rj[j].cond)
    BY <1>j, <2>1 DEF JobCalm, Orderly, FirstPhase, AfterTargets
  <2>3. Busy(j)' /\ sync'.pc # "update" /\ sync.pc \notin Waking
    BY <2>1, <2>2 DEF Busy, Working, Waking
  <2>4. \A m \in Jobs : AtWork(m) => AtWork(m)'
    BY <2>3 DEF AtWork, Busy, Working
  <2>5. \A k \in Jobs : Orderly(k)'
    BY <1>j DEF JobCalm, Orderly
  <2>6. \A k \in Jobs : Started(k)'
    BY <1>j, <1>b, <2>3 DEF JobCalm, Started, Busy, Working
  <2>7. \A k \in Jobs : Noticed(k)'
    BY <1>j, <2>4 DEF JobCalm, Noticed, Exists
  <2>8. \A k \in Jobs : Followed(k)'
    <3>1. Followed(j)'
      BY <2>3 DEF Followed
    <3>2. ASSUME NEW k \in Jobs \ {j}, Active(k) PROVE Executing(k) \/ k \in pending'
      BY <1>j, <3>2 DEF JobCalm, Followed, Busy, Working
    <3> QED BY <3>1, <3>2 DEF Followed, Executing, Active
  <2>9. \A k \in Jobs : Waits(k)'
    <3> SUFFICES ASSUME NEW k \in Jobs, rj[k].cond = "Queued" PROVE Served(k)'
      BY DEF Waits
    <3>1. (\E m \in Jobs : Active(m)) \/ (\E m \in Jobs : Ahead(m, k))
      BY <1>j, <2>3 DEF JobCalm, Waits, Served
    <3>2. \A m \in Jobs : Ahead(m, k) => Ahead(m, k)'
      BY <2>4 DEF Ahead, Exists
    <3> QED BY <3>1, <3>2 DEF Served, Active
  <2>10. SyncCalm'
    <3>1. WorkCalm'
      BY <2>1, <2>2 DEF WorkCalm, Newer
    <3> QED BY <2>1, <2>2, <3>1 DEF SyncCalm, Working
  <2> QED BY <2>5, <2>6, <2>7, <2>8, <2>9, <2>10 DEF CalmInv, JobCalm
<1> QED BY <1>1, <1>2

(* Nobody but the runner writes the RadixJob while its Sync works, and the runner reports
   at most twice: RetryOnConflict does not give up. *)
LEMMA CalmRetry ==
  ASSUME TypeOK, OpenInv, CalmInv, MaxAttempts > 2, UNCHANGED <<rj, kj, dying>>,
         sync.pc \in Working, rj[sync.job] # sync.rj, Retry
  PROVE  CalmInv'
<1>m. PICK me \in Jobs : me = sync.job
  BY DEF TypeOK, Working
<1>t. /\ rj[me] \in RadixJobs /\ sync.rj \in RadixJobs /\ sync.tries \in Nat /\ MaxAttempts \in Nat
  BY <1>m, ConstantsAssumption DEF TypeOK
<1>1. Newer(rj[me], sync.rj) /\ sync.tries <= 1 + Rank(sync.rj.run)
  BY <1>m DEF CalmInv, SyncCalm, WorkCalm
<1>2. rj[me].run # sync.rj.run
  BY <1>m, <1>t, <1>1 DEF Newer, RadixJobs
<1>3. Rank(sync.rj.run) < Rank(rj[me].run) /\ Rank(sync.rj.run) \in 0..2 /\ Rank(rj[me].run) \in 0..2
  BY <1>1, <1>2, RankRange DEF Newer
<1>4. sync.tries < MaxAttempts /\ sync.tries + 1 <= 1 + Rank(rj[me].run)
  BY <1>t, <1>1, <1>3
<1>5. Begin(me, sync.tries + 1) /\ UNCHANGED pending
  BY <1>m, <1>t, <1>4 DEF Retry
<1>6. ~IsDone(rj[me].cond)
  BY <1>1 DEF OpenInv, CopyOpen, Working, Newer
<1> QED BY <1>m, <1>4, <1>5, <1>6, CalmBegin

(* The Sync stores a new content of its job. *)
LEMMA CalmStore ==
  ASSUME TypeOK, CalmInv, UNCHANGED <<kj, dying>>, NEW me \in Jobs, me = sync.job, sync.pc \in Working,
         NEW new, Store(me, new),
         Orderly(me)', Started(me)', Noticed(me)', Followed(me)',
         sync'.pc # "idle" => sync'.job = me,
         \A k \in Jobs : rj'[k].cond = "Queued" => Served(k)', SyncCalm'
  PROVE  CalmInv'
<1>1. \A k \in Jobs \ {me} : rj'[k] = rj[k] /\ kj'[k] = kj[k] /\ (k \in pending => k \in pending')
  BY DEF TypeOK, Store
<1>2. \A k \in Jobs \ {me} : ~Busy(k) /\ JobCalm(k)
  BY DEF Busy, CalmInv
<1>3. \A k \in Jobs \ {me} : Orderly(k)'
  BY <1>1, <1>2 DEF JobCalm, Orderly
<1>4. \A k \in Jobs \ {me} : Started(k)'
  BY <1>1, <1>2 DEF JobCalm, Started
<1>5. \A k \in Jobs \ {me} : Noticed(k)'
  BY <1>1, <1>2 DEF JobCalm, Noticed, AtWork, Exists
<1>6. \A k \in Jobs \ {me} : Followed(k)'
  BY <1>1, <1>2 DEF JobCalm, Followed, Active, Executing
<1>7. \A k \in Jobs : Waits(k)'
  BY DEF Waits
<1> QED BY <1>3, <1>4, <1>5, <1>6, <1>7 DEF CalmInv, JobCalm

(* The Sync goes on with the copy it has, and creates the pipeline if there is none. *)
LEMMA CalmMove ==
  ASSUME TypeOK, CalmInv, UNCHANGED <<rj, dying, pending>>, NEW me \in Jobs, me = sync.job,
         sync.pc \in {"queueing", "reconcile", "status"}, sync'.pc \in {"reconcile", "status", "update"},
         sync'.rj = sync.rj, sync'.job = me, sync'.tries = sync.tries, sync'.failed = sync.failed,
         \A k \in Jobs \ {me} : kj'[k] = kj[k],
         kj[me] # "none" => kj'[me] = kj[me],
         kj[me] = "none" => kj'[me] \in {"none", "waiting"},
         IsQueuedOrEmpty(sync.rj.cond) => ~Blocked(me),
         sync'.pc \in {"status", "update"} => kj'[me] # "none",
         sync'.pc = "update" => /\ kj'[me] = kj[me] /\ ~IsQueuedOrEmpty(sync'.cond)
                                /\ IsDone(sync'.cond) => kj[me] \in {"succeeded", "failed"}
                                /\ kj[me] \in {"succeeded", "failed"} => IsDone(sync'.cond) \/ rj[me] # sync.rj
  PROVE  CalmInv'
<1>j. \A k \in Jobs : JobCalm(k)
  BY DEF CalmInv
<1>s. /\ Newer(rj[me], sync.rj) /\ sync.tries <= 1 + Rank(sync.rj.run)
      /\ ~sync.failed
  BY DEF CalmInv, SyncCalm, WorkCalm, Working
<1>w. \A k \in Jobs : (Busy(k)' <=> Busy(k)) /\ (AtWork(k)' <=> AtWork(k))
  BY DEF Busy, AtWork, Working
<1>b. (Blocked(me)' <=> Blocked(me)) /\ Busy(me)' /\ \A k \in Jobs \ {me} : ~Busy(k)
  BY BlockedSame DEF Busy, Working
<1>1. \A k \in Jobs : Orderly(k)'
  BY <1>j DEF JobCalm, Orderly
<1>2. \A k \in Jobs : Started(k)'
  <2>1. Started(me)'
    BY <1>b, <1>s DEF Started, Newer
  <2> QED BY <1>j, <1>b, <2>1 DEF JobCalm, Started
<1>3. \A k \in Jobs : Noticed(k)'
  BY <1>j, <1>w DEF JobCalm, Noticed, Exists
<1>4. \A k \in Jobs : Followed(k)'
  <2>1. Followed(me)'
    <3>1. CASE sync'.pc = "update"
      BY <1>b, <3>1 DEF Followed, Executing, KubeJobStates, TypeOK
    <3>2. CASE sync'.pc # "update"
      BY <1>b, <3>2 DEF Followed
    <3> QED BY <3>1, <3>2
  <2> QED BY <1>j, <1>b, <2>1 DEF JobCalm, Followed, Executing, Active
<1>5. \A k \in Jobs : Waits(k)'
  <2> SUFFICES ASSUME NEW k \in Jobs, rj[k].cond = "Queued" PROVE Served(k)'
    BY DEF Waits
  <2>1. (\E m \in Jobs : Active(m)) \/ (\E m \in Jobs : Ahead(m, k))
    BY <1>j DEF JobCalm, Waits, Served, Waking
  <2> QED BY <1>w, <2>1 DEF Served, Ahead, Exists, Active
<1>6. SyncCalm'
  <2>1. WorkCalm'
    BY <1>b, <1>s DEF WorkCalm
  <2> QED BY <1>s, <2>1 DEF SyncCalm, Working
<1> QED BY <1>1, <1>2, <1>3, <1>4, <1>5, <1>6 DEF CalmInv, JobCalm

LEMMA CalmTargets ==
  ASSUME TypeOK, OpenInv, CalmInv, MaxAttempts > 2, SyncTargetEnvironments
  PROVE  CalmInv'
<1>m. PICK me \in Jobs : me = sync.job /\ sync.pc = "targets"
  BY DEF TypeOK, SyncTargetEnvironments
<1>t. /\ sync \in SyncRecords /\ sync.rj \in RadixJobs /\ rj \in [Jobs -> RadixJobs]
  BY DEF TypeOK, SyncRecords
<1>j. \A k \in Jobs : JobCalm(k)
  BY DEF CalmInv
<1>s. Newer(rj[me], sync.rj) /\ sync.tries <= 1 + Rank(sync.rj.run)
  BY <1>m DEF CalmInv, SyncCalm, WorkCalm, Working
<1>1. PICK new : new = [sync.rj EXCEPT !.envs = TargetEnvironments(sync.job, sync.app)]
  OBVIOUS
<1>2. /\ new.created = sync.rj.created /\ new.stop = sync.rj.stop /\ new.run = sync.rj.run
      /\ new.cond = sync.rj.cond
  BY <1>t, <1>1 DEF RadixJobs
<1>3. UpdateStatus(new, [sync EXCEPT !.rj = new, !.pc = AfterTargets(new)]) /\ UNCHANGED <<kj, dying>>
  BY <1>1 DEF SyncTargetEnvironments
<1>4. CASE rj[me] # sync.rj /\ Retry /\ UNCHANGED rj
  BY <1>m, <1>3, <1>4, CalmRetry DEF Working
<1>5. CASE rj[me] = sync.rj /\ Store(me, new) /\ sync' = [sync EXCEPT !.rj = new, !.pc = AfterTargets(new)]
  <2>1. /\ sync'.pc = AfterTargets(new) /\ sync'.rj = new /\ sync'.job = me /\ sync'.tries = sync.tries
        /\ sync'.failed = sync.failed
    BY <1>m, <1>t, <1>5 DEF SyncRecords
  <2>2. rj'[me] = new /\ (\A k \in Jobs \ {me} : rj'[k] = rj[k]) /\ \A k \in pending : k \in pending'
    BY <1>t, <1>5 DEF Store
  <2>3. /\ AfterTargets(new) \in {"queueing", "reconcile"}
        /\ AfterTargets(new) = "queueing" <=> IsQueuedOrEmpty(new.cond)
    BY <1>j, <1>2, <1>5 DEF JobCalm, Orderly, AfterTargets
  <2>4. /\ \A k \in Jobs : rj'[k].cond = rj[k].cond /\ rj'[k].created = rj[k].created
        /\ rj'[me].run = rj[me].run /\ rj'[me].stop = rj[me].stop
    BY <1>2, <1>5, <2>2
  <2>5. Busy(me)' /\ \A k \in Jobs : AtWork(k) => AtWork(k)'
    BY <1>m, <2>1, <2>2, <2>3 DEF AtWork, Busy, Working
  <2>6. Orderly(me)' /\ Noticed(me)' /\ Followed(me)'
    BY <1>j, <1>3, <2>1, <2>3, <2>4, <2>5 DEF JobCalm, Orderly, Noticed, Followed, AtWork
  <2>7. Started(me)'
    <3>1. Blocked(me)' <=> Blocked(me)
      BY <2>2, <2>4, BlockedSame
    <3> QED BY <1>j, <1>3, <2>4, <2>5, <3>1 DEF JobCalm, Started
  <2>8. ASSUME NEW k \in Jobs, rj'[k].cond = "Queued" PROVE Served(k)'
    <3>1. (\E i \in Jobs : Active(i)) \/ (\E i \in Jobs : Ahead(i, k))
      BY <1>j, <1>m, <2>4, <2>8 DEF JobCalm, Waits, Served, Waking
    <3>2. \A i \in Jobs : (Ahead(i, k) => Ahead(i, k)') /\ (Active(i) => Active(i)')
      BY <2>4, <2>5 DEF Ahead, Exists, Active
    <3> QED BY <3>1, <3>2 DEF Served
  <2>9. SyncCalm'
    <3>1. Newer(rj'[me], new)
      BY <2>2 DEF Newer
    <3>2. WorkCalm'
      BY <1>2, <1>s, <2>1, <2>3, <3>1 DEF WorkCalm
    <3> QED BY <1>m, <2>1, <2>3, <3>2 DEF CalmInv, SyncCalm, Working
  <2> QED BY <1>m, <1>3, <1>5, <2>1, <2>6, <2>7, <2>8, <2>9, CalmStore DEF Working
<1> QED BY <1>m, <1>3, <1>4, <1>5 DEF UpdateStatus

(* handleJobQueueing queues the job behind an active one, or behind an older one which is
   new, or queued and served itself. *)
LEMMA CalmQueue ==
  ASSUME TypeOK, OpenInv, CalmInv, MaxAttempts > 2, sync.pc = "queueing", Blocked(sync.job),
         NEW new, new = [sync.rj EXCEPT !.cond = "Queued"], UpdateStatus(new, Idle), UNCHANGED <<kj, dying>>
  PROVE  CalmInv'
<1>m. PICK me \in Jobs : me = sync.job
  BY DEF TypeOK
<1>t. /\ sync \in SyncRecords /\ sync.rj \in RadixJobs /\ rj \in [Jobs -> RadixJobs]
      /\ \A k \in Jobs : rj[k].created \in Nat
  BY DEF TypeOK, SyncRecords, RadixJobs
<1>j. \A k \in Jobs : JobCalm(k)
  BY DEF CalmInv
<1>s. Newer(rj[me], sync.rj) /\ IsQueuedOrEmpty(sync.rj.cond)
  BY <1>m DEF CalmInv, SyncCalm, WorkCalm, Working
<1>2. /\ new.created = sync.rj.created /\ new.stop = sync.rj.stop /\ new.run = sync.rj.run
      /\ new.cond = "Queued"
  BY <1>t DEF RadixJobs
<1>4. CASE rj[me] # sync.rj /\ Retry /\ UNCHANGED rj
  BY <1>m, <1>4, CalmRetry DEF Working
<1>5. CASE rj[me] = sync.rj /\ Store(me, new) /\ sync' = Idle
  <2>1. sync'.pc = "idle"
    BY <1>5 DEF Idle
  <2>2. rj'[me] = new /\ (\A k \in Jobs \ {me} : rj'[k] = rj[k]) /\ \A k \in pending : k \in pending'
    BY <1>t, <1>5 DEF Store
  <2>3. rj[me].cond = "" => me \in pending'
    BY <1>2, <1>5 DEF Store, Notified, IsDone
  <2>4. \A k \in Jobs : rj'[k].created = rj[k].created
    BY <1>2, <1>5, <2>2
  <2>5. \A k \in Jobs \ {me} : AtWork(k) => AtWork(k)'
    BY <1>m, <2>2 DEF AtWork, Busy
  <2>6. kj[me] = "none" /\ ~Active(me)
    BY <1>j, <1>m, <1>s, <1>5 DEF JobCalm, Started, Active, IsQueuedOrEmpty, IsWaitingOrRunning
  <2>7. Orderly(me)' /\ Started(me)' /\ Noticed(me)' /\ Followed(me)'
    BY <1>j, <1>2, <1>5, <2>2, <2>6 DEF JobCalm, Orderly, Started, Noticed, Followed, Active, IsWaitingOrRunning, IsDone
  <2>8. (\E k \in Jobs \ {me} : Active(k)) \/
        (\E k \in Jobs \ {me} : Ahead(k, me) /\ rj[k].created < rj[me].created)
    <3>1. CASE IsOtherJobRunningOnBranchOrEnvironment(me, Application0)
      BY <3>1 DEF IsOtherJobRunningOnBranchOrEnvironment, Active
    <3>2. CASE ShouldBeQueuedBehindOlderJobs(me, Application0)
      <4>1. PICK k \in Jobs \ {me} : Exists(k) /\ rj[k].created < rj[me].created /\ IsQueuedOrEmpty(rj[k].cond)
        BY <3>2 DEF ShouldBeQueuedBehindOlderJobs
      <4>2. CASE rj[k].cond = ""
        <5>1. AtWork(k)
          BY <1>j, <4>1, <4>2 DEF JobCalm, Noticed
        <5>2. rj[k].created <= rj[me].created
          BY <1>t, <4>1, Below
        <5> QED BY <4>1, <5>1, <5>2 DEF Ahead
      <4>3. CASE rj[k].cond = "Queued"
        <5>1. CASE \E i \in Jobs : Active(i)
          BY <2>6, <5>1
        <5>2. ASSUME NEW i \in Jobs, Ahead(i, k)
              PROVE  i # me /\ Ahead(i, me) /\ rj[i].created < rj[me].created
          BY <1>t, <4>1, <5>2 DEF Ahead
        <5>3. Served(k) /\ sync.pc \notin Waking
          BY <1>j, <4>3 DEF JobCalm, Waits, Waking
        <5> QED BY <5>1, <5>2, <5>3 DEF Served
      <4> QED BY <4>1, <4>2, <4>3 DEF IsQueuedOrEmpty
    <3> QED BY <1>m, <3>1, <3>2 DEF Blocked
  <2>9. ASSUME NEW k \in Jobs, rj'[k].cond = "Queued" PROVE Served(k)'
    <3>1. CASE \E i \in Jobs \ {me} : Active(i)
      BY <2>2, <3>1 DEF Served, Active
    <3>2. ASSUME NEW i \in Jobs \ {me}, Ahead(i, k) PROVE Served(k)'
      <4>1. Ahead(i, k)'
        BY <2>2, <2>4, <2>5, <3>2 DEF Ahead, Exists
      <4> QED BY <4>1 DEF Served
    <3>3. ASSUME NEW i \in Jobs \ {me}, Ahead(i, me), rj[i].created < rj[me].created,
                 k = me \/ Ahead(me, k)
          PROVE  Served(k)'
      <4>1. Ahead(i, k)
        BY <1>t, <3>3 DEF Ahead
      <4> QED BY <3>2, <4>1
    <3>4. k = me \/ Served(k)
      BY <1>j, <2>2, <2>9 DEF JobCalm, Waits
    <3>5. k = me \/ (\E i \in Jobs \ {me} : Active(i)) \/ (\E i \in Jobs \ {me} : Ahead(i, k)) \/ Ahead(me, k)
      BY <2>6, <3>4 DEF Served, Waking
    <3> QED BY <2>8, <3>1, <3>2, <3>3, <3>5
  <2>10. SyncCalm'
    BY <2>1 DEF SyncCalm, WorkCalm, Working
  <2> QED BY <1>m, <1>5, <2>1, <2>7, <2>9, <2>10, CalmStore DEF Working
<1> QED BY <1>m, <1>4, <1>5 DEF UpdateStatus

LEMMA CalmQueueing ==
  ASSUME TypeOK, OpenInv, QueueInv, CalmInv, MaxAttempts > 2, HandleJobQueueing
  PROVE  CalmInv'
<1>m. PICK me \in Jobs : me = sync.job /\ sync.pc = "queueing" /\ sync.app = Application0 /\ UNCHANGED <<kj, dying>>
  BY DEF TypeOK, HandleJobQueueing, QueueInv, Fixed
<1>1. CASE Blocked(me)
  <2>1. PICK new : new = [sync.rj EXCEPT !.cond = "Queued"]
    OBVIOUS
  <2>2. UpdateStatus(new, Idle)
    BY <1>m, <1>1, <2>1 DEF HandleJobQueueing, Blocked
  <2> QED BY <1>m, <1>1, <2>1, <2>2, CalmQueue
<1>2. CASE ~Blocked(me)
  <2>1. sync' = [sync EXCEPT !.pc = "reconcile"] /\ UNCHANGED <<rj, pending>>
    BY <1>m, <1>2 DEF HandleJobQueueing, Blocked
  <2>2. /\ sync'.pc = "reconcile" /\ sync'.rj = sync.rj /\ sync'.job = me /\ sync'.tries = sync.tries
        /\ sync'.failed = sync.failed
    BY <1>m, <2>1 DEF TypeOK, SyncRecords
  <2> QED BY <1>m, <1>2, <2>1, <2>2, CalmMove
<1> QED BY <1>1, <1>2

LEMMA CalmReconcile ==
  ASSUME TypeOK, OpenInv, CalmInv, Reconcile
  PROVE  CalmInv'
<1>m. PICK me \in Jobs : me = sync.job /\ sync.pc = "reconcile" /\ UNCHANGED <<rj, dying, pending>>
  BY DEF TypeOK, Reconcile
<1>1. /\ sync'.pc = "status" /\ sync'.rj = sync.rj /\ sync'.job = me /\ sync'.tries = sync.tries
      /\ sync'.failed = sync.failed
  BY <1>m DEF Reconcile, TypeOK, SyncRecords
<1>2. /\ \A k \in Jobs \ {me} : kj'[k] = kj[k]
      /\ kj[me] # "none" => kj'[me] = kj[me]
      /\ kj[me] = "none" => kj'[me] = "waiting"
  BY <1>m DEF Reconcile, TypeOK
<1>3. IsQueuedOrEmpty(sync.rj.cond) => ~Blocked(me)
  BY <1>m DEF CalmInv, SyncCalm, WorkCalm, Working
<1> QED BY <1>m, <1>1, <1>2, <1>3, CalmMove

LEMMA CalmRead ==
  ASSUME TypeOK, OpenInv, CalmInv, SyncStatusRead
  PROVE  CalmInv'
<1>m. PICK me \in Jobs : me = sync.job /\ sync.pc = "status" /\ UNCHANGED <<rj, kj, dying, pending>>
  BY DEF TypeOK, SyncStatusRead
<1>1. /\ sync'.pc = "update" /\ sync'.rj = sync.rj /\ sync'.job = me /\ sync'.tries = sync.tries
      /\ sync'.failed = sync.failed
      /\ sync'.cond = IF kj[me] = "none" THEN sync.rj.cond ELSE FindJobCondition(kj[me], sync.rj.run)
  BY <1>m DEF SyncStatusRead, TypeOK, SyncRecords
<1>3. /\ IsQueuedOrEmpty(sync.rj.cond) => ~Blocked(me)
      /\ kj[me] # "none"
  BY <1>m DEF CalmInv, SyncCalm, WorkCalm, Working
<1>4. kj[me] \in KubeJobStates /\ sync.rj.run \in RunStatuses
  BY <1>m DEF TypeOK, RadixJobs
<1>5. /\ ~IsQueuedOrEmpty(sync'.cond)
      /\ IsDone(sync'.cond) => kj[me] \in {"succeeded", "failed"}
  BY <1>1, <1>3, <1>4 DEF FindJobCondition, IsQueuedOrEmpty, IsDone, RunStatuses
<1>6. kj[me] \in {"succeeded", "failed"} => IsDone(sync'.cond) \/ rj[me] # sync.rj
  <2>1. kj[me] = "succeeded" => IsDone(rj[me].run)
    BY DEF CalmInv, JobCalm, Orderly
  <2> QED BY <1>1, <2>1 DEF FindJobCondition, IsDone
<1> QED BY <1>m, <1>1, <1>3, <1>5, <1>6, CalmMove

LEMMA CalmUpdate ==
  ASSUME TypeOK, OpenInv, CalmInv, MaxAttempts > 2, SyncStatusUpdate
  PROVE  CalmInv'
<1>m. PICK me \in Jobs : me = sync.job /\ sync.pc = "update" /\ UNCHANGED <<kj, dying>>
  BY DEF TypeOK, SyncStatusUpdate
<1>t. /\ sync \in SyncRecords /\ sync.rj \in RadixJobs /\ rj \in [Jobs -> RadixJobs] /\ sync.cond \in Conditions
  BY DEF TypeOK, SyncRecords
<1>j. \A k \in Jobs : JobCalm(k)
  BY DEF CalmInv
<1>s. /\ kj[me] # "none" /\ ~IsQueuedOrEmpty(sync.cond) /\ ~sync.failed
      /\ IsDone(sync.cond) => kj[me] \in {"succeeded", "failed"}
  BY <1>m DEF CalmInv, SyncCalm, WorkCalm, Working
<1>1. PICK new : new = [sync.rj EXCEPT !.cond = sync.cond]
  OBVIOUS
<1>2. /\ new.created = sync.rj.created /\ new.stop = sync.rj.stop /\ new.run = sync.rj.run
      /\ new.cond = sync.cond
  BY <1>t, <1>1 DEF RadixJobs
<1>3. UpdateStatus(new, IF IsDone(sync.cond) THEN [sync EXCEPT !.pc = "wake", !.rj = new] ELSE Idle)
  BY <1>s, <1>1 DEF SyncStatusUpdate
<1>4. CASE rj[me] # sync.rj /\ Retry /\ UNCHANGED rj
  BY <1>m, <1>4, CalmRetry DEF Working
<1>5. CASE /\ rj[me] = sync.rj /\ Store(me, new)
           /\ sync' = IF IsDone(sync.cond) THEN [sync EXCEPT !.pc = "wake", !.rj = new] ELSE Idle
  <2>1. /\ IsDone(sync.cond) => sync'.pc = "wake" /\ sync'.job = me /\ ~sync'.failed
        /\ ~IsDone(sync.cond) => sync'.pc = "idle"
    BY <1>m, <1>s, <1>t, <1>5 DEF SyncRecords, Idle
  <2>2. rj'[me] = new /\ \A k \in pending : k \in pending'
    BY <1>t, <1>5 DEF Store
  <2>3. ~IsDone(sync.cond) /\ ~Active(me) => me \in pending'
    BY <1>t, <1>2, <1>s, <1>5 DEF Store, Notified, Active, IsQueuedOrEmpty, IsDone, IsWaitingOrRunning, Conditions
  <2>4. ~IsDone(sync.cond) => IsWaitingOrRunning(sync.cond)
    BY <1>t, <1>s DEF IsQueuedOrEmpty, IsDone, IsWaitingOrRunning, Conditions
  <2>5. Orderly(me)' /\ Started(me)' /\ Noticed(me)'
    <3>1. /\ rj'[me].cond = sync.cond /\ rj'[me].stop = rj[me].stop /\ rj'[me].run = rj[me].run
          /\ kj'[me] = kj[me] /\ dying'[me] = dying[me]
      BY <1>m, <1>2, <1>5, <2>2
    <3>2. Orderly(me)'
      BY <1>j, <1>s, <3>1 DEF JobCalm, Orderly
    <3>3. Started(me)' /\ Noticed(me)'
      BY <1>s, <3>1 DEF Started, Noticed, IsQueuedOrEmpty
    <3> QED BY <3>2, <3>3
  <2>6. Followed(me)'
    <3>1. Active(me)' => ~IsDone(sync.cond)
      BY <1>2, <2>2 DEF Active, IsWaitingOrRunning, IsDone
    <3>2. ~IsDone(sync.cond) => Executing(me) \/ me \in pending'
      BY <1>j, <1>m, <1>5, <2>2, <2>3 DEF JobCalm, Followed
    <3> QED BY <3>1, <3>2, <1>m DEF Followed, Executing
  <2>7. ASSUME NEW k \in Jobs, rj'[k].cond = "Queued" PROVE Served(k)'
    <3>1. CASE IsDone(sync.cond)
      BY <2>1, <3>1 DEF Served, Waking
    <3>2. CASE ~IsDone(sync.cond)
      BY <1>2, <2>2, <2>4, <3>2 DEF Served, Active
    <3> QED BY <3>1, <3>2
  <2>8. SyncCalm'
    BY <2>1 DEF SyncCalm, WorkCalm, Working, Waking
  <2> QED BY <1>m, <1>5, <2>1, <2>5, <2>6, <2>7, <2>8, CalmStore DEF Working
<1> QED BY <1>m, <1>3, <1>4, <1>5 DEF UpdateStatus

(* While a Sync wakes the queue no pipeline of a job that is not started has been created. *)
LEMMA CalmWaking ==
  ASSUME CalmInv, sync.pc \in Waking
  PROVE  /\ \A k \in Jobs : ~Busy(k)
         /\ \A k \in Jobs : IsQueuedOrEmpty(rj[k].cond) => kj[k] = "none"
  BY DEF CalmInv, JobCalm, Started, Busy, Working, Waking

LEMMA CalmWake ==
  ASSUME TypeOK, OpenInv, QueueInv, CalmInv, SetNextJobToWaiting
  PROVE  CalmInv'
<1>m. sync.pc = "wake" /\ sync.app = Application0 /\ UNCHANGED <<rj, kj, dying, pending>>
  BY DEF SetNextJobToWaiting, QueueInv, Fixed
<1>j. \A k \in Jobs : JobCalm(k)
  BY DEF CalmInv
<1>i. (\A k \in Jobs : ~Busy(k)) /\ \A k \in Jobs : IsQueuedOrEmpty(rj[k].cond) => kj[k] = "none"
  BY <1>m, CalmWaking DEF Waking
(* It is enough that the queued jobs are served. *)
<1>w. ASSUME sync'.pc \in {"idle", "waken"}, sync'.failed = FALSE,
             sync'.pc = "waken" => rj[sync'.next] = sync'.nextRj /\ sync'.nextRj.cond = "Queued",
             \A k \in Jobs : rj[k].cond = "Queued" => Served(k)'
      PROVE  CalmInv'
  <2>1. \A k \in Jobs : Orderly(k)'
    BY <1>m, <1>j DEF JobCalm, Orderly
  <2>2. \A k \in Jobs : Started(k)'
    BY <1>m, <1>i DEF Started
  <2>3. \A k \in Jobs : Noticed(k)'
    BY <1>m, <1>i, <1>j DEF JobCalm, Noticed, AtWork, Exists
  <2>4. \A k \in Jobs : Followed(k)'
    BY <1>m, <1>i, <1>j DEF JobCalm, Followed, Active, Executing
  <2>5. \A k \in Jobs : Waits(k)'
    BY <1>m, <1>w DEF Waits
  <2>6. SyncCalm'
    BY <1>m, <1>w DEF SyncCalm, WorkCalm, Working, Waking
  <2> QED BY <2>1, <2>2, <2>3, <2>4, <2>5, <2>6 DEF CalmInv, JobCalm
<1>1. CASE Wakeable(sync.app) = {} /\ sync' = Idle
  <2>1. ASSUME NEW k \in Jobs, rj[k].cond = "Queued" PROVE Served(k)'
    <3>1. IsOtherJobRunningOnBranchOrEnvironment(k, Application0)
      BY <1>m, <1>1, <2>1 DEF Wakeable
    <3>2. \E m \in Jobs : Active(m)
      BY <3>1 DEF IsOtherJobRunningOnBranchOrEnvironment, Active
    <3> QED BY <1>m, <3>2 DEF Served, Active
  <2>2. sync'.pc = "idle" /\ sync'.failed = FALSE
    BY <1>1 DEF Idle
  <2> QED BY <1>w, <2>1, <2>2
<1>2. ASSUME NEW k \in Wakeable(sync.app), sync' = [sync EXCEPT !.pc = "waken", !.next = k, !.nextRj = rj[k]]
      PROVE  CalmInv'
  <2>1. /\ sync'.pc = "waken" /\ sync'.next = k /\ sync'.nextRj = rj[k] /\ sync'.failed = sync.failed
        /\ rj[k].cond = "Queued"
    BY <1>2 DEF TypeOK, SyncRecords, Wakeable
  <2>2. sync.failed = FALSE
    BY <1>m DEF CalmInv, SyncCalm, TypeOK
  <2> QED BY <1>w, <2>1, <2>2 DEF Served, Waking
<1> QED BY <1>1, <1>2 DEF SetNextJobToWaiting

LEMMA CalmWaken ==
  ASSUME TypeOK, OpenInv, CalmInv, UpdateNextJob
  PROVE  CalmInv'
<1>m. PICK k \in Jobs : k = sync.next /\ sync.pc = "waken" /\ UNCHANGED <<kj, dying>>
  BY DEF TypeOK, UpdateNextJob
<1>t. rj \in [Jobs -> RadixJobs]
  BY DEF TypeOK
<1>j. \A i \in Jobs : JobCalm(i)
  BY DEF CalmInv
<1>i. (\A i \in Jobs : ~Busy(i)) /\ \A i \in Jobs : IsQueuedOrEmpty(rj[i].cond) => kj[i] = "none"
  BY <1>m, CalmWaking DEF Waking
<1>1. rj[k] = sync.nextRj /\ rj[k].cond = "Queued"
  BY <1>m DEF CalmInv, SyncCalm
<1>2. PICK new : new = [rj[k] EXCEPT !.cond = "Waiting"]
  OBVIOUS
<1>3. Store(k, new) /\ sync' = Idle
  BY <1>m, <1>1, <1>2 DEF UpdateNextJob
<1>4. new.cond = "Waiting" /\ new.stop = rj[k].stop /\ new.run = rj[k].run
  BY <1>t, <1>2 DEF RadixJobs
<1>5. rj'[k] = new /\ (\A i \in Jobs \ {k} : rj'[i] = rj[i]) /\ \A i \in pending : i \in pending'
  BY <1>t, <1>3 DEF Store
<1>6. k \in pending' /\ Active(k)' /\ sync'.pc = "idle"
  BY <1>1, <1>3, <1>4, <1>5 DEF Store, Notified, IsDone, Active, IsWaitingOrRunning, Idle
<1>7. Orderly(k)' /\ Started(k)' /\ Noticed(k)' /\ Followed(k)'
  BY <1>j, <1>1, <1>m, <1>4, <1>5, <1>6 DEF JobCalm, Orderly, Started, Noticed, Followed, IsDone, IsQueuedOrEmpty
<1>8. ASSUME NEW i \in Jobs \ {k} PROVE Orderly(i)' /\ Started(i)' /\ Noticed(i)' /\ Followed(i)'
  BY <1>j, <1>i, <1>m, <1>5 DEF JobCalm, Orderly, Started, Noticed, Followed, AtWork, Exists, Active, Executing
<1>9. \A i \in Jobs : Waits(i)'
  BY <1>6 DEF Waits, Served
<1>10. SyncCalm'
  BY <1>6 DEF SyncCalm, WorkCalm, Working
<1> QED BY <1>7, <1>8, <1>9, <1>10 DEF CalmInv, JobCalm

LEMMA CalmSyncStep ==
  ASSUME TypeOK, OpenInv, QueueInv, CalmInv, MaxAttempts > 2, SyncStep, ~ReconcileFails
  PROVE  CalmInv'
<1>1. ~DeletePipelineJobs /\ ~StopUpdate /\ ~SyncReturnsError
  BY DEF DeletePipelineJobs, StopUpdate, SyncReturnsError, CalmInv, SyncCalm, Working, Waking
<1> QED BY <1>1, CalmTargets, CalmQueueing, CalmReconcile, CalmRead, CalmUpdate, CalmWake, CalmWaken DEF SyncStep

LEMMA SpendDisturbs ==
  ASSUME TypeOK, NEW d \in Disturbances, Spend(d)
  PROVE  ~Undisturbed'
<1>1. [left EXCEPT ![d] = left[d] - 1, !["calm"] = 0]["calm"] = 0
  BY DEF TypeOK, Disturbances
<1> QED BY <1>1 DEF Spend, Undisturbed

LEMMA CalmEnvironment ==
  ASSUME TypeOK, TypeOK', OpenInv, StopInv, CalmInv, NEW j \in Jobs, CreateJob(j) \/ Pipeline(j), Undisturbed'
  PROVE  CalmInv'
<1>t. /\ rj \in [Jobs -> RadixJobs] /\ \A k \in Jobs : rj[k].created \in Nat
      /\ kj \in [Jobs -> KubeJobStates]
  BY DEF TypeOK, RadixJobs
<1>j. JobCalm(j)
  BY DEF CalmInv
<1>1. CASE CreateJob(j)
  <2>1. PICK k \in Jobs, later \in {0, 1} :
          /\ \A i \in Jobs : rj[i].created <= rj[k].created + later
          /\ rj' = [rj EXCEPT ![j] = [Absent EXCEPT !.created = rj[k].created + later]]
    BY <1>1 DEF CreateJob
  <2>2. PICK new : new = [Absent EXCEPT !.created = rj[k].created + later]
    OBVIOUS
  <2>3. new.cond = "" /\ ~new.stop /\ new.created = rj[k].created + later /\ ~IsDone(new.run)
    BY <2>2 DEF Absent, IsDone
  <2>4. rj'[j] = new /\ \A i \in Jobs \ {j} : rj'[i] = rj[i]
    BY <1>t, <2>1, <2>2
  <2>5. ~Exists(j) /\ UNCHANGED <<kj, dying, sync>> /\ pending' = pending \cup {j} /\ kj[j] = "none"
    BY <1>1 DEF CreateJob, StopInv, JobSound
  <2>6. /\ rj'[j].cond = "" /\ ~rj'[j].stop /\ j \in pending' /\ ~IsDone(rj'[j].run)
        /\ \A i \in Jobs : rj[i].created <= rj'[j].created
    BY <2>1, <2>3, <2>4, <2>5
  <2>7. \A i \in pending : i \in pending'
    BY <2>5
  <2> QED BY <2>4, <2>5, <2>6, <2>7, CalmQuiet DEF Executing
<1>2. CASE Pipeline(j)
  <2>d. dying[j] = 0 /\ ~DyingEnds(j)
    BY <1>j DEF JobCalm, Orderly, DyingEnds
  <2>n. ~(dying[j] > 0)
    BY <2>d
  <2>1. kj[j] # "none" /\ Exists(j) /\ UNCHANGED sync
    <3>1. kj[j] # "none" /\ UNCHANGED sync
      BY <1>2, <2>d, <2>n DEF Pipeline, PodStarts, RunnerReports, RunnerEnds, PodSucceeds, PodFails
    <3> QED BY <3>1 DEF StopInv, JobSound
  (* The pipeline goes on, and perhaps its runner reports. *)
  <2>g. ASSUME NEW run, rj' = [rj EXCEPT ![j] = [rj[j] EXCEPT !.run = run]] \/ UNCHANGED rj,
               UNCHANGED rj \/ run = rj[j].run \/ Rank(rj[j].run) < Rank(run),
               \A i \in Jobs \ {j} : kj'[i] = kj[i], \A i \in pending : i \in pending',
               kj'[j] # "none", kj[j] \notin {"succeeded", "failed"},
               kj'[j] \in {"ending", "succeeded"} => IsDone(rj'[j].run),
               kj'[j] \in {"waiting", "running"} => ~IsDone(rj'[j].run), UNCHANGED dying,
               Executing(j)' \/ j \in pending'
        PROVE  CalmInv'
    <3>1. \A i \in Jobs \ {j} : rj'[i] = rj[i]
      BY <1>t, <2>g
    <3>2. Newer(rj'[j], rj[j])
      <4>1. CASE UNCHANGED rj
        BY <4>1 DEF Newer
      <4>2. CASE ~(UNCHANGED rj)
        <5>1. PICK new : new = [rj[j] EXCEPT !.run = run]
          OBVIOUS
        <5>2. /\ new.created = rj[j].created /\ new.stop = rj[j].stop /\ new.cond = rj[j].cond
              /\ new.envs = rj[j].envs /\ new.run = run
          BY <1>t, <5>1 DEF RadixJobs
        <5>3. rj'[j] = new
          BY <1>t, <2>g, <4>2, <5>1
        <5> QED BY <2>g, <4>2, <5>2, <5>3 DEF Newer
      <4> QED BY <4>1, <4>2
    <3> QED BY <2>1, <2>g, <3>1, <3>2, CalmQuiet
  <2>u. kj[j] \in {"waiting", "running"} => rj[j].run \in {"", "Running"}
    BY <1>t, <1>j DEF JobCalm, Orderly, IsDone, RadixJobs, RunStatuses
  <2>k. KubeEvent(j) => j \in pending' /\ \A i \in pending : i \in pending'
    BY <2>1 DEF KubeEvent
  <2>2. CASE PodStarts(j)
    BY <2>2, <2>g, <2>k, <1>t, <1>j DEF PodStarts, JobCalm, Orderly
  <2>3. CASE RunnerReports(j)
    <3>1. kj[j] = "running" /\ UNCHANGED <<kj, dying>>
      BY <2>3, <2>d DEF RunnerReports
    <3>2. "Running" = rj[j].run \/ Rank(rj[j].run) < Rank("Running")
      BY <2>u, <3>1, RankRange
    <3>3. rj' = [rj EXCEPT ![j] = [rj[j] EXCEPT !.run = "Running"]] /\ rj'[j].run = "Running"
          /\ \A i \in pending : i \in pending'
      BY <1>t, <2>3 DEF RunnerReports, Store, RadixJobs
    <3> QED BY <3>1, <3>2, <3>3, <2>g DEF Executing, IsDone
  <2>4. CASE RunnerEnds(j)
    <3>1. PICK status \in Outcomes[j] : Report(j, status) /\ UNCHANGED dying
      BY <2>4 DEF RunnerEnds
    <3>2. Store(j, [rj[j] EXCEPT !.run = status])
      BY <3>1, SpendDisturbs DEF Report, Disturbances
    <3>3. IsDone(status)
      BY ConstantsAssumption DEF IsDone
    <3>4. Rank(rj[j].run) < Rank(status)
      BY <2>4, <2>u, <3>3, RankRange DEF RunnerEnds
    <3>5. rj' = [rj EXCEPT ![j] = [rj[j] EXCEPT !.run = status]] /\ rj'[j].run = status
      BY <1>t, <3>2 DEF Store, RadixJobs
    <3>6. kj'[j] = "ending" /\ kj[j] = "running" /\ \A i \in Jobs \ {j} : kj'[i] = kj[i]
      BY <1>t, <2>4 DEF RunnerEnds
    <3>7. \A i \in pending : i \in pending'
      BY <3>2 DEF Store
    <3> QED BY <3>1, <3>3, <3>4, <3>5, <3>6, <3>7, <2>g DEF Executing
  <2>5. CASE PodSucceeds(j)
    BY <2>5, <2>g, <2>k, <1>t, <1>j DEF PodSucceeds, JobCalm, Orderly
  <2>6. CASE PodFails(j)
    <3>1. PICK run \in {"Failed", rj[j].run} : rj' = [rj EXCEPT ![j] = [rj[j] EXCEPT !.run = run]]
      BY <2>6 DEF PodFails
    <3>2. run = rj[j].run \/ Rank(rj[j].run) < Rank(run)
      <4>1. IsDone("Failed")
        BY DEF IsDone
      <4> QED BY <2>6, <2>u, <3>1, <4>1, RankRange DEF PodFails
    <3> QED BY <2>6, <3>1, <3>2, <2>g, <2>k, <1>t DEF PodFails
  <2> QED BY <1>2, <2>d, <2>2, <2>3, <2>4, <2>5, <2>6 DEF Pipeline
<1> QED BY <1>1, <1>2

UndisturbedInv == TypeOK /\ OpenInv /\ StopInv /\ (Undisturbed => QueueInv /\ CalmInv)

LEMMA UndisturbedStep ==
  ASSUME MaxAttempts > 2, UndisturbedInv, [Next]_vars
  PROVE  UndisturbedInv'
<1>1. TypeOK /\ OpenInv /\ StopInv /\ TypeOK' /\ OpenInv' /\ StopInv'
  BY TypeStep, OpenStep, StopStep DEF UndisturbedInv
<1> SUFFICES ASSUME Undisturbed' PROVE QueueInv' /\ CalmInv'
  BY <1>1 DEF UndisturbedInv
<1>2. \A d \in Disturbances : ~Spend(d)
  BY <1>1, SpendDisturbs
<1>3. UNCHANGED left /\ ~SyncFails /\ ~Crash /\ ~ChangeApplication /\ ~ReconcileFails
      /\ \A j \in Jobs : ~StopJob(j) /\ ~KubeJobDeleted(j)
  <2>1. "error" \in Disturbances /\ "crash" \in Disturbances /\ "application" \in Disturbances
        /\ "stop" \in Disturbances /\ "kubeDelete" \in Disturbances /\ "lostReport" \in Disturbances
    BY DEF Disturbances
  <2>2. ~SyncFails /\ ~Crash /\ ~ChangeApplication /\ ~ReconcileFails
        /\ \A j \in Jobs : ~StopJob(j) /\ ~KubeJobDeleted(j)
    BY <1>2, <2>1 DEF SyncFails, Crash, ChangeApplication, ReconcileFails, StopJob, KubeJobDeleted
  <2>3. ASSUME NEW j \in Jobs, CreateJob(j) \/ StartSync(j) \/ Pipeline(j) PROVE UNCHANGED left
    BY <1>2, <2>1, <2>3 DEF CreateJob, StartSync, Pipeline, PodStarts, RunnerReports, RunnerEnds, Report,
       PodSucceeds, PodFails, DyingEnds
  <2>4. SyncStep => UNCHANGED left
    BY <2>2 DEF SyncStep, SyncTargetEnvironments, DeletePipelineJobs, StopUpdate, HandleJobQueueing,
       Reconcile, SyncStatusRead, SyncStatusUpdate, SetNextJobToWaiting, UpdateNextJob, SyncReturnsError
  <2>5. UNCHANGED vars => UNCHANGED left
    BY DEF vars
  <2> QED BY <2>2, <2>3, <2>4, <2>5 DEF Next
<1>4. Undisturbed
  BY <1>3 DEF Undisturbed
<1>5. QueueInv /\ CalmInv
  BY <1>4 DEF UndisturbedInv
<1>6. UNCHANGED ra
  BY <1>3 DEF Next, vars, CreateJob, StartSync, Pipeline, PodStarts, RunnerReports, RunnerEnds, PodSucceeds, PodFails,
     DyingEnds, SyncStep, SyncTargetEnvironments, DeletePipelineJobs, StopUpdate, HandleJobQueueing,
     Reconcile, SyncStatusRead, SyncStatusUpdate, SetNextJobToWaiting, UpdateNextJob, SyncReturnsError
<1>7. QueueInv'
  BY <1>1, <1>5, <1>6, QueueInvStep
<1>8. CalmInv'
  <2>1. ASSUME NEW j \in Jobs, CreateJob(j) \/ Pipeline(j) PROVE CalmInv'
    BY <1>1, <1>5, <2>1, CalmEnvironment
  <2>2. ASSUME NEW j \in Jobs, StartSync(j) PROVE CalmInv'
    <3>1. 1 <= 1 + Rank(rj[j].run)
      BY RankRange
    <3>2. /\ Begin(j, 1) /\ UNCHANGED <<rj, kj, dying>> /\ sync.pc = "idle" /\ pending' = pending \ {j}
      BY <2>2 DEF StartSync
    <3> QED BY <1>1, <1>5, <3>1, <3>2, CalmBegin
  <2>3. CASE SyncStep
    BY <1>1, <1>3, <1>5, <2>3, CalmSyncStep
  <2>4. CASE UNCHANGED vars
    <3>1. UNCHANGED <<rj, kj, dying, pending, sync>> /\ \A k \in Jobs : Blocked(k)' <=> Blocked(k)
      BY <2>4, BlockedSame DEF vars
    <3>2. \A k \in Jobs : Served(k)' <=> Served(k)
      BY <3>1 DEF Served, Ahead, AtWork, Busy, Exists, Active
    <3>3. ASSUME NEW k \in Jobs, JobCalm(k) PROVE JobCalm(k)'
      <4>1. Orderly(k)' /\ Noticed(k)' /\ Waits(k)'
        BY <3>1, <3>2, <3>3 DEF JobCalm, Orderly, Noticed, Waits, AtWork, Busy, Exists
      <4>2. Started(k)' /\ Followed(k)'
        BY <3>1, <3>3 DEF JobCalm, Started, Followed, Busy, Active, Executing
      <4> QED BY <4>1, <4>2 DEF JobCalm
    <3>4. sync.pc \in Working => sync.job \in Jobs
      BY <1>1 DEF TypeOK, Working
    <3>5. SyncCalm'
      BY <1>5, <3>1, <3>4 DEF CalmInv, SyncCalm, WorkCalm, Working
    <3> QED BY <1>5, <3>3, <3>5 DEF CalmInv
  <2> QED BY <1>3, <2>1, <2>2, <2>3, <2>4 DEF Next
<1> QED BY <1>7, <1>8

LEMMA UndisturbedAtFirst == Init => UndisturbedInv
<1> SUFFICES ASSUME Init PROVE UndisturbedInv
  OBVIOUS
<1>1. /\ ra = Application0 /\ pending = {} /\ sync = Idle /\ sync.pc = "idle" /\ sync.app = Application0
      /\ sync.failed = FALSE
  BY DEF Init, Idle
<1>2. \A j \in Jobs : InitialJob(j)
  BY InitialJobs
<1>3. QueueInv
  BY <1>1, <1>2 DEF InitialJob, QueueInv, Fixed, Created, Targeted, Apart, SyncClear, NextClear, SyncOpen,
     Active, IsWaitingOrRunning
<1>4. PICK s \in Starts :
        /\ rj = [j \in Jobs |-> IF j \in s.done THEN Ended(j) ELSE Absent]
        /\ kj = [j \in Jobs |-> IF j \in s.done THEN "succeeded" ELSE "none"]
        /\ dying = [j \in Jobs |-> 0]
  BY DEF Init
<1>5. ASSUME NEW j \in Jobs PROVE JobCalm(j)
  <2>1. CASE j \in s.done
    <3>1. rj[j].cond = "Succeeded" /\ rj[j].run = "Succeeded" /\ ~rj[j].stop /\ kj[j] = "succeeded" /\ dying[j] = 0
      BY <1>4, <2>1 DEF Ended
    <3> QED BY <3>1 DEF JobCalm, Orderly, Started, Noticed, Followed, Waits, IsDone, IsQueuedOrEmpty, Active,
         IsWaitingOrRunning
  <2>2. CASE j \notin s.done
    <3>0. ~(0 > 0)
      OBVIOUS
    <3>1. rj[j].cond = "" /\ rj[j].run = "" /\ ~rj[j].stop /\ kj[j] = "none" /\ dying[j] = 0 /\ rj[j].created = 0
      BY <1>4, <2>2 DEF Absent
    <3>2. ~Exists(j)
      BY <3>0, <3>1 DEF Exists
    <3> QED BY <3>1, <3>2 DEF JobCalm, Orderly, Started, Noticed, Followed, Waits, IsDone, Active, IsWaitingOrRunning
  <2> QED BY <2>1, <2>2
<1>6. SyncCalm
  BY <1>1 DEF SyncCalm, WorkCalm, Working
<1> QED BY <1>3, <1>5, <1>6, StopInit, TypeAtFirst DEF UndisturbedInv, CalmInv

LEMMA UndisturbedAlways ==
  ASSUME MaxAttempts > 2
  PROVE  Spec => []UndisturbedInv
<1>1. UndisturbedInv /\ [Next]_vars => UndisturbedInv'
  BY UndisturbedStep
<1> QED BY <1>1, UndisturbedAtFirst, PTL DEF Spec

(* Until somebody stops a job, changes the application, or something fails, a queued job
   is queued behind a job that is waiting or running and whose pipeline is not finished,
   whenever the operator has nothing left to do: for any number of jobs, any interleaving
   of their Syncs with the runner's reports, and any conflicts these cause, provided a
   Sync is retried more than twice (retry.DefaultRetry: five times).  QueueNotStuck, in
   general. *)
THEOREM QueueNotStuckHolds ==
  ASSUME MaxAttempts > 2
  PROVE  Spec => []QueueNotStuck
<1>1. UndisturbedInv => QueueNotStuck
  <2> SUFFICES ASSUME UndisturbedInv, Undisturbed, Quiet, NEW j \in Jobs, rj[j].cond = "Queued"
               PROVE  \E k \in Jobs : Active(k) /\ Executing(k)
    BY DEF QueueNotStuck, QueueMoves
  <2>1. /\ sync.pc = "idle" /\ pending = {} /\ \A k \in Jobs : JobCalm(k)
    BY DEF Quiet, UndisturbedInv, CalmInv
  <2>2. \A k \in Jobs : ~AtWork(k)
    BY <2>1 DEF AtWork, Busy, Working
  <2>3. PICK k \in Jobs : Active(k)
    BY <2>1, <2>2 DEF JobCalm, Waits, Served, Waking, Ahead
  <2>4. Executing(k)
    BY <2>1, <2>3 DEF JobCalm, Followed, Busy, Working
  <2> QED BY <2>3, <2>4
<1> QED BY <1>1, UndisturbedAlways, PTL

(* Until then, two RadixJobs of a common environment do not have pipelines that execute
   at the same time: the Sync of a job creates its pipeline only when nothing blocks the
   job, and records it, in spite of conflicts with the runner's reports, before another
   Sync begins.  PipelinesDisjoint, in general. *)
THEOREM PipelinesDisjointHolds ==
  ASSUME MaxAttempts > 2
  PROVE  Spec => []PipelinesDisjoint
<1>1. UndisturbedInv => PipelinesDisjoint
  <2> SUFFICES ASSUME UndisturbedInv, Undisturbed, NEW j \in Jobs, NEW k \in Jobs, j # k, Executing(j), Executing(k)
               PROVE  ~Clash(j, k)
    BY DEF PipelinesDisjoint, UndisturbedInv, QueueInv, Fixed, Clash, Targets
  <2>1. \A i \in Jobs : JobCalm(i)
    BY DEF UndisturbedInv, CalmInv
  <2>2. QueueInv
    BY DEF UndisturbedInv
  <2>3. ASSUME NEW i \in Jobs, Executing(i) PROVE Active(i) \/ (Busy(i) /\ Clear(i))
    <3>1. kj[i] # "none" /\ ~IsDone(rj[i].cond)
      BY <2>1, <2>3 DEF JobCalm, Orderly, Executing
    <3>2. rj[i].cond \in Conditions
      BY DEF UndisturbedInv, TypeOK, RadixJobs
    <3>3. Active(i) \/ IsQueuedOrEmpty(rj[i].cond)
      BY <3>1, <3>2 DEF Conditions, IsDone, IsQueuedOrEmpty, Active, IsWaitingOrRunning
    <3>4. IsQueuedOrEmpty(rj[i].cond) => Busy(i) /\ ~Blocked(i)
      BY <2>1, <3>1 DEF JobCalm, Started
    <3> QED BY <2>2, <3>3, <3>4, NotBlocked DEF Blocked, QueueInv
  <2>4. ~(Busy(j) /\ Busy(k))
    BY DEF Busy
  <2>5. Active(j) => Clear(j)
    BY <2>2 DEF QueueInv, Apart
  <2>6. Active(k) => Clear(k)
    BY <2>2 DEF QueueInv, Apart
  <2> QED BY <2>3, <2>4, <2>5, <2>6, ClashSymmetric DEF Clear
<1> QED BY <1>1, UndisturbedAlways, PTL
=============================================================================
