------------------------- MODULE RadixBatchProofs -------------------------
(***************************************************************************)
(* Proofs about a RadixBatch, for any number of jobs, requests, errors and *)
(* restarts, and any lag of the cache.                                     *)
(***************************************************************************)
EXTENDS RadixBatch, SequenceTheorems, TLAPS

Statuses == [Jobs -> [phase : Phases, restart : Nat]]

Changes == [job : Jobs, object : KubeJobs]

SyncRecords ==
  [pc : {"idle", "list", "job", "create", "midStatus", "status", "condition"},
   own : Batches, i : 0..Len(JobSeq), list : SUBSET Jobs, restarted : SUBSET Jobs,
   err : {"", "error", "deployment"}, tries : 0..MaxAttempts]

SyncTyped == sync \in SyncRecords /\ (sync.pc \in {"job", "create", "midStatus"} => sync.i # 0)

LEMMA Constants ==
  /\ JobSeq \in Seq(Jobs) /\ Len(JobSeq) \in Nat \ {0} /\ \A i \in 1..Len(JobSeq) : JobSeq[i] \in Jobs
  /\ StatusEvery \in Nat \ {0} /\ MaxAttempts \in Nat \ {0}
  /\ Requests["stop"] \subseteq SUBSET Jobs /\ Requests["restart"] \subseteq SUBSET Jobs
  /\ \A j \in Jobs : Ends[j] \subseteq {"succeeded", "failed"}
  /\ Starts \subseteq [batch : Batches, kj : [Jobs -> KubeJobs], left : [Disturbances -> Nat]]
<1>1. JobSeq \in Seq(Jobs) /\ JobSeq # <<>>
  BY ConstantsAssumption, Zenon
<1>2. StatusEvery \in Nat \ {0} /\ MaxAttempts \in Nat \ {0}
  <2>1. {StatusEvery, MaxAttempts} \subseteq Nat \ {0}
    BY ConstantsAssumption, Zenon
  <2> QED BY <2>1
<1>3. Requests["stop"] \subseteq SUBSET Jobs /\ Requests["restart"] \subseteq SUBSET Jobs
  <2>1. Requests \in [{"stop", "restart"} -> SUBSET (SUBSET Jobs)]
    BY ConstantsAssumption, Zenon
  <2> QED BY <2>1
<1>4. \A j \in Jobs : Ends[j] \subseteq {"succeeded", "failed"}
  <2>1. Ends \in [Jobs -> SUBSET {"succeeded", "failed"}]
    BY ConstantsAssumption, Zenon
  <2> QED BY <2>1
<1>5. Starts \subseteq [batch : Batches, kj : [Jobs -> KubeJobs], left : [Disturbances -> Nat]]
  BY ConstantsAssumption, Zenon
<1>6. Len(JobSeq) \in Nat \ {0} /\ \A i \in 1..Len(JobSeq) : JobSeq[i] \in Jobs
  BY <1>1, EmptySeq, LenProperties, ElementOfSeq
<1> QED BY <1>1, <1>2, <1>3, <1>4, <1>5, <1>6

LEMMA Numbers ==
  Len(JobSeq) \in Nat \ {0} /\ StatusEvery \in Nat \ {0} /\ MaxAttempts \in Nat \ {0}
BY Constants, Zenon

LEMMA IdleType ==
  Batch0 \in Batches /\ NoKubeJob \in KubeJobs /\ Idle \in SyncRecords /\ Idle.pc = "idle"
<1>1. Batch0 \in Batches
  BY DEF Batch0, Batches, BatchConditions, Phases
<1>2. 0 \in 0..MaxAttempts /\ 0 \in 0..Len(JobSeq)
  BY Constants
<1>3. NoKubeJob \in KubeJobs
  BY DEF NoKubeJob, KubeJob, KubeJobs, KubeJobStates
<1> QED BY <1>1, <1>2, <1>3 DEF Idle, SyncRecords

LEMMA StoreType ==
  ASSUME TypeOK, NEW j \in Jobs, NEW new \in KubeJobs, Store(j, new)
  PROVE  kj' \in [Jobs -> KubeJobs] /\ stream' \in Seq(Changes)
<1>1. stream \in Seq(Changes) /\ [job |-> j, object |-> new] \in Changes
  BY DEF TypeOK, Changes
<1>2. Append(stream, [job |-> j, object |-> new]) \in Seq(Changes)
  BY <1>1, AppendProperties
<1> QED BY <1>1, <1>2 DEF Store, TypeOK

LEMMA BeginType ==
  ASSUME TypeOK, NEW try \in 1..MaxAttempts, Begin(try)
  PROVE  SyncTyped'
<1>1. CASE sync' = Idle
  BY <1>1, IdleType DEF SyncTyped
<1>2. CASE sync' = [Idle EXCEPT !.pc = "list", !.own = batch, !.tries = try]
  <2>1. try \in 0..MaxAttempts
    BY Numbers
  <2>2. batch \in Batches
    BY DEF TypeOK
  <2> QED BY <1>2, <2>1, <2>2, IdleType DEF SyncTyped, SyncRecords, Idle
<1> QED BY <1>1, <1>2 DEF Begin

LEMMA RequeueType == ASSUME Requeue PROVE SyncTyped' /\ pending' \in BOOLEAN
  BY IdleType DEF Requeue, SyncTyped

LEMMA RetryType ==
  ASSUME TypeOK, Retry PROVE SyncTyped' /\ pending' \in BOOLEAN
<1>0. sync.tries \in 0..MaxAttempts /\ pending \in BOOLEAN
  BY DEF TypeOK
<1>1. CASE sync.tries < MaxAttempts /\ Begin(sync.tries + 1) /\ UNCHANGED pending
  <2>1. sync.tries + 1 \in 1..MaxAttempts
    BY <1>0, <1>1, Numbers
  <2> QED BY <1>0, <1>1, <2>1, BeginType
<1>2. CASE Requeue
  BY <1>2, RequeueType
<1> QED BY <1>1, <1>2 DEF Retry

LEMMA NextJobType ==
  ASSUME NEW s \in SyncRecords, s.i # 0
  PROVE  /\ NextJob(s) \in SyncRecords /\ NextJob(s).i # 0
         /\ NextJob(s).own = s.own /\ NextJob(s).restarted = s.restarted
         /\ NextJob(s).pc \in {"midStatus", "status", "job"}
<1>0. s.i \in 0..Len(JobSeq)
  BY DEF SyncRecords
<1>1. s.i \in 1..Len(JobSeq)
  BY <1>0, Numbers
<1>2. s.i # Len(JobSeq) => s.i + 1 \in 1..Len(JobSeq)
  BY <1>1, Numbers
<1>3. 1..Len(JobSeq) \subseteq 0..Len(JobSeq) /\ 0 \notin 1..Len(JobSeq)
  BY Numbers
<1> QED BY <1>1, <1>2, <1>3 DEF NextJob, SyncRecords

LEMMA CurrentType ==
  ASSUME SyncTyped, sync.pc \in {"job", "create", "midStatus"}
  PROVE  Current \in Jobs
<1>0. sync.i \in 0..Len(JobSeq) /\ sync.i # 0
  BY DEF SyncTyped, SyncRecords
<1>1. sync.i \in 1..Len(JobSeq)
  BY <1>0, Numbers
<1> QED BY <1>1, Constants DEF Current

LEMMA FailType ==
  ASSUME SyncTyped, NEW err \in {"error", "deployment"}, Fail(err)
  PROVE  SyncTyped'
  BY DEF Fail, SyncTyped, SyncRecords

LEMMA DeleteType ==
  ASSUME TypeOK, NEW j \in Jobs, Delete(j)
  PROVE  kj' \in [Jobs -> KubeJobs] /\ stream' \in Seq(Changes)
<1>1. kj \in [Jobs -> KubeJobs] /\ stream \in Seq(Changes)
  BY DEF TypeOK, Changes
<1> QED BY <1>1, StoreType, IdleType DEF Delete

(* The status of a batch job: its type, and where its restart comes from. *)
LEMMA BuildType ==
  ASSUME TypeOK, NEW j \in Jobs
  PROVE  /\ BuildBatchJobStatus(j) \in [phase : Phases, restart : Nat]
         /\ BuildBatchJobStatus(j).restart \in {0, sync.own.status[j].restart, sync.own.spec[j].restart}
<1> DEFINE current == sync.own.status[j]
           status == CASE j \in sync.restarted -> [phase |-> "Waiting", restart |-> sync.own.spec[j].restart]
                       [] j \notin sync.restarted /\ current.phase = "" -> [phase |-> "Waiting", restart |-> 0]
                       [] OTHER -> current
           Good(s) == /\ s \in [phase : Phases, restart : Nat]
                      /\ s.restart \in {0, sync.own.status[j].restart, sync.own.spec[j].restart}
<1>1. current \in [phase : Phases, restart : Nat] /\ sync.own.spec[j].restart \in Nat
  BY DEF TypeOK, Batches
<1>2. Good(status)
  BY <1>1 DEF Phases
<1>3. KubePhase(seen[j], status.phase) \in Phases
  BY <1>2 DEF KubePhase, Phases
<1>4. "Stopped" \in Phases
  BY DEF Phases
<1>5. Good([status EXCEPT !.phase = "Stopped"]) /\ Good([status EXCEPT !.phase = KubePhase(seen[j], status.phase)])
  <2> HIDE DEF status
  <2> QED BY <1>2, <1>3, <1>4
<1>6. Good(current)
  BY <1>1
<1>7. BuildBatchJobStatus(j) =
        CASE j \notin sync.restarted /\ IsDone(current) -> current
          [] StopRequested(j) /\ (j \in sync.restarted \/ ~IsDone(current)) -> [status EXCEPT !.phase = "Stopped"]
          [] OTHER -> [status EXCEPT !.phase = KubePhase(seen[j], status.phase)]
  BY DEF BuildBatchJobStatus
<1>8. Good(BuildBatchJobStatus(j))
  <2> HIDE DEF status, current, Good
  <2> QED BY <1>5, <1>6, <1>7
<1> QED BY <1>8

LEMMA NewStatusType ==
  ASSUME TypeOK
  PROVE  /\ NewStatus \in Batches /\ NewStatus.spec = sync.own.spec
         /\ NewStatus.status = [j \in Jobs |-> BuildBatchJobStatus(j)]
<1> DEFINE status == [j \in Jobs |-> BuildBatchJobStatus(j)]
           cond == IF \A j \in Jobs : status[j].phase = "Waiting" THEN "Waiting"
                   ELSE IF \A j \in Jobs : IsDone(status[j]) THEN "Completed"
                   ELSE "Active"
<1>1. status \in Statuses
  BY BuildType DEF Statuses
<1>2. cond \in BatchConditions
  BY DEF BatchConditions
<1>3. sync.own \in Batches
  BY DEF TypeOK
<1>4. NewStatus = [sync.own EXCEPT !.status = status, !.cond = cond]
  BY DEF NewStatus
<1> HIDE DEF cond
<1>5. NewStatus \in Batches /\ NewStatus.spec = sync.own.spec /\ NewStatus.status = status
  <2> HIDE DEF status
  <2> QED BY <1>1, <1>2, <1>3, <1>4 DEF Batches, Statuses
<1> QED BY <1>5

LEMMA TypeStep == TypeOK /\ [Next]_vars => TypeOK'
<1> SUFFICES ASSUME TypeOK, [Next]_vars PROVE TypeOK'
  OBVIOUS
<1>t. /\ clock \in Nat /\ batch \in Batches /\ kj \in [Jobs -> KubeJobs] /\ seen \in [Jobs -> KubeJobs]
      /\ stream \in Seq(Changes) /\ edited \in BOOLEAN /\ pending \in BOOLEAN /\ rdExists \in BOOLEAN
      /\ SyncTyped /\ results \subseteq Jobs \X Nat \X {"succeeded", "failed"}
      /\ left \in [Disturbances -> Nat]
  BY DEF TypeOK, SyncTyped, SyncRecords, Changes
<1>p. ASSUME clock' \in Nat, batch' \in Batches, kj' \in [Jobs -> KubeJobs], seen' \in [Jobs -> KubeJobs],
             stream' \in Seq(Changes), edited' \in BOOLEAN, pending' \in BOOLEAN, rdExists' \in BOOLEAN,
             SyncTyped', results' \subseteq Jobs \X Nat \X {"succeeded", "failed"},
             left' \in [Disturbances -> Nat]
      PROVE  TypeOK'
  BY <1>p DEF TypeOK, SyncTyped, SyncRecords, Changes
<1>s. ASSUME NEW d \in Disturbances, Spend(d) PROVE left' \in [Disturbances -> Nat]
  BY <1>s, <1>t DEF Spend
<1>y. ASSUME UNCHANGED sync PROVE SyncTyped'
  BY <1>y, <1>t DEF SyncTyped
<1>e. ASSUME NEW spec \in [Jobs -> [stop : BOOLEAN, restart : Nat]], Edit(spec)
      PROVE  batch' \in Batches /\ edited' \in BOOLEAN
  <2>1. batch.version + 1 \in Nat
    BY <1>t DEF Batches
  <2>2. batch' = [[batch EXCEPT !.spec = spec] EXCEPT !.version = batch.version + 1]
    BY <1>e, <1>t DEF Edit, Batches
  <2>3. [batch EXCEPT !.spec = spec] \in Batches
    BY <1>e, <1>t DEF Batches
  <2> QED BY <1>e, <2>1, <2>2, <2>3 DEF Edit, Batches
<1>1. ASSUME StartSync PROVE TypeOK'
  <2>1. SyncTyped'
    BY <1>1, Numbers, BeginType DEF StartSync
  <2> QED BY <1>1, <2>1, <1>t, <1>p DEF StartSync
<1>2. ASSUME ReconcileList PROVE TypeOK'
  <2>1. CASE rdExists
    <3>1. PICK list \in SUBSET Jobs : sync' = [sync EXCEPT !.pc = "job", !.i = 1, !.list = list]
      BY <1>2, <2>1 DEF ReconcileList
    <3>2. SyncTyped'
      <4>1. 1 \in 0..Len(JobSeq)
        BY Numbers
      <4>2. sync \in SyncRecords
        BY <1>t DEF SyncTyped
      <4>3. sync'.i = 1
        BY <3>1, <4>2 DEF SyncRecords
      <4>4. sync' \in SyncRecords
        BY <3>1, <4>1, <4>2 DEF SyncRecords
      <4> QED BY <4>3, <4>4 DEF SyncTyped
    <3> QED BY <1>2, <3>2, <1>t, <1>p DEF ReconcileList
  <2>2. CASE ~rdExists
    <3>1. SyncTyped'
      BY <1>2, <2>2, <1>t, FailType DEF ReconcileList
    <3> QED BY <1>2, <3>1, <1>t, <1>p DEF ReconcileList
  <2> QED BY <2>1, <2>2
<1>3. ASSUME ReconcileStop PROVE TypeOK'
  <2>1. Current \in Jobs /\ sync \in SyncRecords /\ sync.i # 0
    BY <1>3, <1>t, CurrentType DEF ReconcileStop, SyncTyped
  <2>2. kj' \in [Jobs -> KubeJobs] /\ stream' \in Seq(Changes)
    BY <1>3, <2>1, DeleteType DEF ReconcileStop
  <2>3. SyncTyped'
    BY <1>3, <2>1, NextJobType DEF ReconcileStop, SyncTyped
  <2> QED BY <1>3, <2>2, <2>3, <1>t, <1>p DEF ReconcileStop
<1>4. ASSUME ReconcileSkip PROVE TypeOK'
  <2>1. sync \in SyncRecords /\ sync.i # 0
    BY <1>4, <1>t DEF ReconcileSkip, SyncTyped
  <2>2. SyncTyped'
    BY <1>4, <2>1, NextJobType DEF ReconcileSkip, SyncTyped
  <2> QED BY <1>4, <2>2, <1>t, <1>p DEF ReconcileSkip
<1>5. ASSUME ReconcileRestart PROVE TypeOK'
  <2>1. Current \in Jobs
    BY <1>5, <1>t, CurrentType DEF ReconcileRestart
  <2>2. kj' \in [Jobs -> KubeJobs] /\ stream' \in Seq(Changes)
    BY <1>5, <2>1, DeleteType DEF ReconcileRestart
  <2>3. SyncTyped'
    BY <1>5, <2>1, <1>t DEF ReconcileRestart, SyncTyped, SyncRecords
  <2> QED BY <1>5, <2>2, <2>3, <1>t, <1>p DEF ReconcileRestart
<1>6. ASSUME ReconcileCreate PROVE TypeOK'
  <2>1. Current \in Jobs /\ sync \in SyncRecords /\ sync.i # 0
    BY <1>6, <1>t, CurrentType DEF ReconcileCreate, SyncTyped
  <2>2. KubeJob("pending", sync.own.spec[Current].restart) \in KubeJobs
    <3>1. sync.own.spec[Current].restart \in Nat
      BY <2>1 DEF SyncRecords, Batches
    <3> QED BY <3>1 DEF KubeJob, KubeJobs, KubeJobStates
  <2>3. CASE kj[Current].state = "none"
    <3>1. kj' \in [Jobs -> KubeJobs] /\ stream' \in Seq(Changes)
      BY <1>6, <2>1, <2>2, <2>3, StoreType DEF ReconcileCreate
    <3>2. SyncTyped'
      BY <1>6, <2>1, <2>3, NextJobType DEF ReconcileCreate, SyncTyped
    <3> QED BY <1>6, <3>1, <3>2, <1>t, <1>p DEF ReconcileCreate
  <2>4. CASE kj[Current].state # "none"
    <3>1. SyncTyped'
      BY <1>6, <2>4, <1>t, FailType DEF ReconcileCreate
    <3> QED BY <1>6, <2>4, <3>1, <1>t, <1>p DEF ReconcileCreate
  <2> QED BY <2>3, <2>4
<1>7. ASSUME MidStatus PROVE TypeOK'
  <2>1. CASE batch' = NewStatus /\ sync' = NextJob([sync EXCEPT !.own = NewStatus])
    <3>1. [sync EXCEPT !.own = NewStatus] \in SyncRecords /\ [sync EXCEPT !.own = NewStatus].i # 0
      BY <1>7, <1>t, NewStatusType DEF MidStatus, SyncTyped, SyncRecords
    <3>2. SyncTyped'
      BY <2>1, <3>1, NextJobType DEF SyncTyped
    <3> QED BY <1>7, <2>1, <3>2, <1>t, <1>p, NewStatusType DEF MidStatus
  <2>2. CASE UNCHANGED batch /\ Fail("error")
    <3>1. SyncTyped'
      BY <2>2, <1>t, FailType
    <3> QED BY <1>7, <2>2, <3>1, <1>t, <1>p DEF MidStatus
  <2> QED BY <1>7, <2>1, <2>2 DEF MidStatus, Update
<1>8. ASSUME SyncStatus PROVE TypeOK'
  <2>1. batch' \in Batches
    BY <1>8, <1>t, NewStatusType DEF SyncStatus, Update
  <2>2. SyncTyped' /\ pending' \in BOOLEAN
    <3>1. CASE Requeue
      BY <3>1, RequeueType
    <3>2. CASE Retry
      BY <3>2, RetryType
    <3>3. CASE sync' = [sync EXCEPT !.pc = "condition", !.own = NewStatus] /\ UNCHANGED pending
      BY <3>3, <1>t, NewStatusType DEF SyncTyped, SyncRecords
    <3>4. CASE sync' = Idle /\ UNCHANGED pending
      BY <3>4, <1>t, IdleType DEF SyncTyped
    <3> QED BY <1>8, <3>1, <3>2, <3>3, <3>4 DEF SyncStatus, Update
  <2> QED BY <1>8, <2>1, <2>2, <1>t, <1>p DEF SyncStatus
<1>9. ASSUME SyncCondition PROVE TypeOK'
  <2>1. [sync.own EXCEPT !.cond = "Waiting"] \in Batches
    BY <1>t DEF SyncTyped, SyncRecords, Batches, BatchConditions
  <2>2. batch' \in Batches
    BY <1>9, <1>t, <2>1 DEF SyncCondition, Update
  <2>3. SyncTyped' /\ pending' \in BOOLEAN
    BY <1>9, RequeueType, RetryType DEF SyncCondition, Update
  <2> QED BY <1>9, <2>2, <2>3, <1>t, <1>p DEF SyncCondition
<1>10. ASSUME SyncFails PROVE TypeOK'
  <2>1. left' \in [Disturbances -> Nat]
    BY <1>10, <1>s DEF SyncFails, Disturbances
  <2>2. SyncTyped' /\ pending' \in BOOLEAN
    <3>1. CASE Fail("error") /\ UNCHANGED pending
      BY <3>1, <1>t, FailType
    <3>2. CASE /\ sync.pc = "job"
               /\ sync' = [sync EXCEPT !.pc = "status", !.err = "error", !.restarted = @ \cup {Current}]
               /\ UNCHANGED pending
      <4>1. Current \in Jobs
        BY <3>2, <1>t, CurrentType
      <4> QED BY <3>2, <4>1, <1>t DEF SyncTyped, SyncRecords
    <3>3. CASE Requeue
      BY <3>3, RequeueType
    <3> QED BY <1>10, <3>1, <3>2, <3>3 DEF SyncFails
  <2> QED BY <1>10, <2>1, <2>2, <1>t, <1>p DEF SyncFails
<1>11. ASSUME Crash PROVE TypeOK'
  <2>1. left' \in [Disturbances -> Nat]
    BY <1>11, <1>s DEF Crash, Disturbances
  <2>2. SyncTyped' /\ <<>> \in Seq(Changes)
    BY <1>11, IdleType, EmptySeq DEF Crash, SyncTyped
  <2> QED BY <1>11, <2>1, <2>2, <1>t, <1>p DEF Crash
<1>12. ASSUME DeliverKubeJob PROVE TypeOK'
  <2>1. stream' \in Seq(Changes) /\ Head(stream) \in Changes
    BY <1>12, <1>t, HeadTailProperties DEF DeliverKubeJob
  <2>2. Head(stream).job \in Jobs /\ Head(stream).object \in KubeJobs
    BY <2>1 DEF Changes
  <2>3. seen' \in [Jobs -> KubeJobs] /\ pending' \in BOOLEAN
    BY <1>12, <1>t, <2>2 DEF DeliverKubeJob, Notified
  <2> QED BY <1>12, <2>1, <2>3, <1>t, <1>y, <1>p DEF DeliverKubeJob
<1>13. ASSUME DeliverBatch PROVE TypeOK'
  BY <1>13, <1>t, <1>y, <1>p DEF DeliverBatch
<1>14. ASSUME NEW j \in Jobs, PodsStart(j) PROVE TypeOK'
  <2>1. [kj[j] EXCEPT !.state = "active"] \in KubeJobs
    BY <1>t DEF KubeJobs, KubeJobStates
  <2>2. kj' \in [Jobs -> KubeJobs] /\ stream' \in Seq(Changes)
    BY <1>14, <2>1, StoreType DEF PodsStart
  <2> QED BY <1>14, <2>2, <1>t, <1>y, <1>p DEF PodsStart
<1>15. ASSUME NEW j \in Jobs, PodsEnd(j) PROVE TypeOK'
  <2>1. PICK end \in Ends[j] : /\ Store(j, [kj[j] EXCEPT !.state = end])
                               /\ results' = results \cup {<<j, kj[j].run, end>>}
    BY <1>15 DEF PodsEnd
  <2>2. end \in {"succeeded", "failed"}
    BY <2>1, Constants, Zenon
  <2>3. [kj[j] EXCEPT !.state = end] \in KubeJobs /\ kj[j].run \in Nat
    BY <2>2, <1>t DEF KubeJobs, KubeJobStates
  <2>4. kj' \in [Jobs -> KubeJobs] /\ stream' \in Seq(Changes)
    BY <2>1, <2>3, StoreType
  <2>5. results' \subseteq Jobs \X Nat \X {"succeeded", "failed"}
    BY <2>1, <2>2, <2>3, <1>t
  <2> QED BY <1>15, <2>4, <2>5, <1>t, <1>y, <1>p DEF PodsEnd
<1>16. ASSUME NEW j \in Jobs, KubeJobExpires(j) PROVE TypeOK'
  <2>1. kj' \in [Jobs -> KubeJobs] /\ stream' \in Seq(Changes)
    BY <1>16, IdleType, StoreType DEF KubeJobExpires
  <2>2. left' \in [Disturbances -> Nat]
    BY <1>16, <1>s DEF KubeJobExpires, Disturbances
  <2> QED BY <1>16, <2>1, <2>2, <1>t, <1>y, <1>p DEF KubeJobExpires
<1>17. ASSUME NEW jobs \in SUBSET Jobs, Stop(jobs) PROVE TypeOK'
  <2> DEFINE spec == [j \in Jobs |-> [batch.spec[j] EXCEPT !.stop =
                        @ \/ (j \in jobs /\ batch.status[j].phase \notin {"Succeeded", "Failed"})]]
  <2>1. spec \in [Jobs -> [stop : BOOLEAN, restart : Nat]]
    BY <1>t DEF Batches
  <2>2. Edit(spec) /\ Spend("stop")
    BY <1>17 DEF Stop
  <2>3. batch' \in Batches /\ edited' \in BOOLEAN /\ left' \in [Disturbances -> Nat]
    <3> HIDE DEF spec
    <3> QED BY <2>1, <2>2, <1>e, <1>s DEF Disturbances
  <2> QED BY <1>17, <2>3, <1>t, <1>y, <1>p DEF Stop
<1>18. ASSUME NEW jobs \in SUBSET Jobs, Restart(jobs) PROVE TypeOK'
  <2>1. PICK now \in {clock, clock + 1} :
          /\ clock' = now
          /\ Edit([j \in Jobs |-> IF j \in jobs THEN [stop |-> FALSE, restart |-> now] ELSE batch.spec[j]])
    BY <1>18 DEF Restart
  <2>2. now \in Nat
    BY <2>1, <1>t
  <2>3. [j \in Jobs |-> IF j \in jobs THEN [stop |-> FALSE, restart |-> now] ELSE batch.spec[j]]
          \in [Jobs -> [stop : BOOLEAN, restart : Nat]]
    BY <2>2, <1>t DEF Batches
  <2>4. batch' \in Batches /\ edited' \in BOOLEAN
    BY <2>1, <2>3, <1>e
  <2>5. left' \in [Disturbances -> Nat]
    BY <1>18, <1>s DEF Restart, Disturbances
  <2> QED BY <1>18, <2>1, <2>2, <2>4, <2>5, <1>t, <1>y, <1>p DEF Restart
<1>19. ASSUME DeleteRD PROVE TypeOK'
  <2>1. left' \in [Disturbances -> Nat]
    BY <1>19, <1>s DEF DeleteRD, Disturbances
  <2> QED BY <1>19, <2>1, <1>t, <1>y, <1>p DEF DeleteRD
<1>20. ASSUME UNCHANGED vars PROVE TypeOK'
  BY <1>20, <1>t, <1>y, <1>p DEF vars
<1>21. ASSUME SyncStep PROVE TypeOK'
  BY <1>21, <1>2, <1>3, <1>4, <1>5, <1>6, <1>7, <1>8, <1>9 DEF SyncStep
<1>22. Requests["stop"] \subseteq SUBSET Jobs /\ Requests["restart"] \subseteq SUBSET Jobs
  BY Constants, Zenon
<1> QED
  BY <1>1, <1>21, <1>10, <1>11, <1>12, <1>13, <1>14, <1>15, <1>16, <1>17, <1>18, <1>19, <1>20, <1>22
  DEF Next, Pods

LEMMA TypeInit == Init => TypeOK
<1> SUFFICES ASSUME Init PROVE TypeOK
  OBVIOUS
<1>1. batch \in Batches /\ kj \in [Jobs -> KubeJobs] /\ left \in [Disturbances -> Nat]
  <2>1. PICK s \in Starts : batch = s.batch /\ kj = s.kj /\ left = s.left
    BY DEF Init
  <2>2. s \in [batch : Batches, kj : [Jobs -> KubeJobs], left : [Disturbances -> Nat]]
    BY <2>1, Constants, Zenon
  <2> QED BY <2>1, <2>2
<1>2. SyncTyped
  BY IdleType DEF Init, SyncTyped
<1>3. results \subseteq Jobs \X Nat \X {"succeeded", "failed"}
  <2>1. ASSUME NEW j \in Jobs
        PROVE  /\ <<j, batch.status[j].restart, IF batch.status[j].phase = "Succeeded" THEN "succeeded" ELSE "failed">>
                    \in Jobs \X Nat \X {"succeeded", "failed"}
               /\ kj[j].state \in {"succeeded", "failed"} =>
                    <<j, kj[j].run, kj[j].state>> \in Jobs \X Nat \X {"succeeded", "failed"}
    BY <1>1 DEF Batches, KubeJobs
  <2>2. results = ResultsOf(batch.status, kj)
    BY DEF Init
  <2> QED BY <2>1, <2>2 DEF ResultsOf
<1> QED BY <1>1, <1>2, <1>3, EmptySeq DEF Init, TypeOK, SyncTyped, SyncRecords

(* The RadixBatch, the Kubernetes Jobs, the watch, the cache and the Sync in
   progress always have their types. *)
THEOREM TypeCorrect == Spec => []TypeOK
<1>1. Init => TypeOK
  BY TypeInit
<1>2. TypeOK /\ [Next]_vars => TypeOK'
  BY TypeStep
<1> QED BY <1>1, <1>2, PTL DEF Spec

-----------------------------------------------------------------------------
(* NoRerun.  A Sync decides by its copy of the batch.  Only a Sync writes the
   statuses, so those of the copy are current; the spec of the copy may be old,
   but a restart is only ever replaced by one that is not older. *)
Ordered(b) == \A j \in Jobs : b.status[j].restart <= b.spec[j].restart

NotNewer(b, c) == \A j \in Jobs : b.spec[j].restart <= c.spec[j].restart

InTime(b, now) == \A j \in Jobs : b.spec[j].restart <= now

CopyInv == sync.pc # "idle" =>
  Ordered(sync.own) /\ NotNewer(sync.own, batch) /\ sync.own.status = batch.status

CreateInv == sync.pc = "create" => RequiresRestart(Current, sync.own)

RerunInv == TypeOK /\ Ordered(batch) /\ InTime(batch, clock) /\ CopyInv /\ CreateInv

NoRerunStep ==
  \A j \in Jobs : kj[j].state = "none" /\ kj'[j].state # "none" =>
    ~IsDone(batch.status[j]) \/ RequiresRestart(j, batch)

LEMMA RerunInit == Init => RerunInv
<1> SUFFICES ASSUME Init PROVE RerunInv
  OBVIOUS
<1>1. TypeOK
  BY TypeInit
<1>2. PICK s \in Starts : batch = s.batch
  BY DEF Init
<1>3. \A j \in Jobs : s.batch.status[j].restart <= s.batch.spec[j].restart /\ s.batch.spec[j].restart <= 1
  BY <1>2, ConstantsAssumption, Zenon
<1>4. Ordered(batch) /\ InTime(batch, clock)
  BY <1>2, <1>3 DEF Init, Ordered, InTime
<1>5. CopyInv /\ CreateInv
  BY IdleType DEF Init, CopyInv, CreateInv
<1> QED BY <1>1, <1>4, <1>5 DEF RerunInv

LEMMA BeginCopies ==
  ASSUME RerunInv, NEW try, Begin(try), batch' = batch
  PROVE  CopyInv' /\ CreateInv'
<1>1. CASE sync' = Idle
  BY <1>1, IdleType DEF CopyInv, CreateInv
<1>2. CASE sync' = [Idle EXCEPT !.pc = "list", !.own = batch, !.tries = try]
  <2>1. sync'.pc = "list" /\ sync'.own = batch
    BY <1>2 DEF Idle
  <2>2. batch \in Batches /\ Ordered(batch)
    BY DEF RerunInv, TypeOK
  <2>3. NotNewer(batch, batch)
    BY <2>2 DEF Batches, NotNewer
  <2> QED BY <2>1, <2>2, <2>3 DEF CopyInv, CreateInv
<1> QED BY <1>1, <1>2 DEF Begin

LEMMA RequeueCopies == ASSUME Requeue PROVE CopyInv' /\ CreateInv'
  BY IdleType DEF Requeue, CopyInv, CreateInv

LEMMA RetryCopies ==
  ASSUME RerunInv, Retry, batch' = batch PROVE CopyInv' /\ CreateInv'
  BY BeginCopies, RequeueCopies DEF Retry

(* A Sync that keeps its copy, and is not about to create, keeps the invariant. *)
LEMMA SameCopy ==
  ASSUME RerunInv, sync.pc # "idle", sync'.own = sync.own, sync'.pc # "create", batch' = batch
  PROVE  CopyInv' /\ CreateInv'
  BY DEF RerunInv, CopyInv, CreateInv

(* What syncStatus stores when the copy's spec is current. *)
LEMMA NewStatusOrdered ==
  ASSUME RerunInv, sync.pc # "idle", NEW cond \in BatchConditions
  PROVE  /\ Ordered(NewStatus) /\ InTime(NewStatus, clock) /\ NotNewer(NewStatus, NewStatus)
         /\ Ordered([sync.own EXCEPT !.cond = cond]) /\ InTime([sync.own EXCEPT !.cond = cond], clock)
<1> USE DEF RerunInv
<1>1. /\ sync.own \in Batches /\ batch \in Batches /\ clock \in Nat
      /\ Ordered(sync.own) /\ NotNewer(sync.own, batch) /\ InTime(batch, clock)
  BY DEF TypeOK, CopyInv
<1>2. InTime(sync.own, clock)
  BY <1>1 DEF InTime, NotNewer, Batches
<1>3. NewStatus \in Batches /\ NewStatus.spec = sync.own.spec
  BY NewStatusType
<1>4. ASSUME NEW j \in Jobs
      PROVE  NewStatus.status[j].restart \in {0, sync.own.status[j].restart, sync.own.spec[j].restart}
  BY BuildType, NewStatusType
<1>5. Ordered(NewStatus)
  <2>1. ASSUME NEW j \in Jobs PROVE NewStatus.status[j].restart <= NewStatus.spec[j].restart
    <3>1. NewStatus.spec[j].restart = sync.own.spec[j].restart
      BY <1>3
    <3>2. sync.own.spec[j].restart \in Nat /\ sync.own.status[j].restart \in Nat
      BY <1>1 DEF Batches
    <3>3. sync.own.status[j].restart <= sync.own.spec[j].restart
      BY <1>1 DEF Ordered
    <3> QED BY <3>1, <3>2, <3>3, <1>4
  <2> QED BY <2>1 DEF Ordered
<1>6. InTime(NewStatus, clock) /\ NotNewer(NewStatus, NewStatus)
  BY <1>2, <1>3 DEF InTime, NotNewer, Batches
<1>7. Ordered([sync.own EXCEPT !.cond = cond]) /\ InTime([sync.own EXCEPT !.cond = cond], clock)
  BY <1>1, <1>2 DEF Ordered, InTime, Batches
<1> QED BY <1>5, <1>6, <1>7

LEMMA RerunStep == RerunInv /\ [Next]_vars => RerunInv' /\ NoRerunStep
<1> SUFFICES ASSUME RerunInv, [Next]_vars PROVE RerunInv' /\ NoRerunStep
  OBVIOUS
<1>t. TypeOK /\ TypeOK'
  BY TypeStep DEF RerunInv
<1>c. ASSUME CopyInv', CreateInv', batch' = batch, clock' = clock, NoRerunStep
      PROVE  RerunInv' /\ NoRerunStep
  BY <1>c, <1>t DEF RerunInv, Ordered, InTime
<1>k. ASSUME \A j \in Jobs : kj[j].state = "none" => kj'[j].state = "none" PROVE NoRerunStep
  BY <1>k DEF NoRerunStep
<1>d. ASSUME NEW j \in Jobs, Delete(j) PROVE NoRerunStep
  BY <1>d, <1>t, <1>k DEF Delete, Store, NoKubeJob, KubeJob, TypeOK
<1>u. ASSUME UNCHANGED <<sync, batch>> PROVE CopyInv' /\ CreateInv'
  BY <1>u DEF RerunInv, CopyInv, CreateInv, Current, RequiresRestart
<1>1. ASSUME StartSync PROVE RerunInv' /\ NoRerunStep
  BY <1>1, BeginCopies, <1>k, <1>c DEF StartSync
<1>2. ASSUME ReconcileList PROVE RerunInv' /\ NoRerunStep
  <2>1. sync'.own = sync.own /\ sync'.pc # "create"
    BY <1>2, <1>t DEF ReconcileList, Fail, TypeOK
  <2> QED BY <1>2, <2>1, SameCopy, <1>k, <1>c DEF ReconcileList
<1>3. ASSUME ReconcileStop PROVE RerunInv' /\ NoRerunStep
  <2>1. SyncTyped /\ sync \in SyncRecords /\ sync.i # 0
    BY <1>3, <1>t DEF ReconcileStop, TypeOK, SyncTyped, SyncRecords
  <2>2. Current \in Jobs /\ sync'.own = sync.own /\ sync'.pc # "create"
    BY <1>3, <2>1, NextJobType, CurrentType DEF ReconcileStop
  <2> QED BY <1>3, <2>2, SameCopy, <1>d, <1>c DEF ReconcileStop
<1>4. ASSUME ReconcileSkip PROVE RerunInv' /\ NoRerunStep
  <2>1. sync \in SyncRecords /\ sync.i # 0
    BY <1>4, <1>t DEF ReconcileSkip, TypeOK, SyncRecords
  <2>2. sync'.own = sync.own /\ sync'.pc # "create"
    BY <1>4, <2>1, NextJobType DEF ReconcileSkip
  <2> QED BY <1>4, <2>2, SameCopy, <1>k, <1>c DEF ReconcileSkip
<1>5. ASSUME ReconcileRestart PROVE RerunInv' /\ NoRerunStep
  <2>1. Current \in Jobs
    BY <1>5, <1>t, CurrentType DEF ReconcileRestart, TypeOK, SyncTyped, SyncRecords
  <2>2. sync'.own = sync.own /\ sync'.i = sync.i /\ sync.pc # "idle"
    BY <1>5, <1>t DEF ReconcileRestart, TypeOK
  <2>3. CopyInv'
    BY <1>5, <2>2 DEF ReconcileRestart, RerunInv, CopyInv
  <2>4. CreateInv'
    BY <1>5, <2>2 DEF ReconcileRestart, CreateInv, Current, RequiresRestart
  <2> QED BY <1>5, <2>1, <2>3, <2>4, <1>d, <1>c DEF ReconcileRestart
<1>6. ASSUME ReconcileCreate PROVE RerunInv' /\ NoRerunStep
  <2>1. SyncTyped /\ sync \in SyncRecords /\ sync.i # 0 /\ sync.pc # "idle"
    BY <1>6, <1>t DEF ReconcileCreate, TypeOK, SyncTyped, SyncRecords
  <2>2. Current \in Jobs /\ sync'.own = sync.own /\ sync'.pc # "create"
    BY <1>6, <2>1, NextJobType, CurrentType DEF ReconcileCreate, Fail, SyncRecords
  <2>3. ASSUME NEW j \in Jobs, kj[j].state = "none", kj'[j].state # "none"
        PROVE  ~IsDone(batch.status[j]) \/ RequiresRestart(j, batch)
    <3>1. j = Current
      BY <1>6, <2>2, <2>3, <1>t DEF ReconcileCreate, Store, TypeOK
    <3>2. CASE sync.pc = "create"
      <4>1. RequiresRestart(j, sync.own)
        BY <3>1, <3>2 DEF RerunInv, CreateInv
      <4>2. /\ sync.own.status[j] = batch.status[j]
            /\ sync.own.status[j].restart <= sync.own.spec[j].restart
            /\ sync.own.spec[j].restart <= batch.spec[j].restart
        BY <2>1 DEF RerunInv, CopyInv, Ordered, NotNewer
      <4>3. /\ sync.own.status[j].restart \in Nat /\ sync.own.spec[j].restart \in Nat
            /\ batch.spec[j].restart \in Nat
        BY <1>t DEF TypeOK, Batches
      <4> QED BY <4>1, <4>2, <4>3 DEF RequiresRestart
    <3>3. CASE sync.pc = "job"
      <4>1. ~IsDone(sync.own.status[j])
        BY <1>6, <3>1, <3>3 DEF ReconcileCreate, NeedsNoJob
      <4> QED BY <4>1, <2>1 DEF RerunInv, CopyInv
    <3> QED BY <1>6, <3>2, <3>3 DEF ReconcileCreate
  <2> QED BY <1>6, <2>1, <2>2, <2>3, SameCopy, <1>c DEF ReconcileCreate, NoRerunStep
<1>7. ASSUME MidStatus PROVE RerunInv' /\ NoRerunStep
  <2>1. NoRerunStep
    BY <1>7, <1>k DEF MidStatus
  <2>2. CASE batch' = NewStatus /\ sync' = NextJob([sync EXCEPT !.own = NewStatus])
    <3> DEFINE s == [sync EXCEPT !.own = NewStatus]
    <3>1. s \in SyncRecords /\ s.i # 0 /\ s.own = NewStatus
      BY <1>7, <1>t, NewStatusType DEF MidStatus, TypeOK, SyncRecords
    <3>2. sync'.own = NewStatus /\ sync'.pc # "create"
      BY <2>2, <3>1, NextJobType
    <3>3. Ordered(NewStatus) /\ InTime(NewStatus, clock) /\ NotNewer(NewStatus, NewStatus)
      BY <1>7, NewStatusOrdered DEF MidStatus, BatchConditions
    <3>4. CopyInv' /\ CreateInv'
      BY <2>2, <3>2, <3>3 DEF CopyInv, CreateInv
    <3>5. Ordered(batch)' /\ InTime(batch, clock)'
      BY <1>7, <2>2, <3>3 DEF MidStatus, Ordered, InTime
    <3> QED BY <2>1, <3>4, <3>5, <1>t DEF RerunInv
  <2>3. CASE UNCHANGED batch /\ Fail("error")
    <3>1. sync'.own = sync.own /\ sync'.pc # "create" /\ sync.pc # "idle"
      BY <1>7, <2>3, <1>t DEF MidStatus, Fail, TypeOK
    <3> QED BY <1>7, <2>1, <2>3, <3>1, SameCopy, <1>c DEF MidStatus
  <2> QED BY <1>7, <2>2, <2>3 DEF MidStatus, Update
<1>8. ASSUME SyncStatus PROVE RerunInv' /\ NoRerunStep
  <2>1. NoRerunStep
    BY <1>8, <1>k DEF SyncStatus
  <2>2. CASE batch' = NewStatus
    <3>1. Ordered(NewStatus) /\ InTime(NewStatus, clock) /\ NotNewer(NewStatus, NewStatus)
      BY <1>8, NewStatusOrdered DEF SyncStatus, BatchConditions
    <3>2. Ordered(batch)' /\ InTime(batch, clock)'
      BY <1>8, <2>2, <3>1 DEF SyncStatus, Ordered, InTime
    <3>3. CASE sync' = [sync EXCEPT !.pc = "condition", !.own = NewStatus]
      <4>1. sync'.own = NewStatus /\ sync'.pc = "condition"
        BY <3>3, <1>t DEF TypeOK
      <4>2. CopyInv' /\ CreateInv'
        BY <2>2, <3>1, <4>1 DEF CopyInv, CreateInv
      <4> QED BY <2>1, <3>2, <4>2, <1>t DEF RerunInv
    <3>4. CASE sync' = Idle
      <4>1. CopyInv' /\ CreateInv'
        BY <3>4, IdleType DEF CopyInv, CreateInv
      <4> QED BY <2>1, <3>2, <4>1, <1>t DEF RerunInv
    <3>5. CASE Retry /\ UNCHANGED batch
      <4>1. CopyInv' /\ CreateInv'
        BY <3>5, RetryCopies
      <4> QED BY <2>1, <3>2, <4>1, <1>t DEF RerunInv
    <3> QED BY <1>8, <3>3, <3>4, <3>5 DEF SyncStatus, Update, Requeue
  <2>3. CASE UNCHANGED batch /\ Retry
    <3>1. CopyInv' /\ CreateInv'
      BY <2>3, RetryCopies
    <3> QED BY <1>8, <2>1, <2>3, <3>1, <1>c DEF SyncStatus
  <2> QED BY <1>8, <2>2, <2>3 DEF SyncStatus, Update
<1>9. ASSUME SyncCondition PROVE RerunInv' /\ NoRerunStep
  <2>1. NoRerunStep
    BY <1>9, <1>k DEF SyncCondition
  <2>2. CASE batch' = [sync.own EXCEPT !.cond = "Waiting"] /\ Requeue
    <3>1. Ordered([sync.own EXCEPT !.cond = "Waiting"]) /\ InTime([sync.own EXCEPT !.cond = "Waiting"], clock)
      BY <1>9, NewStatusOrdered DEF SyncCondition, BatchConditions
    <3>2. Ordered(batch)' /\ InTime(batch, clock)'
      BY <1>9, <2>2, <3>1 DEF SyncCondition, Ordered, InTime
    <3> QED BY <2>1, <2>2, <3>2, <1>t, RequeueCopies DEF RerunInv
  <2>3. CASE UNCHANGED batch /\ Retry
    <3>1. CopyInv' /\ CreateInv'
      BY <2>3, RetryCopies
    <3> QED BY <1>9, <2>1, <2>3, <3>1, <1>c DEF SyncCondition
  <2> QED BY <1>9, <2>2, <2>3 DEF SyncCondition, Update
<1>10. ASSUME SyncFails PROVE RerunInv' /\ NoRerunStep
  <2>1. NoRerunStep
    BY <1>10, <1>k DEF SyncFails
  <2>2. CASE Requeue
    BY <1>10, <2>1, <2>2, RequeueCopies, <1>c DEF SyncFails
  <2>3. CASE sync'.own = sync.own /\ sync'.pc # "create" /\ sync.pc # "idle"
    BY <1>10, <2>1, <2>3, SameCopy, <1>c DEF SyncFails
  <2> QED BY <1>10, <2>2, <2>3, <1>t DEF SyncFails, Fail, TypeOK
<1>11. ASSUME Crash PROVE RerunInv' /\ NoRerunStep
  <2>1. CopyInv' /\ CreateInv' /\ NoRerunStep
    BY <1>11, IdleType, <1>k DEF Crash, CopyInv, CreateInv
  <2> QED BY <1>11, <2>1, <1>c DEF Crash
<1>12. ASSUME DeliverKubeJob \/ DeliverBatch \/ DeleteRD PROVE RerunInv' /\ NoRerunStep
  BY <1>12, <1>u, <1>k, <1>c DEF DeliverKubeJob, DeliverBatch, DeleteRD
<1>13. ASSUME NEW j \in Jobs, PodsStart(j) \/ PodsEnd(j) \/ KubeJobExpires(j)
       PROVE  RerunInv' /\ NoRerunStep
  <2>1. \A i \in Jobs : kj[i].state = "none" => kj'[i].state = "none"
    BY <1>13, <1>t DEF PodsStart, PodsEnd, KubeJobExpires, Store, TypeOK
  <2> QED BY <1>13, <2>1, <1>u, <1>k, <1>c DEF PodsStart, PodsEnd, KubeJobExpires
<1>14. ASSUME NEW spec, Edit(spec), NotNewer(batch, [batch EXCEPT !.spec = spec]),
              InTime([batch EXCEPT !.spec = spec], clock'), sync' = sync
       PROVE  Ordered(batch)' /\ InTime(batch, clock)' /\ CopyInv' /\ CreateInv'
  <2>1. batch \in Batches /\ batch' \in Batches /\ sync.own \in Batches
    BY <1>t DEF TypeOK
  <2>2. batch'.spec = spec /\ batch'.status = batch.status
    BY <1>14, <2>1 DEF Edit, Batches
  <2>3. NotNewer(batch, batch') /\ InTime(batch', clock')
    BY <1>14, <2>1, <2>2 DEF NotNewer, InTime, Batches
  <2>4. Ordered(batch')
    BY <2>1, <2>2, <2>3 DEF RerunInv, Ordered, NotNewer, Batches
  <2>5. NotNewer(sync.own, batch) => NotNewer(sync.own, batch')
    BY <2>1, <2>3 DEF NotNewer, Batches
  <2>6. CopyInv' /\ CreateInv'
    BY <1>14, <2>2, <2>5 DEF RerunInv, CopyInv, CreateInv, Current, RequiresRestart
  <2> QED BY <2>3, <2>4, <2>6 DEF Ordered, InTime
<1>15. ASSUME NEW jobs \in SUBSET Jobs, Stop(jobs) PROVE RerunInv' /\ NoRerunStep
  <2> DEFINE spec == [j \in Jobs |-> [batch.spec[j] EXCEPT !.stop =
                        @ \/ (j \in jobs /\ batch.status[j].phase \notin {"Succeeded", "Failed"})]]
             new == [batch EXCEPT !.spec = spec]
  <2>1. batch \in Batches /\ clock \in Nat
    BY <1>t DEF TypeOK
  <2>2. \A j \in Jobs : new.spec[j].restart = batch.spec[j].restart
    BY <2>1 DEF Batches
  <2>3. NotNewer(batch, new) /\ InTime(new, clock')
    <3> HIDE DEF new
    <3> QED BY <1>15, <2>1, <2>2 DEF RerunInv, NotNewer, InTime, Batches, Stop
  <2>4. Edit(spec) /\ sync' = sync
    BY <1>15 DEF Stop
  <2>5. NoRerunStep
    BY <1>15, <1>k DEF Stop
  <2>6. Ordered(batch)' /\ InTime(batch, clock)' /\ CopyInv' /\ CreateInv'
    <3> HIDE DEF spec
    <3> QED BY <2>3, <2>4, <1>14
  <2> QED BY <2>5, <2>6, <1>t DEF RerunInv
<1>16. ASSUME NEW jobs \in SUBSET Jobs, Restart(jobs) PROVE RerunInv' /\ NoRerunStep
  <2>1. PICK now \in {clock, clock + 1} :
          /\ clock' = now
          /\ Edit([j \in Jobs |-> IF j \in jobs THEN [stop |-> FALSE, restart |-> now] ELSE batch.spec[j]])
    BY <1>16 DEF Restart
  <2> DEFINE spec == [j \in Jobs |-> IF j \in jobs THEN [stop |-> FALSE, restart |-> now] ELSE batch.spec[j]]
             new == [batch EXCEPT !.spec = spec]
  <2>a. batch \in Batches /\ clock \in Nat
    BY <1>t DEF TypeOK
  <2>2. batch \in Batches /\ clock \in Nat /\ now \in Nat /\ clock <= now
    <3>1. now = clock \/ now = clock + 1
      OBVIOUS
    <3> QED BY <3>1, <2>a
  <2>3. \A j \in Jobs : new.spec[j].restart \in {now, batch.spec[j].restart}
    BY <2>2 DEF Batches
  <2>4. NotNewer(batch, new) /\ InTime(new, clock')
    <3> HIDE DEF new
    <3> QED BY <2>1, <2>2, <2>3 DEF RerunInv, NotNewer, InTime, Batches
  <2>5. NoRerunStep /\ sync' = sync
    BY <1>16, <1>k DEF Restart
  <2>6. Ordered(batch)' /\ InTime(batch, clock)' /\ CopyInv' /\ CreateInv'
    <3>1. Edit(spec)
      BY <2>1
    <3> HIDE DEF spec
    <3> QED BY <2>4, <2>5, <3>1, <1>14
  <2> QED BY <2>5, <2>6, <1>t DEF RerunInv
<1>17. ASSUME UNCHANGED vars PROVE RerunInv' /\ NoRerunStep
  BY <1>17, <1>u, <1>k, <1>c DEF vars
<1>18. ASSUME SyncStep PROVE RerunInv' /\ NoRerunStep
  BY <1>18, <1>2, <1>3, <1>4, <1>5, <1>6, <1>7, <1>8, <1>9 DEF SyncStep
<1>19. Requests["stop"] \subseteq SUBSET Jobs /\ Requests["restart"] \subseteq SUBSET Jobs
  BY Constants, Zenon
<1> QED
  BY <1>1, <1>18, <1>10, <1>11, <1>12, <1>13, <1>15, <1>16, <1>17, <1>19 DEF Next, Pods

(* A job that is done is not run again unless a restart is requested that it has
   not had: whatever the cache shows, and whatever fails. *)
THEOREM NoRerunHolds == Spec => NoRerun
<1>1. Init => RerunInv
  BY RerunInit
<1>2. RerunInv /\ [Next]_vars => RerunInv'
  BY RerunStep
<1>3. RerunInv /\ [Next]_vars => [NoRerunStep]_vars
  BY RerunStep
<1>4. NoRerun <=> [][NoRerunStep]_vars
  BY DEF NoRerun, NoRerunStep
<1> QED BY <1>1, <1>2, <1>3, <1>4, PTL DEF Spec

-----------------------------------------------------------------------------
(* ResultIsReal.  A Kubernetes Job that has ended, as it is, was or is yet to be shown in
   the cache, and a status that reports an end, are about a run that ended so. *)
Came(j, end) == \E r \in results : r[1] = j /\ r[3] = end

Honest(j, object) == object.state \in {"succeeded", "failed"} => Came(j, object.state)

Reported(j, phase) ==
  (phase = "Succeeded" => Came(j, "succeeded")) /\ (phase = "Failed" => Came(j, "failed"))

KubeReal ==
  /\ \A j \in Jobs : Honest(j, kj[j]) /\ Honest(j, seen[j])
  /\ \A k \in DOMAIN stream : Honest(stream[k].job, stream[k].object)

StatusReal == \A j \in Jobs : Reported(j, batch.status[j].phase) /\ Reported(j, sync.own.status[j].phase)

(* Where the statuses of a step come from. *)
Known == {batch.status, sync.own.status, Batch0.status, NewStatus.status}

StatusesKnown == batch'.status \in Known /\ sync'.own.status \in Known

LEMMA BuildReal ==
  ASSUME TypeOK, KubeReal, StatusReal, NEW j \in Jobs
  PROVE  Reported(j, BuildBatchJobStatus(j).phase)
<1> DEFINE current == sync.own.status[j]
           status == CASE j \in sync.restarted -> [phase |-> "Waiting", restart |-> sync.own.spec[j].restart]
                       [] j \notin sync.restarted /\ current.phase = "" -> [phase |-> "Waiting", restart |-> 0]
                       [] OTHER -> current
           Fine(s) == s \in [phase : Phases, restart : Nat] /\ Reported(j, s.phase)
<1>1. Fine(current) /\ sync.own.spec[j].restart \in Nat
  BY DEF TypeOK, Batches, StatusReal
<1>2. Fine(status)
  BY <1>1 DEF Phases, Reported
<1>3. KubePhase(seen[j], status.phase) \in Phases /\ Reported(j, KubePhase(seen[j], status.phase))
  <2> HIDE DEF status
  <2> QED BY <1>2 DEF KubePhase, Phases, Reported, KubeReal, Honest
<1>4. "Stopped" \in Phases /\ Reported(j, "Stopped")
  BY DEF Phases, Reported
<1>5. Fine([status EXCEPT !.phase = "Stopped"]) /\ Fine([status EXCEPT !.phase = KubePhase(seen[j], status.phase)])
  <2> HIDE DEF status
  <2> QED BY <1>2, <1>3, <1>4
<1>6. BuildBatchJobStatus(j) =
        CASE j \notin sync.restarted /\ IsDone(current) -> current
          [] StopRequested(j) /\ (j \in sync.restarted \/ ~IsDone(current)) -> [status EXCEPT !.phase = "Stopped"]
          [] OTHER -> [status EXCEPT !.phase = KubePhase(seen[j], status.phase)]
  BY DEF BuildBatchJobStatus
<1>7. Fine(BuildBatchJobStatus(j))
  <2> HIDE DEF status, current, Fine
  <2> QED BY <1>1, <1>5, <1>6
<1> QED BY <1>7

LEMMA KnownReal ==
  ASSUME TypeOK, KubeReal, StatusReal, StatusesKnown, results \subseteq results'
  PROVE  StatusReal'
<1>1. ASSUME NEW status \in Known, NEW j \in Jobs PROVE Reported(j, status[j].phase)
  <2>1. NewStatus.status = [i \in Jobs |-> BuildBatchJobStatus(i)]
    BY NewStatusType
  <2>2. CASE status = NewStatus.status
    BY <2>1, <2>2, BuildReal
  <2>3. CASE status = Batch0.status
    BY <2>3 DEF Batch0, Reported
  <2> QED BY <1>1, <2>2, <2>3 DEF Known, StatusReal
<1>2. \A j \in Jobs : Reported(j, batch'.status[j].phase) /\ Reported(j, sync'.own.status[j].phase)
  BY <1>1 DEF StatusesKnown
<1> QED BY <1>2 DEF StatusReal, Reported, Came

(* Syncs and requests store the statuses they know. *)
LEMMA StatusStep == TypeOK /\ [Next]_vars => StatusesKnown
<1> SUFFICES ASSUME TypeOK, [Next]_vars PROVE StatusesKnown
  OBVIOUS
<1>t. sync \in SyncRecords /\ batch \in Batches /\ Idle \in SyncRecords /\ NewStatus \in Batches
  BY IdleType, NewStatusType DEF TypeOK, SyncRecords
<1>i. ASSUME sync' = Idle, batch'.status \in Known PROVE StatusesKnown
  BY <1>i DEF Idle, StatusesKnown, Known
<1>b. ASSUME NEW try, Begin(try), batch'.status \in Known PROVE StatusesKnown
  <2>1. CASE sync' = [Idle EXCEPT !.pc = "list", !.own = batch, !.tries = try]
    <3>1. sync'.own = batch
      BY <2>1 DEF Idle
    <3> QED BY <1>b, <3>1 DEF StatusesKnown, Known
  <2> QED BY <1>b, <1>i, <2>1 DEF Begin
<1>r. ASSUME Retry, batch'.status \in Known PROVE StatusesKnown
  BY <1>r, <1>b, <1>i DEF Retry, Requeue
<1>s. ASSUME batch' = batch, sync'.own = sync.own PROVE StatusesKnown
  BY <1>s DEF StatusesKnown, Known
<1>f. ASSUME NEW err, Fail(err), batch' = batch PROVE StatusesKnown
  BY <1>f, <1>t, <1>s DEF Fail, SyncRecords
<1>n. ASSUME sync.i # 0, sync' = NextJob(sync), batch' = batch PROVE StatusesKnown
  BY <1>n, <1>t, <1>s, NextJobType
<1>w. batch.status \in Known /\ NewStatus.status \in Known /\ [sync.own EXCEPT !.cond = "Waiting"].status \in Known
  BY <1>t DEF Known, SyncRecords, Batches
<1>1. CASE StartSync
  BY <1>1, <1>b, <1>w DEF StartSync
<1>2. CASE ReconcileList
  BY <1>2, <1>f, <1>s, <1>t DEF ReconcileList, SyncRecords
<1>3. CASE ReconcileStop \/ ReconcileSkip \/ ReconcileRestart \/ ReconcileCreate
  <2>1. sync.i # 0 /\ batch' = batch
    BY <1>3 DEF ReconcileStop, ReconcileSkip, ReconcileRestart, ReconcileCreate, TypeOK
  <2> QED BY <1>3, <2>1, <1>n, <1>f, <1>s, <1>t DEF ReconcileStop, ReconcileSkip, ReconcileRestart,
       ReconcileCreate, SyncRecords
<1>4. CASE MidStatus
  <2>1. CASE UNCHANGED batch /\ Fail("error")
    BY <2>1, <1>f
  <2>2. CASE batch' = NewStatus /\ sync' = NextJob([sync EXCEPT !.own = NewStatus])
    <3>1. PICK s : s = [sync EXCEPT !.own = NewStatus]
      OBVIOUS
    <3>2. s \in SyncRecords /\ s.own = NewStatus /\ s.i # 0
      BY <1>4, <1>t, <3>1 DEF SyncRecords, MidStatus, TypeOK
    <3>3. sync'.own = NewStatus
      BY <2>2, <3>1, <3>2, NextJobType
    <3> QED BY <2>2, <3>3, <1>w DEF StatusesKnown
  <2> QED BY <1>4, <2>1, <2>2 DEF MidStatus, Update
<1>5. CASE SyncStatus
  <2>1. batch' \in {batch, NewStatus}
    BY <1>5 DEF SyncStatus, Update
  <2>2. batch'.status \in Known
    BY <2>1, <1>w
  <2>3. CASE sync' = [sync EXCEPT !.pc = "condition", !.own = NewStatus]
    BY <2>2, <2>3, <1>t, <1>w DEF StatusesKnown, SyncRecords
  <2> QED BY <1>5, <2>2, <2>3, <1>i, <1>r DEF SyncStatus, Update, Requeue
<1>6. CASE SyncCondition
  BY <1>6, <1>w, <1>i, <1>r DEF SyncCondition, Update, Requeue
<1>7. CASE SyncFails
  BY <1>7, <1>f, <1>w, <1>i, <1>s, <1>t DEF SyncFails, Requeue, SyncRecords
<1>8. CASE Crash
  BY <1>8, <1>w, <1>i DEF Crash
<1>9. CASE UNCHANGED <<batch, sync>>
  BY <1>9, <1>s
<1>10. ASSUME NEW spec, Edit(spec), UNCHANGED sync PROVE StatusesKnown
  <2>1. batch'.status = batch.status
    BY <1>10, <1>t DEF Edit, Batches
  <2> QED BY <1>10, <2>1 DEF StatusesKnown, Known
<1>11. ASSUME NEW jobs, Stop(jobs) PROVE StatusesKnown
  BY <1>11, <1>10 DEF Stop
<1>12. ASSUME NEW jobs, Restart(jobs) PROVE StatusesKnown
  BY <1>12, <1>10 DEF Restart
<1> QED BY <1>1, <1>2, <1>3, <1>4, <1>5, <1>6, <1>7, <1>8, <1>9, <1>11, <1>12
     DEF Next, SyncStep, Pods, PodsStart, PodsEnd, KubeJobExpires, DeliverKubeJob, DeliverBatch, DeleteRD, vars

(* Kubernetes Jobs end in runs that are recorded, and are stored, listed and delivered as
   they are. *)
LEMMA KubeStep == TypeOK /\ KubeReal /\ [Next]_vars => KubeReal' /\ results \subseteq results'
<1> SUFFICES ASSUME TypeOK, KubeReal, [Next]_vars PROVE KubeReal' /\ results \subseteq results'
  OBVIOUS
<1>t. kj \in [Jobs -> KubeJobs] /\ seen \in [Jobs -> KubeJobs] /\ stream \in Seq(Changes)
  BY DEF TypeOK, Changes
<1>u. ASSUME UNCHANGED <<kj, seen, stream, results>> PROVE KubeReal' /\ results \subseteq results'
  BY <1>u DEF KubeReal, Honest, Came
<1>s. ASSUME NEW j \in Jobs, NEW new \in KubeJobs, Store(j, new), UNCHANGED seen, results \subseteq results',
             Honest(j, new)'
      PROVE  KubeReal' /\ results \subseteq results'
  <2>1. PICK change : change = [job |-> j, object |-> new]
    OBVIOUS
  <2>2. /\ kj'[j] = new /\ \A i \in Jobs \ {j} : kj'[i] = kj[i]
        /\ stream' = Append(stream, change) /\ change.job = j /\ change.object = new /\ change \in Changes
    BY <1>s, <1>t, <2>1 DEF Store, Changes
  <2>3. ASSUME NEW k \in DOMAIN stream' PROVE stream'[k] = change \/ (k \in DOMAIN stream /\ stream'[k] = stream[k])
    <3>1. /\ DOMAIN stream' = 1..(Len(stream) + 1) /\ DOMAIN stream = 1..Len(stream) /\ Len(stream) \in Nat
          /\ \A i \in 1..Len(stream) : stream'[i] = stream[i]
          /\ stream'[Len(stream) + 1] = change
      BY <1>t, <2>2, AppendProperties, LenProperties
    <3> QED BY <3>1
  <2>4. ASSUME NEW i, NEW object, Honest(i, object) PROVE Honest(i, object)'
    BY <1>s, <2>4 DEF Honest, Came
  <2>5. \A i \in Jobs : Honest(i, kj[i])' /\ Honest(i, seen[i])'
    BY <1>s, <2>2 DEF KubeReal, Honest, Came
  <2>6. \A k \in DOMAIN stream' : Honest(stream[k].job, stream[k].object)'
    BY <1>s, <2>2, <2>3 DEF KubeReal, Honest, Came
  <2> QED BY <1>s, <2>5, <2>6 DEF KubeReal
<1>n. ASSUME NEW j \in Jobs, Store(j, NoKubeJob), UNCHANGED <<seen, results>>
      PROVE  KubeReal' /\ results \subseteq results'
  BY <1>n, <1>s, IdleType DEF NoKubeJob, KubeJob, Honest
<1>c. sync.pc \in {"job", "create"} => Current \in Jobs
  BY CurrentType DEF TypeOK, SyncTyped, SyncRecords
<1>1. CASE DeliverKubeJob
  <2>1. PICK change \in Changes : /\ change = Head(stream) /\ stream # <<>>
                                  /\ seen' = [seen EXCEPT ![change.job] = change.object]
                                  /\ stream' = Tail(stream) /\ UNCHANGED <<kj, results>>
    BY <1>1, <1>t, HeadTailProperties DEF DeliverKubeJob
  <2>2. /\ 1 \in DOMAIN stream /\ change = stream[1]
        /\ \A k \in DOMAIN stream' : k + 1 \in DOMAIN stream /\ stream'[k] = stream[k + 1]
    BY <1>t, <2>1, HeadTailProperties, EmptySeq, LenProperties
  <2>3. Honest(change.job, change.object) /\ change.job \in Jobs
    BY <2>1, <2>2 DEF KubeReal, Changes
  <2>4. \A i \in Jobs : Honest(i, kj[i])' /\ Honest(i, seen[i])'
    BY <1>t, <2>1, <2>3 DEF KubeReal, Honest, Came
  <2>5. \A k \in DOMAIN stream' : Honest(stream[k].job, stream[k].object)'
    BY <2>1, <2>2 DEF KubeReal, Honest, Came
  <2> QED BY <2>1, <2>4, <2>5 DEF KubeReal
<1>2. CASE Crash
  <2>1. seen' = kj /\ stream' = <<>> /\ UNCHANGED <<kj, results>>
    BY <1>2 DEF Crash
  <2> QED BY <2>1 DEF KubeReal, Honest, Came
<1>3. ASSUME NEW j \in Jobs, PodsStart(j) PROVE KubeReal' /\ results \subseteq results'
  <2>1. PICK new : new = [kj[j] EXCEPT !.state = "active"]
    OBVIOUS
  <2>2. new \in KubeJobs /\ new.state = "active"
    BY <1>t, <2>1 DEF KubeJobs, KubeJobStates
  <2> QED BY <1>3, <1>s, <2>1, <2>2 DEF PodsStart, Honest
<1>4. ASSUME NEW j \in Jobs, PodsEnd(j) PROVE KubeReal' /\ results \subseteq results'
  <2>1. PICK end \in Ends[j] : /\ Store(j, [kj[j] EXCEPT !.state = end]) /\ UNCHANGED seen
                               /\ results' = results \cup {<<j, kj[j].run, end>>}
    BY <1>4 DEF PodsEnd
  <2>2. PICK new : new = [kj[j] EXCEPT !.state = end]
    OBVIOUS
  <2>3. end \in {"succeeded", "failed"}
    BY Constants, <2>1
  <2>4. new \in KubeJobs /\ new.state = end
    BY <1>t, <2>2, <2>3 DEF KubeJobs, KubeJobStates
  <2>5. Came(j, end)'
    <3>1. <<j, kj[j].run, end>> \in results'
      BY <2>1
    <3> QED BY <3>1 DEF Came
  <2> QED BY <1>s, <2>1, <2>2, <2>4, <2>5 DEF Honest
<1>5. ASSUME NEW j \in Jobs, KubeJobExpires(j) PROVE KubeReal' /\ results \subseteq results'
  BY <1>5, <1>n DEF KubeJobExpires
<1>6. CASE ReconcileStop \/ ReconcileRestart
  <2>1. Delete(Current) /\ Current \in Jobs /\ UNCHANGED <<seen, results>>
    BY <1>6, <1>c DEF ReconcileStop, ReconcileRestart
  <2> QED BY <2>1, <1>n, <1>u DEF Delete
<1>7. CASE ReconcileCreate
  <2>1. PICK new : new = KubeJob("pending", sync.own.spec[Current].restart)
    OBVIOUS
  <2>2. Current \in Jobs /\ UNCHANGED <<seen, results>>
    BY <1>7, <1>c DEF ReconcileCreate
  <2>3. new \in KubeJobs /\ new.state = "pending"
    BY <2>1, <2>2 DEF KubeJob, KubeJobs, KubeJobStates, TypeOK, Batches
  <2> QED BY <1>7, <1>s, <1>u, <2>1, <2>2, <2>3 DEF ReconcileCreate, Honest
<1>8. CASE UNCHANGED <<kj, seen, stream, results>>
  BY <1>8, <1>u
<1> QED BY <1>1, <1>2, <1>3, <1>4, <1>5, <1>6, <1>7, <1>8 DEF Next, SyncStep, Pods, StartSync, ReconcileList,
     ReconcileSkip, MidStatus, SyncStatus, SyncCondition, SyncFails, DeliverBatch, Stop, Restart, DeleteRD, vars

(* A reported result is the end of a run of that job, however late the cache is, whatever
   is deleted, and however often Syncs are refused or cut off (buildBatchJobStatus). *)
THEOREM ResultIsRealHolds == Spec => []ResultIsReal
<1>1. Init => KubeReal /\ StatusReal
  <2> SUFFICES ASSUME Init PROVE KubeReal /\ StatusReal
    OBVIOUS
  <2>1. /\ seen = kj /\ stream = <<>> /\ sync.own = Batch0
        /\ results = ResultsOf(batch.status, kj)
    BY DEF Init, Idle
  <2>2. ASSUME NEW j \in Jobs, kj[j].state \in {"succeeded", "failed"} PROVE Came(j, kj[j].state)
    <3>1. <<j, kj[j].run, kj[j].state>> \in results
      BY <2>1, <2>2 DEF ResultsOf
    <3> QED BY <3>1 DEF Came
  <2>3. ASSUME NEW j \in Jobs PROVE Reported(j, batch.status[j].phase)
    <3>1. batch.status[j].phase \in {"Succeeded", "Failed"} =>
            <<j, batch.status[j].restart, IF batch.status[j].phase = "Succeeded" THEN "succeeded" ELSE "failed">>
              \in results
      BY <2>1 DEF ResultsOf
    <3> QED BY <3>1 DEF Reported, Came
  <2>4. ASSUME NEW j \in Jobs PROVE Reported(j, sync.own.status[j].phase)
    <3>1. sync.own.status = Batch0.status
      BY <2>1
    <3>2. Batch0.status[j].phase \notin {"Succeeded", "Failed"}
      BY DEF Batch0
    <3> QED BY <3>1, <3>2 DEF Reported
  <2>5. KubeReal
    BY <2>1, <2>2 DEF KubeReal, Honest
  <2> QED BY <2>3, <2>4, <2>5 DEF StatusReal
<1>2. TypeOK /\ KubeReal /\ StatusReal /\ [Next]_vars => KubeReal' /\ StatusReal'
  BY KubeStep, StatusStep, KnownReal
<1>3. StatusReal => ResultIsReal
  BY DEF StatusReal, ResultIsReal, Reported, Came
<1> QED BY <1>1, <1>2, <1>3, TypeCorrect, PTL DEF Spec

-----------------------------------------------------------------------------
(* NothingForgotten.  What the watch has yet to deliver.  Only the creation of a
   Kubernetes Job is no event, so what counts is whether anything else is to come. *)
Coming(j) == \E k \in DOMAIN stream : stream[k].job = j /\ stream[k].object.state # "pending"

Creation(s, j, from, to) ==
  \E k \in DOMAIN s : from < k /\ k < to /\ s[k].job = j /\ s[k].object.state = "pending"

(* When nothing but creations is to come, the cache has the Kubernetes Job's state. *)
UpToDate == \A j \in Jobs : Coming(j) \/ kj[j].state \in {seen[j].state, "pending"}

LastIsStored ==
  \A k \in DOMAIN stream :
    \/ \E n \in DOMAIN stream : n > k /\ stream[n].job = stream[k].job /\ stream[n].object.state # "pending"
    \/ kj[stream[k].job].state \in {stream[k].object.state, "pending"}

(* Between a deletion and what else happens to a Kubernetes Job of that name is a creation. *)
CreatedAfter ==
  /\ \A j \in Jobs : seen[j].state = "none" /\ kj[j].state # "none" => Creation(stream, j, 0, Len(stream) + 1)
  /\ \A n \in DOMAIN stream : stream[n].object.state = "none" /\ kj[stream[n].job].state # "none" =>
       Creation(stream, stream[n].job, n, Len(stream) + 1)

CreatedBefore ==
  \A k \in DOMAIN stream : stream[k].object.state # "pending" =>
    /\ seen[stream[k].job].state = "none" => Creation(stream, stream[k].job, 0, k)
    /\ \A n \in DOMAIN stream : n < k /\ stream[n].job = stream[k].job /\ stream[n].object.state = "none" =>
         Creation(stream, stream[k].job, n, k)

WatchInv == UpToDate /\ LastIsStored /\ CreatedAfter /\ CreatedBefore

(* The Sync will see the Kubernetes Job of j, or what becomes of it. *)
Tracked(j) == seen[j].state # "none" \/ kj[j].state # "none" \/ Coming(j)

(* The steps of Kubernetes Jobs and their watch. *)
Stored == \E j \in Jobs, new \in KubeJobs :
  Store(j, new) /\ UNCHANGED seen /\ (new.state = "pending" \/ kj[j].state # "none")

Listed == seen' = kj /\ stream' = <<>> /\ UNCHANGED kj /\ pending'

LEMMA KubeCases ==
  TypeOK /\ [Next]_vars => Stored \/ DeliverKubeJob \/ Listed \/ UNCHANGED <<kj, seen, stream>>
<1> SUFFICES ASSUME TypeOK, [Next]_vars
             PROVE  Stored \/ DeliverKubeJob \/ Listed \/ UNCHANGED <<kj, seen, stream>>
  OBVIOUS
<1>t. kj \in [Jobs -> KubeJobs] /\ (sync.pc \in {"job", "create"} => Current \in Jobs)
  BY CurrentType DEF TypeOK, SyncTyped, SyncRecords
<1>n. ASSUME NEW j \in Jobs, Delete(j), UNCHANGED seen PROVE Stored \/ UNCHANGED <<kj, seen, stream>>
  BY <1>n, IdleType DEF Delete, Stored
<1>1. ASSUME NEW j \in Jobs, PodsStart(j) PROVE Stored
  <2>1. [kj[j] EXCEPT !.state = "active"] \in KubeJobs
    BY <1>t DEF KubeJobs, KubeJobStates
  <2> QED BY <1>1, <2>1 DEF PodsStart, Stored
<1>2. ASSUME NEW j \in Jobs, PodsEnd(j) PROVE Stored
  <2>1. PICK end \in Ends[j] : Store(j, [kj[j] EXCEPT !.state = end])
    BY <1>2 DEF PodsEnd
  <2>2. end \in {"succeeded", "failed"}
    BY Constants, <2>1
  <2>3. [kj[j] EXCEPT !.state = end] \in KubeJobs
    BY <1>t, <2>2 DEF KubeJobs, KubeJobStates
  <2> QED BY <1>2, <2>1, <2>3 DEF PodsEnd, Stored
<1>3. ASSUME NEW j \in Jobs, KubeJobExpires(j) PROVE Stored
  BY <1>3, IdleType DEF KubeJobExpires, Stored
<1>4. CASE ReconcileStop \/ ReconcileRestart
  BY <1>4, <1>t, <1>n DEF ReconcileStop, ReconcileRestart
<1>5. CASE ReconcileCreate
  <2>1. PICK new : new = KubeJob("pending", sync.own.spec[Current].restart)
    OBVIOUS
  <2>2. Current \in Jobs /\ UNCHANGED seen
    BY <1>5, <1>t DEF ReconcileCreate
  <2>3. new \in KubeJobs /\ new.state = "pending"
    BY <2>1, <2>2 DEF KubeJob, KubeJobs, KubeJobStates, TypeOK, Batches
  <2> QED BY <1>5, <2>1, <2>2, <2>3 DEF ReconcileCreate, Stored
<1>6. CASE Crash
  BY <1>6 DEF Crash, Listed
<1> QED BY <1>1, <1>2, <1>3, <1>4, <1>5, <1>6 DEF Next, SyncStep, Pods, StartSync, ReconcileList,
     ReconcileSkip, MidStatus, SyncStatus, SyncCondition, SyncFails, DeliverBatch, Stop, Restart, DeleteRD, vars

(* The stream one change longer, and one shorter. *)
LEMMA Longer ==
  ASSUME TypeOK, NEW j \in Jobs, NEW new \in KubeJobs, Store(j, new)
  PROVE  /\ Len(stream) \in Nat /\ DOMAIN stream = 1..Len(stream)
         /\ Len(stream') = Len(stream) + 1 /\ DOMAIN stream' = 1..(Len(stream) + 1)
         /\ \A k \in 1..Len(stream) : stream'[k] = stream[k] /\ stream[k].job \in Jobs
         /\ stream'[Len(stream) + 1].job = j /\ stream'[Len(stream) + 1].object = new
         /\ kj'[j] = new /\ \A i \in Jobs \ {j} : kj'[i] = kj[i]
<1>1. PICK change : change = [job |-> j, object |-> new]
  OBVIOUS
<1>2. change.job = j /\ change.object = new /\ change \in Changes
  BY <1>1 DEF Changes
<1>3. stream \in Seq(Changes) /\ stream' = Append(stream, change)
  BY <1>1 DEF Store, TypeOK, Changes
<1>4. /\ Len(stream) \in Nat /\ DOMAIN stream = 1..Len(stream)
      /\ Len(stream') = Len(stream) + 1 /\ DOMAIN stream' = 1..(Len(stream) + 1)
      /\ \A k \in 1..Len(stream) : stream'[k] = stream[k] /\ stream[k] \in Changes
      /\ stream'[Len(stream) + 1] = change
  BY <1>2, <1>3, AppendProperties, LenProperties, ElementOfSeq
<1>5. kj'[j] = new /\ \A i \in Jobs \ {j} : kj'[i] = kj[i]
  BY DEF Store, TypeOK
<1> QED BY <1>2, <1>4, <1>5 DEF Changes

LEMMA Shorter ==
  ASSUME TypeOK, DeliverKubeJob
  PROVE  /\ Len(stream) \in Nat \ {0} /\ DOMAIN stream = 1..Len(stream)
         /\ Len(stream') = Len(stream) - 1 /\ DOMAIN stream' = 1..(Len(stream) - 1)
         /\ \A k \in 1..(Len(stream) - 1) : stream'[k] = stream[k + 1]
         /\ \A k \in 2..Len(stream) : k - 1 \in 1..(Len(stream) - 1) /\ stream'[k - 1] = stream[k]
         /\ \A k \in 1..Len(stream) : stream[k].job \in Jobs
         /\ seen'[stream[1].job] = stream[1].object
         /\ \A i \in Jobs \ {stream[1].job} : seen'[i] = seen[i]
         /\ kj' = kj /\ pending' = (pending \/ Notified(seen[stream[1].job], stream[1].object))
<1>1. stream \in Seq(Changes) /\ stream # <<>> /\ stream' = Tail(stream) /\ seen \in [Jobs -> KubeJobs]
  BY DEF DeliverKubeJob, TypeOK, Changes
<1>2. /\ Len(stream) \in Nat \ {0} /\ DOMAIN stream = 1..Len(stream) /\ Head(stream) = stream[1]
      /\ Len(stream') = Len(stream) - 1 /\ DOMAIN stream' = 1..(Len(stream) - 1)
      /\ \A k \in 1..(Len(stream) - 1) : stream'[k] = stream[k + 1]
      /\ \A k \in 1..Len(stream) : stream[k] \in Changes
  BY <1>1, HeadTailProperties, LenProperties, ElementOfSeq, EmptySeq
<1>3. /\ 1 \in 1..Len(stream)
      /\ \A k \in 2..Len(stream) : k - 1 \in 1..(Len(stream) - 1) /\ (k - 1) + 1 = k
  BY <1>2
<1>4. \A k \in 1..Len(stream) : stream[k].job \in Jobs
  BY <1>2 DEF Changes
<1> QED BY <1>1, <1>2, <1>3, <1>4 DEF DeliverKubeJob

LEMMA WatchStored == ASSUME TypeOK, WatchInv, Stored PROVE WatchInv'
<1>1. PICK j \in Jobs, new \in KubeJobs :
        Store(j, new) /\ UNCHANGED seen /\ (new.state = "pending" \/ kj[j].state # "none")
  BY DEF Stored
<1> DEFINE L == Len(stream)
<1>2. /\ L \in Nat /\ DOMAIN stream = 1..L /\ Len(stream') = L + 1 /\ DOMAIN stream' = 1..(L + 1)
      /\ \A k \in 1..L : stream'[k] = stream[k] /\ stream[k].job \in Jobs
      /\ stream'[L + 1].job = j /\ stream'[L + 1].object = new
      /\ kj'[j] = new /\ \A i \in Jobs \ {j} : kj'[i] = kj[i]
  BY <1>1, Longer
<1> HIDE DEF L
<1>3. UpToDate'
  BY <1>1, <1>2 DEF WatchInv, UpToDate, Coming
<1>4. LastIsStored'
  BY <1>1, <1>2 DEF WatchInv, LastIsStored
<1>c. ASSUME NEW i, NEW from, NEW to, Creation(stream, i, from, to) PROVE Creation(stream', i, from, to)
  BY <1>c, <1>2 DEF Creation
<1>k. ASSUME NEW from \in 0..L, new.state = "pending" PROVE Creation(stream', j, from, L + 2)
  BY <1>k, <1>2 DEF Creation
<1>w. ASSUME NEW i, NEW from, Creation(stream, i, from, L + 1) PROVE Creation(stream', i, from, L + 2)
  BY <1>w, <1>2 DEF Creation
<1>l. L = Len(stream) /\ (L + 1) + 1 = L + 2 /\ L + 1 \in 1..(L + 1)
  BY <1>2 DEF L
<1>5. CreatedAfter'
  <2>1. ASSUME NEW i \in Jobs, seen'[i].state = "none", kj'[i].state # "none"
        PROVE  Creation(stream', i, 0, L + 2)
    BY <1>1, <1>2, <1>k, <1>w, <1>l, <2>1 DEF WatchInv, CreatedAfter
  <2>2. ASSUME NEW n \in 1..(L + 1), stream'[n].object.state = "none", kj'[stream'[n].job].state # "none"
        PROVE  Creation(stream', stream'[n].job, n, L + 2)
    <3>1. n \in 1..L /\ n \in 0..L /\ stream'[n] = stream[n]
      BY <1>2, <2>2
    <3>2. CASE stream[n].job = j /\ new.state = "pending"
      BY <1>k, <3>1, <3>2
    <3>3. CASE ~(stream[n].job = j /\ new.state = "pending")
      <4>1. Creation(stream, stream[n].job, n, L + 1)
        BY <1>1, <1>2, <1>l, <2>2, <3>1, <3>3 DEF WatchInv, CreatedAfter
      <4> QED BY <1>w, <3>1, <4>1
    <3> QED BY <3>2, <3>3
  <2> QED BY <1>2, <1>l, <2>1, <2>2 DEF CreatedAfter
<1>6. CreatedBefore'
  <2> SUFFICES ASSUME NEW k \in 1..(L + 1), stream'[k].object.state # "pending"
               PROVE  /\ seen[stream'[k].job].state = "none" => Creation(stream', stream'[k].job, 0, k)
                      /\ \A n \in 1..(L + 1) :
                           n < k /\ stream'[n].job = stream'[k].job /\ stream'[n].object.state = "none" =>
                             Creation(stream', stream'[k].job, n, k)
    BY <1>1, <1>2 DEF CreatedBefore
  <2>1. CASE k \in 1..L
    <3>1. stream'[k] = stream[k] /\ \A n \in 1..(L + 1) : n < k => n \in 1..L /\ stream'[n] = stream[n]
      BY <1>2, <2>1
    <3> QED BY <1>2, <1>c, <2>1, <3>1 DEF WatchInv, CreatedBefore
  <2>2. CASE k = L + 1
    <3>1. stream'[k].job = j /\ kj[j].state # "none"
      BY <1>1, <1>2, <2>2
    <3>2. \A n \in 1..(L + 1) : n < k => n \in 1..L /\ stream'[n] = stream[n]
      BY <1>2, <2>2
    <3> QED BY <1>2, <1>c, <1>l, <2>2, <3>1, <3>2 DEF WatchInv, CreatedAfter
  <2> QED BY <1>2, <2>1, <2>2
<1> QED BY <1>3, <1>4, <1>5, <1>6 DEF WatchInv

LEMMA WatchDelivers == ASSUME TypeOK, WatchInv, DeliverKubeJob PROVE WatchInv'
<1> DEFINE L == Len(stream)
<1>2. /\ L \in Nat \ {0} /\ DOMAIN stream = 1..L /\ Len(stream') = L - 1 /\ DOMAIN stream' = 1..(L - 1)
      /\ \A k \in 1..(L - 1) : stream'[k] = stream[k + 1]
      /\ \A k \in 1..L : stream[k].job \in Jobs
      /\ seen'[stream[1].job] = stream[1].object
      /\ \A i \in Jobs \ {stream[1].job} : seen'[i] = seen[i]
      /\ kj' = kj
  BY Shorter
<1>l. L = Len(stream)
  OBVIOUS
<1> HIDE DEF L
<1>m. \A k \in 2..L : k - 1 \in 1..(L - 1) /\ stream'[k - 1] = stream[k]
  BY Shorter, <1>l
<1>3. UpToDate'
  <2> SUFFICES ASSUME NEW j \in Jobs, ~Coming(j)' PROVE kj[j].state \in {seen'[j].state, "pending"}
    BY <1>2 DEF UpToDate
  <2>1. \A k \in 2..L : stream[k].job = j => stream[k].object.state = "pending"
    BY <1>2, <1>m DEF Coming
  <2>2. CASE j = stream[1].job
    BY <1>2, <2>1, <2>2 DEF WatchInv, LastIsStored
  <2>3. CASE j # stream[1].job
    BY <1>2, <2>1, <2>3 DEF WatchInv, UpToDate, Coming
  <2> QED BY <2>2, <2>3
<1>4. LastIsStored'
  <2> SUFFICES ASSUME NEW k \in 1..(L - 1)
               PROVE  \/ \E n \in 1..(L - 1) : n > k /\ stream'[n].job = stream'[k].job /\ stream'[n].object.state # "pending"
                      \/ kj[stream'[k].job].state \in {stream'[k].object.state, "pending"}
    BY <1>2 DEF LastIsStored
  <2>1. stream'[k] = stream[k + 1] /\ k + 1 \in 1..L
    BY <1>2
  <2>2. ASSUME NEW n \in 1..L, n > k + 1, stream[n].job = stream[k + 1].job, stream[n].object.state # "pending"
        PROVE  /\ n - 1 \in 1..(L - 1) /\ n - 1 > k
               /\ stream'[n - 1].job = stream'[k].job /\ stream'[n - 1].object.state # "pending"
    <3>1. n \in 2..L /\ n - 1 > k
      BY <1>2, <2>2
    <3> QED BY <1>m, <2>1, <2>2, <3>1
  <2>3. \/ \E n \in 1..L : n > k + 1 /\ stream[n].job = stream[k + 1].job /\ stream[n].object.state # "pending"
        \/ kj[stream[k + 1].job].state \in {stream[k + 1].object.state, "pending"}
    BY <1>2, <2>1 DEF WatchInv, LastIsStored
  <2> QED BY <1>2, <2>1, <2>2, <2>3
<1>c. ASSUME NEW i, NEW from \in 0..L, NEW to \in 1..L, from > 0 \/ i # stream[1].job,
             Creation(stream, i, from, to + 1)
      PROVE  Creation(stream', i, IF from = 0 THEN 0 ELSE from - 1, to)
  <2>1. PICK k \in 1..L : from < k /\ k < to + 1 /\ stream[k].job = i /\ stream[k].object.state = "pending"
    BY <1>c, <1>2 DEF Creation
  <2>2. k \in 2..L /\ (from > 0 => from - 1 < k - 1) /\ k - 1 < to /\ 0 < k - 1
    BY <1>c, <1>2, <2>1
  <2>3. k - 1 \in 1..(L - 1) /\ stream'[k - 1].job = i /\ stream'[k - 1].object.state = "pending"
    BY <1>m, <2>1, <2>2
  <2>4. CASE from = 0
    BY <1>2, <2>2, <2>3, <2>4 DEF Creation
  <2>5. CASE from > 0
    BY <1>2, <2>2, <2>3, <2>5 DEF Creation
  <2> QED BY <1>2, <2>4, <2>5
<1>d. ASSUME NEW i, NEW n \in 1..(L - 1), NEW to \in 1..L, Creation(stream, i, n + 1, to + 1)
      PROVE  Creation(stream', i, n, to)
  BY <1>c, <1>d, <1>2
<1>0. ASSUME NEW i, NEW to \in 1..L, Creation(stream, i, IF i = stream[1].job THEN 1 ELSE 0, to + 1)
      PROVE  Creation(stream', i, 0, to)
  BY <1>0, <1>c, <1>2
<1>n. 1 \in 1..L /\ L \in 1..L /\ (L - 1) + 1 = L /\ \A k \in 1..(L - 1) : k \in 1..L /\ k + 1 \in 1..L
  BY <1>2
<1>5. CreatedAfter'
  <2>1. ASSUME NEW j \in Jobs, seen'[j].state = "none", kj[j].state # "none" PROVE Creation(stream', j, 0, L)
    <3>1. Creation(stream, j, IF j = stream[1].job THEN 1 ELSE 0, L + 1)
      BY <1>2, <1>l, <1>n, <2>1 DEF WatchInv, CreatedAfter
    <3> QED BY <1>0, <1>n, <3>1
  <2>2. ASSUME NEW n \in 1..(L - 1), stream'[n].object.state = "none", kj[stream'[n].job].state # "none"
        PROVE  Creation(stream', stream'[n].job, n, L)
    <3>1. Creation(stream, stream[n + 1].job, n + 1, L + 1)
      BY <1>2, <1>l, <1>n, <2>2 DEF WatchInv, CreatedAfter
    <3> QED BY <1>2, <1>d, <1>n, <3>1
  <2> QED BY <1>2, <1>l, <1>n, <2>1, <2>2 DEF CreatedAfter
<1>6. CreatedBefore'
  <2> SUFFICES ASSUME NEW k \in 1..(L - 1), stream'[k].object.state # "pending"
               PROVE  /\ seen'[stream'[k].job].state = "none" => Creation(stream', stream'[k].job, 0, k)
                      /\ \A n \in 1..(L - 1) :
                           n < k /\ stream'[n].job = stream'[k].job /\ stream'[n].object.state = "none" =>
                             Creation(stream', stream'[k].job, n, k)
    BY <1>2 DEF CreatedBefore
  <2>1. stream'[k] = stream[k + 1] /\ k + 1 \in 1..L /\ k \in 1..L /\ 1 < k + 1
    BY <1>2
  <2>2. ASSUME seen'[stream'[k].job].state = "none" PROVE Creation(stream', stream'[k].job, 0, k)
    <3>1. Creation(stream, stream[k + 1].job, IF stream[k + 1].job = stream[1].job THEN 1 ELSE 0, k + 1)
      <4>1. CASE stream[k + 1].job = stream[1].job
        BY <1>2, <1>n, <2>1, <2>2, <4>1 DEF WatchInv, CreatedBefore
      <4>2. CASE stream[k + 1].job # stream[1].job
        BY <1>2, <1>n, <2>1, <2>2, <4>2 DEF WatchInv, CreatedBefore
      <4> QED BY <4>1, <4>2
    <3> QED BY <1>0, <2>1, <3>1
  <2>3. ASSUME NEW n \in 1..(L - 1), n < k, stream'[n].job = stream'[k].job, stream'[n].object.state = "none"
        PROVE  Creation(stream', stream'[k].job, n, k)
    <3>1. stream'[n] = stream[n + 1] /\ n + 1 \in 1..L /\ n + 1 < k + 1
      BY <1>2, <2>3
    <3>2. Creation(stream, stream[k + 1].job, n + 1, k + 1)
      BY <1>2, <2>1, <2>3, <3>1 DEF WatchInv, CreatedBefore
    <3> QED BY <1>d, <2>1, <3>2
  <2> QED BY <2>2, <2>3
<1> QED BY <1>3, <1>4, <1>5, <1>6 DEF WatchInv

LEMMA WatchStep == TypeOK /\ WatchInv /\ [Next]_vars => WatchInv'
<1> SUFFICES ASSUME TypeOK, WatchInv, [Next]_vars PROVE WatchInv'
  OBVIOUS
<1>1. CASE Listed
  <2>1. DOMAIN stream' = {} /\ kj' = kj /\ seen' = kj
    BY <1>1 DEF Listed
  <2> QED BY <2>1 DEF WatchInv, UpToDate, LastIsStored, CreatedAfter, CreatedBefore
<1>2. CASE UNCHANGED <<kj, seen, stream>>
  BY <1>2 DEF WatchInv, UpToDate, LastIsStored, CreatedAfter, CreatedBefore, Coming, Creation
<1> QED BY <1>1, <1>2, WatchStored, WatchDelivers, KubeCases

(* What is tracked, listed, or runs, stays so, or the batch is enqueued. *)
LEMMA KubeKept ==
  ASSUME TypeOK, WatchInv, [Next]_vars, ~pending', NEW j \in Jobs
  PROVE  /\ Tracked(j) => Tracked(j)'
         /\ seen[j].state # "none" => seen'[j].state # "none"
         /\ Unfinished(j) \/ Coming(j) => (Unfinished(j) \/ Coming(j))'
<1>1. CASE Stored
  <2>1. PICK i \in Jobs, new \in KubeJobs :
          Store(i, new) /\ UNCHANGED seen /\ (new.state = "pending" \/ kj[i].state # "none")
    BY <1>1 DEF Stored
  <2>2. /\ Len(stream) \in Nat /\ DOMAIN stream = 1..Len(stream) /\ DOMAIN stream' = 1..(Len(stream) + 1)
        /\ \A k \in 1..Len(stream) : stream'[k] = stream[k]
        /\ stream'[Len(stream) + 1].job = i /\ stream'[Len(stream) + 1].object = new
        /\ kj'[i] = new /\ \A k \in Jobs \ {i} : kj'[k] = kj[k]
    BY <2>1, Longer
  <2>3. Coming(j) => Coming(j)'
    BY <2>2 DEF Coming
  <2>4. j = i /\ new.state # "pending" => Coming(j)'
    BY <2>2 DEF Coming
  <2> QED BY <2>1, <2>2, <2>3, <2>4 DEF Tracked, Unfinished
<1>2. CASE DeliverKubeJob
  <2>1. /\ Len(stream) \in Nat \ {0} /\ DOMAIN stream = 1..Len(stream) /\ DOMAIN stream' = 1..(Len(stream) - 1)
        /\ \A k \in 1..(Len(stream) - 1) : stream'[k] = stream[k + 1]
        /\ \A k \in 2..Len(stream) : k - 1 \in 1..(Len(stream) - 1) /\ stream'[k - 1] = stream[k]
        /\ \A k \in 1..Len(stream) : stream[k].job \in Jobs
        /\ seen'[stream[1].job] = stream[1].object
        /\ \A i \in Jobs \ {stream[1].job} : seen'[i] = seen[i]
        /\ kj' = kj /\ pending' = (pending \/ Notified(seen[stream[1].job], stream[1].object))
    BY <1>2, Shorter
  <2>2. seen[stream[1].job].state = "none"
    BY <2>1 DEF Notified
  <2>3. stream[1].object.state = "pending"
    BY <2>1, <2>2 DEF WatchInv, CreatedBefore, Creation
  <2>4. Coming(j) => Coming(j)'
    BY <2>1, <2>3 DEF Coming
  <2> QED BY <2>1, <2>2, <2>3, <2>4 DEF Tracked, Unfinished
<1>3. CASE UNCHANGED <<kj, seen, stream>>
  BY <1>3 DEF Tracked, Unfinished, Coming
<1> QED BY <1>1, <1>2, <1>3, KubeCases DEF Listed

-----------------------------------------------------------------------------
(* What the status of a batch job is built of. *)
LEMMA BuildShape ==
  ASSUME TypeOK, NEW j \in Jobs, NEW s, s = BuildBatchJobStatus(j)
  PROVE  /\ s.phase # "" /\ (sync.own.spec[j].stop => IsDone(s))
         /\ IsDone(sync.own.status[j]) /\ j \notin sync.restarted => s = sync.own.status[j]
         /\ j \in sync.restarted => s.restart = sync.own.spec[j].restart
         /\ j \notin sync.restarted =>
              \/ s.restart = sync.own.status[j].restart
              \/ sync.own.status[j].phase = "" /\ s.restart = 0
         /\ ~IsDone(s) => seen[j].state \notin {"succeeded", "failed"}
<1>0. PICK cur : cur = sync.own.status[j]
  OBVIOUS
<1> DEFINE status == CASE j \in sync.restarted -> [phase |-> "Waiting", restart |-> sync.own.spec[j].restart]
                       [] j \notin sync.restarted /\ cur.phase = "" -> [phase |-> "Waiting", restart |-> 0]
                       [] OTHER -> cur
<1>1. cur \in [phase : Phases, restart : Nat] /\ sync.own.spec[j].restart \in Nat
  BY <1>0 DEF TypeOK, Batches
<1>2. /\ status \in [phase : Phases, restart : Nat] /\ status.phase # ""
      /\ j \in sync.restarted => status.restart = sync.own.spec[j].restart
      /\ j \notin sync.restarted => status.restart = cur.restart \/ (cur.phase = "" /\ status.restart = 0)
  BY <1>1 DEF Phases
<1>3. s = CASE j \notin sync.restarted /\ IsDone(cur) -> cur
            [] StopRequested(j) /\ (j \in sync.restarted \/ ~IsDone(cur)) -> [status EXCEPT !.phase = "Stopped"]
            [] OTHER -> [status EXCEPT !.phase = KubePhase(seen[j], status.phase)]
  BY <1>0 DEF BuildBatchJobStatus
<1> HIDE DEF status
<1>4. CASE j \notin sync.restarted /\ IsDone(cur)
  <2>1. s = cur
    BY <1>3, <1>4
  <2> QED BY <1>0, <1>4, <2>1 DEF IsDone
<1>5. CASE StopRequested(j) /\ (j \in sync.restarted \/ ~IsDone(cur))
  <2>1. s = [status EXCEPT !.phase = "Stopped"]
    BY <1>3, <1>5
  <2> QED BY <1>0, <1>2, <1>5, <2>1 DEF IsDone
<1>6. CASE ~StopRequested(j) /\ (j \in sync.restarted \/ ~IsDone(cur))
  <2>1. s = [status EXCEPT !.phase = KubePhase(seen[j], status.phase)]
    BY <1>3, <1>6
  <2>2. s.phase = KubePhase(seen[j], status.phase) /\ s.restart = status.restart
    BY <1>2, <2>1
  <2>3. s.phase # "" /\ (~IsDone(s) => seen[j].state \notin {"succeeded", "failed"})
    BY <1>2, <2>2 DEF KubePhase, IsDone
  <2> QED BY <1>0, <1>2, <1>6, <2>2, <2>3 DEF StopRequested
<1> QED BY <1>4, <1>5, <1>6

(* What syncStatus stores, and the condition it stores with it. *)
LEMMA NewStatusShape ==
  ASSUME TypeOK
  PROVE  /\ NewStatus \in Batches /\ NewStatus.version = sync.own.version /\ NewStatus.spec = sync.own.spec
         /\ \A j \in Jobs : NewStatus.status[j] = BuildBatchJobStatus(j) /\ NewStatus.status[j].phase # ""
         /\ NewStatus.cond = "Completed" <=> \A j \in Jobs : IsDone(NewStatus.status[j])
<1> DEFINE status == [j \in Jobs |-> BuildBatchJobStatus(j)]
           cond == IF \A j \in Jobs : status[j].phase = "Waiting" THEN "Waiting"
                   ELSE IF \A j \in Jobs : IsDone(status[j]) THEN "Completed"
                   ELSE "Active"
<1>1. NewStatus = [sync.own EXCEPT !.status = status, !.cond = cond]
  BY DEF NewStatus
<1>2. PICK j \in Jobs : j = JobSeq[1]
  BY Constants
<1>3. cond = "Completed" <=> \A i \in Jobs : IsDone(status[i])
  <2> HIDE DEF status
  <2> QED BY <1>2 DEF IsDone
<1>4. sync.own \in Batches
  BY DEF TypeOK
<1>5. NewStatus.version = sync.own.version /\ NewStatus.cond = cond /\ NewStatus.status = status
  <2> HIDE DEF status, cond
  <2> QED BY <1>1, <1>4 DEF Batches
<1>6. \A i \in Jobs : status[i] = BuildBatchJobStatus(i) /\ status[i].phase # ""
  BY BuildShape
<1> HIDE DEF status, cond
<1> QED BY <1>3, <1>5, <1>6, NewStatusType

-----------------------------------------------------------------------------
(* The copy a Sync works on, and the condition of the batch. *)
VersionInv == sync.pc # "idle" =>
  /\ sync.own.version <= batch.version
  /\ sync.own.version = batch.version => sync.own.spec = batch.spec
  /\ sync.own.version # batch.version => edited \/ pending

CondInv ==
  /\ batch.cond = "Completed" <=> \A j \in Jobs : IsDone(batch.status[j])
  /\ sync.pc = "condition" => \E j \in Jobs : ~IsDone(sync.own.status[j])

PhaseInv == \A j \in Jobs : batch.status[j].phase = "" => batch.status[j].restart = 0

ErrInv ==
  /\ sync.err = "deployment" \/ sync.pc = "condition" => ~rdExists
  /\ sync.pc \in {"list", "job", "create", "midStatus"} => sync.err = ""

BatchInv == VersionInv /\ CondInv /\ PhaseInv /\ ErrInv

(* How a step can change the Sync and the batch: the Sync goes on with its copy, *)
GoesOn ==
  /\ sync.pc \notin {"idle", "condition"} /\ sync'.pc \notin {"idle", "condition"}
  /\ sync'.own = sync.own /\ UNCHANGED <<batch, edited, pending, rdExists>>
  /\ \/ sync'.err = sync.err /\ sync.err = ""
     \/ sync'.err = "error" /\ sync'.pc = "status"
     \/ sync'.err = "deployment" /\ sync'.pc = "status" /\ ~rdExists

(* stores a status and goes on with that, *)
StoresStatus ==
  /\ sync.pc \in {"midStatus", "status"} /\ batch' = NewStatus /\ sync'.own = NewStatus /\ sync'.err = sync.err
  /\ sync'.pc \notin {"idle", "list", "create"} /\ UNCHANGED <<edited, pending, rdExists>>
  /\ sync'.pc = "condition" => NewStatus.cond # "Completed" /\ sync.err = "deployment"
  /\ sync'.pc # "condition" => sync.pc = "midStatus"

(* starts over with a new copy, or ends, *)
StartsOver ==
  /\ sync'.pc = "list" /\ sync'.own = batch /\ sync'.err = "" /\ sync'.list = {} /\ sync'.restarted = {}
  /\ UNCHANGED <<batch, edited, rdExists>>

Rests ==
  /\ sync' = Idle /\ UNCHANGED rdExists
  /\ \/ UNCHANGED batch
     \/ sync.pc = "status" /\ batch' = NewStatus
     \/ sync.pc = "condition" /\ batch' = [sync.own EXCEPT !.cond = "Waiting"]

(* or it is not the Sync's step. *)
Apart ==
  /\ UNCHANGED <<sync, batch>> /\ (edited \/ pending => edited' \/ pending')
  /\ (pending => pending') /\ (rdExists' => rdExists)

Edits == UNCHANGED <<sync, pending, rdExists>> /\ \E spec \in [Jobs -> [stop : BOOLEAN, restart : Nat]] : Edit(spec)

LEMMA NextJobKeeps ==
  ASSUME NEW s \in SyncRecords, s.i # 0
  PROVE  /\ NextJob(s).own = s.own /\ NextJob(s).list = s.list /\ NextJob(s).restarted = s.restarted
         /\ NextJob(s).err = s.err
         /\ \/ NextJob(s).pc = "midStatus" /\ NextJob(s).i = s.i
            \/ NextJob(s).pc = "status" /\ s.i = Len(JobSeq)
            \/ NextJob(s).pc = "job" /\ NextJob(s).i = s.i + 1
  BY DEF NextJob, SyncRecords

LEMMA SyncCases ==
  TypeOK /\ ErrInv /\ [Next]_vars => GoesOn \/ StoresStatus \/ StartsOver \/ Rests \/ Apart \/ Edits
<1> SUFFICES ASSUME TypeOK, ErrInv, [Next]_vars
             PROVE  GoesOn \/ StoresStatus \/ StartsOver \/ Rests \/ Apart \/ Edits
  OBVIOUS
<1>t. /\ sync \in SyncRecords /\ (sync.pc \in {"job", "create", "midStatus"} => sync.i # 0)
      /\ batch \in Batches /\ clock \in Nat
  BY DEF TypeOK, SyncRecords
<1>b. ASSUME NEW try, Begin(try), UNCHANGED <<batch, edited, rdExists>> PROVE StartsOver \/ Rests
  <2>1. CASE sync' = Idle
    BY <1>b, <2>1 DEF Rests
  <2>2. CASE sync' = [Idle EXCEPT !.pc = "list", !.own = batch, !.tries = try]
    BY <1>b, <2>2 DEF Idle, StartsOver
  <2> QED BY <1>b, <2>1, <2>2 DEF Begin
<1>r. ASSUME Retry, UNCHANGED <<batch, edited, rdExists>> PROVE StartsOver \/ Rests
  BY <1>r, <1>b DEF Retry, Requeue, Rests
<1>n. ASSUME sync' = NextJob(sync), sync.pc \in {"job", "create"}, UNCHANGED <<batch, edited, pending, rdExists>>
      PROVE  GoesOn
  BY <1>n, <1>t, NextJobKeeps DEF GoesOn, ErrInv
<1>f. ASSUME NEW err \in {"error", "deployment"}, Fail(err), sync.pc \notin {"idle", "condition"},
             err = "deployment" => ~rdExists, UNCHANGED <<batch, edited, pending, rdExists>>
      PROVE  GoesOn
  BY <1>f, <1>t DEF GoesOn, Fail, SyncRecords
<1>1. CASE StartSync
  BY <1>1, <1>b DEF StartSync
<1>2. CASE ReconcileList
  BY <1>2, <1>f, <1>t DEF ReconcileList, GoesOn, ErrInv, SyncRecords
<1>3. CASE ReconcileStop \/ ReconcileSkip
  BY <1>3, <1>n DEF ReconcileStop, ReconcileSkip
<1>4. CASE ReconcileRestart
  BY <1>4, <1>t DEF ReconcileRestart, GoesOn, ErrInv, SyncRecords
<1>5. CASE ReconcileCreate
  BY <1>5, <1>n, <1>f DEF ReconcileCreate
<1>6. CASE MidStatus
  <2>1. CASE UNCHANGED batch /\ Fail("error")
    BY <1>6, <2>1, <1>f DEF MidStatus
  <2>2. CASE batch' = NewStatus /\ sync' = NextJob([sync EXCEPT !.own = NewStatus])
    <3>1. PICK s : s = [sync EXCEPT !.own = NewStatus]
      OBVIOUS
    <3>2. s \in SyncRecords /\ s.own = NewStatus /\ s.i # 0 /\ s.err = sync.err /\ s.pc = "midStatus"
      BY <1>6, <1>t, <3>1, NewStatusType DEF SyncRecords, MidStatus
    <3>3. sync'.own = NewStatus /\ sync'.err = sync.err /\ sync'.pc \in {"midStatus", "status", "job"}
      BY <2>2, <3>1, <3>2, NextJobKeeps
    <3> QED BY <1>6, <2>2, <3>3 DEF MidStatus, StoresStatus
  <2> QED BY <1>6, <2>1, <2>2 DEF MidStatus, Update
<1>7. CASE SyncStatus
  <2>1. CASE UNCHANGED batch /\ Retry
    BY <1>7, <2>1, <1>r DEF SyncStatus
  <2>2. CASE batch' = NewStatus /\ sync' = Idle
    BY <1>7, <2>2 DEF SyncStatus, Rests
  <2>3. CASE /\ batch' = NewStatus /\ sync.err = "deployment" /\ NewStatus.cond # "Completed"
             /\ sync' = [sync EXCEPT !.pc = "condition", !.own = NewStatus] /\ UNCHANGED pending
    BY <1>7, <2>3, <1>t DEF SyncStatus, StoresStatus, SyncRecords
  <2> QED BY <1>7, <2>1, <2>2, <2>3 DEF SyncStatus, Update, Requeue
<1>8. CASE SyncCondition
  BY <1>8, <1>r DEF SyncCondition, Update, Requeue, Rests
<1>9. CASE SyncFails
  <2>1. CASE Requeue
    BY <1>9, <2>1 DEF SyncFails, Requeue, Rests
  <2>2. CASE sync.pc \in {"list", "job", "create", "midStatus"} /\ Fail("error") /\ UNCHANGED pending
    BY <1>9, <2>2, <1>f DEF SyncFails
  <2>3. CASE /\ sync.pc = "job" /\ UNCHANGED pending
             /\ sync' = [sync EXCEPT !.pc = "status", !.err = "error", !.restarted = @ \cup {Current}]
    BY <1>9, <2>3, <1>t DEF SyncFails, GoesOn, SyncRecords
  <2> QED BY <1>9, <2>1, <2>2, <2>3 DEF SyncFails
<1>10. CASE Crash
  BY <1>10 DEF Crash, Rests
<1>11. CASE DeliverKubeJob \/ DeliverBatch \/ DeleteRD \/ UNCHANGED vars
  BY <1>11 DEF DeliverKubeJob, DeliverBatch, DeleteRD, vars, Apart
<1>12. ASSUME NEW j \in Jobs, Pods(j) \/ KubeJobExpires(j) PROVE Apart
  BY <1>12 DEF Pods, PodsStart, PodsEnd, KubeJobExpires, Apart
<1>13. ASSUME NEW jobs, Stop(jobs) PROVE Edits
  <2> DEFINE spec == [j \in Jobs |-> [batch.spec[j] EXCEPT !.stop =
                        @ \/ (j \in jobs /\ batch.status[j].phase \notin {"Succeeded", "Failed"})]]
  <2>1. Edit(spec) /\ UNCHANGED <<sync, pending, rdExists>>
    BY <1>13 DEF Stop
  <2>2. spec \in [Jobs -> [stop : BOOLEAN, restart : Nat]]
    BY <1>t DEF Batches
  <2> HIDE DEF spec
  <2> QED BY <2>1, <2>2 DEF Edits
<1>14. ASSUME NEW jobs, Restart(jobs) PROVE Edits
  <2>1. PICK now \in {clock, clock + 1} :
          Edit([j \in Jobs |-> IF j \in jobs THEN [stop |-> FALSE, restart |-> now] ELSE batch.spec[j]])
    BY <1>14 DEF Restart
  <2>2. PICK spec : spec = [j \in Jobs |-> IF j \in jobs THEN [stop |-> FALSE, restart |-> now] ELSE batch.spec[j]]
    OBVIOUS
  <2>3. spec \in [Jobs -> [stop : BOOLEAN, restart : Nat]]
    BY <2>1, <2>2, <1>t DEF Batches
  <2> QED BY <1>14, <2>1, <2>2, <2>3 DEF Restart, Edits
<1> QED BY <1>1, <1>2, <1>3, <1>4, <1>5, <1>6, <1>7, <1>8, <1>9, <1>10, <1>11, <1>12, <1>13, <1>14 DEF Next, SyncStep

LEMMA BatchStep == TypeOK /\ CopyInv /\ BatchInv /\ [Next]_vars => BatchInv'
<1> SUFFICES ASSUME TypeOK, CopyInv, BatchInv, [Next]_vars PROVE BatchInv'
  OBVIOUS
<1>t. /\ sync \in SyncRecords /\ batch \in Batches /\ sync.own \in Batches /\ NewStatus \in Batches
      /\ Idle.pc = "idle" /\ Idle.err = ""
      /\ sync.own.version \in Nat /\ batch.version \in Nat /\ NewStatus.version \in Nat
  BY NewStatusType DEF TypeOK, SyncRecords, Batches, Idle
<1>1. CASE GoesOn
  BY <1>1 DEF GoesOn, BatchInv, VersionInv, CondInv, PhaseInv, ErrInv
<1>2. CASE StoresStatus
  <2>1. VersionInv'
    <3>1. sync'.own = batch' /\ batch'.version \in Nat
      BY <1>2, <1>t DEF StoresStatus
    <3>2. sync'.own.version <= batch'.version /\ sync'.own.version = batch'.version /\ sync'.own.spec = batch'.spec
      BY <3>1
    <3> QED BY <3>2, Zenon DEF VersionInv
  <2>2. CondInv' /\ PhaseInv'
    BY <1>2, NewStatusShape DEF StoresStatus, CondInv, PhaseInv, IsDone
  <2>3. ErrInv'
    BY <1>2 DEF StoresStatus, BatchInv, ErrInv
  <2> QED BY <2>1, <2>2, <2>3 DEF BatchInv
<1>3. CASE StartsOver
  <2>1. VersionInv'
    <3>1. sync'.own = batch' /\ batch'.version \in Nat
      BY <1>3, <1>t DEF StartsOver
    <3>2. sync'.own.version <= batch'.version /\ sync'.own.version = batch'.version /\ sync'.own.spec = batch'.spec
      BY <3>1
    <3> QED BY <3>2, Zenon DEF VersionInv
  <2>2. CondInv' /\ PhaseInv'
    BY <1>3 DEF StartsOver, BatchInv, CondInv, PhaseInv
  <2>3. ErrInv'
    BY <1>3 DEF StartsOver, BatchInv, ErrInv
  <2> QED BY <2>1, <2>2, <2>3 DEF BatchInv
<1>4. CASE Rests
  <2>1. VersionInv' /\ ErrInv'
    BY <1>4, <1>t DEF Rests, VersionInv, ErrInv
  <2>2. CASE UNCHANGED batch
    BY <1>4, <1>t, <2>1, <2>2 DEF Rests, BatchInv, CondInv, PhaseInv
  <2>3. CASE batch' = NewStatus
    BY <1>4, <1>t, <2>1, <2>3, NewStatusShape DEF Rests, BatchInv, CondInv, PhaseInv
  <2>4. CASE sync.pc = "condition" /\ batch' = [sync.own EXCEPT !.cond = "Waiting"]
    <3>1. batch'.cond = "Waiting" /\ batch'.status = sync.own.status /\ sync.own.status = batch.status
      BY <1>t, <2>4 DEF CopyInv, Batches
    <3> QED BY <1>4, <1>t, <2>1, <2>4, <3>1 DEF Rests, BatchInv, CondInv, PhaseInv
  <2> QED BY <1>4, <2>2, <2>3, <2>4 DEF Rests
<1>5. CASE Apart
  <2>1. VersionInv'
    BY <1>5 DEF Apart, BatchInv, VersionInv
  <2>2. CondInv' /\ PhaseInv'
    BY <1>5 DEF Apart, BatchInv, CondInv, PhaseInv
  <2>3. ErrInv'
    <3>1. sync' = sync
      BY <1>5 DEF Apart
    <3>4. ~rdExists => ~rdExists'
      BY <1>5, Zenon DEF Apart
    <3>2. sync'.err = "deployment" \/ sync'.pc = "condition" => ~rdExists
      BY <3>1 DEF BatchInv, ErrInv
    <3>3. sync'.pc \in {"list", "job", "create", "midStatus"} => sync'.err = ""
      BY <3>1 DEF BatchInv, ErrInv
    <3> QED BY <3>2, <3>3, <3>4, Zenon DEF ErrInv
  <2> QED BY <2>1, <2>2, <2>3 DEF BatchInv
<1>6. CASE Edits
  <2>1. PICK spec : Edit(spec) /\ UNCHANGED <<sync, pending, rdExists>>
    BY <1>6 DEF Edits
  <2>2. /\ batch'.version = batch.version + 1 /\ batch'.status = batch.status /\ batch'.cond = batch.cond
        /\ batch.version \in Nat /\ sync.own.version \in Nat /\ edited'
    BY <2>1, <1>t DEF Edit, Batches
  <2>3. VersionInv'
    BY <2>1, <2>2 DEF BatchInv, VersionInv
  <2> QED BY <2>1, <2>2, <2>3 DEF BatchInv, CondInv, PhaseInv, ErrInv
<1> QED BY <1>1, <1>2, <1>3, <1>4, <1>5, <1>6, SyncCases DEF BatchInv

-----------------------------------------------------------------------------
(* What reconcile has decided for a batch job it is done with, as long as nothing is
   on the work queue: it stops it, restarts it, or there is nothing to start. *)
Handled(j) ==
  \/ sync.own.spec[j].stop
  \/ /\ RequiresRestart(j, sync.own) => j \in sync.restarted
     /\ IsDone(sync.own.status[j]) \/ Tracked(j)

Upto == CASE sync.pc \in {"job", "create"} -> sync.i - 1
          [] sync.pc = "midStatus" -> sync.i
          [] sync.pc = "status" -> Len(JobSeq)
          [] OTHER -> 0

HandledInv == sync.err = "" /\ ~pending => \A n \in 1..Upto : Handled(JobSeq[n])

ListInv == ~pending => \A j \in sync.list : seen[j].state # "none"

RestartInv ==
  /\ sync.pc = "create" => Current \in sync.restarted
  /\ sync.err = "" /\ ~pending => \A j \in sync.restarted : Tracked(j) \/ (sync.pc = "create" /\ j = Current)

ReconcileInv == HandledInv /\ ListInv /\ RestartInv

(* The status that is stored then says what became of the job. *)
LEMMA Decided ==
  ASSUME TypeOK, CopyInv, PhaseInv, sync.pc # "idle", NEW j \in Jobs, Handled(j),
         j \in sync.restarted => Tracked(j), NEW s, s = BuildBatchJobStatus(j)
  PROVE  /\ sync.own.spec[j].stop => IsDone(s)
         /\ ~sync.own.spec[j].stop => sync.own.spec[j].restart \in {0, s.restart}
         /\ IsDone(s) \/ (Tracked(j) /\ seen[j].state \notin {"succeeded", "failed"})
<1>1. PICK cur : cur = sync.own.status[j]
  OBVIOUS
<1>2. /\ sync.own.spec[j].stop => IsDone(s)
      /\ IsDone(cur) /\ j \notin sync.restarted => s = cur
      /\ j \in sync.restarted => s.restart = sync.own.spec[j].restart
      /\ j \notin sync.restarted => s.restart = cur.restart \/ (cur.phase = "" /\ s.restart = 0)
      /\ ~IsDone(s) => seen[j].state \notin {"succeeded", "failed"}
  BY <1>1, BuildShape
<1>3. cur.phase = "" => cur.restart = 0
  BY <1>1 DEF CopyInv, PhaseInv
<1>4. ~sync.own.spec[j].stop =>
        /\ sync.own.spec[j].restart \notin {0, cur.restart} => j \in sync.restarted
        /\ IsDone(cur) \/ Tracked(j)
  BY <1>1 DEF Handled, RequiresRestart
<1> QED BY <1>2, <1>3, <1>4

LEMMA ReconcileStep ==
  TypeOK /\ CopyInv /\ WatchInv /\ BatchInv /\ ReconcileInv /\ [Next]_vars => ReconcileInv'
<1> SUFFICES ASSUME TypeOK, CopyInv, WatchInv, BatchInv, ReconcileInv, [Next]_vars PROVE ReconcileInv'
  OBVIOUS
<1>t. /\ sync \in SyncRecords /\ (sync.pc \in {"job", "create", "midStatus"} => sync.i # 0 /\ sync.i \in 1..Len(JobSeq))
      /\ Len(JobSeq) \in Nat \ {0} /\ \A n \in 1..Len(JobSeq) : JobSeq[n] \in Jobs
      /\ sync.restarted \subseteq Jobs /\ sync.list \subseteq Jobs
  <2>1. sync \in SyncRecords /\ (sync.pc \in {"job", "create", "midStatus"} => sync.i # 0)
    BY DEF TypeOK, SyncRecords
  <2>2. Len(JobSeq) \in Nat \ {0} /\ \A n \in 1..Len(JobSeq) : JobSeq[n] \in Jobs
    BY Constants, Zenon
  <2>3. sync.i \in 0..Len(JobSeq) /\ sync.restarted \in SUBSET Jobs /\ sync.list \in SUBSET Jobs
    BY <2>1 DEF SyncRecords
  <2>4. sync.i # 0 => sync.i \in 1..Len(JobSeq)
    BY <2>2, <2>3
  <2> QED BY <2>1, <2>2, <2>3, <2>4
<1>c. sync.pc \in {"job", "create", "midStatus"} => Current \in Jobs
  BY <1>t DEF Current
<1>k. ASSUME ~pending', NEW j \in Jobs
      PROVE  (Tracked(j) => Tracked(j)') /\ (seen[j].state # "none" => seen'[j].state # "none")
  BY <1>k, KubeKept
<1>h. ASSUME ~pending', NEW j \in Jobs, Handled(j), sync'.own = sync.own, sync.restarted \subseteq sync'.restarted
      PROVE  Handled(j)'
  BY <1>h, <1>k DEF Handled, RequiresRestart
<1>z. ASSUME sync'.list = {}, sync'.restarted = {}, sync'.pc \in {"idle", "list"} PROVE ReconcileInv'
  <2>1. Upto' = 0 /\ \A n \in 1..0 : FALSE
    BY <1>z DEF Upto
  <2>2. HandledInv'
    BY <2>1, Zenon DEF HandledInv
  <2>3. ListInv' /\ RestartInv'
    BY <1>z DEF ListInv, RestartInv
  <2> QED BY <2>2, <2>3 DEF ReconcileInv
<1>l. ASSUME sync'.list = sync.list, pending' = pending PROVE ListInv'
  BY <1>l, <1>t, <1>k DEF ReconcileInv, ListInv
<1>f. ASSUME sync'.err # "", sync'.list = sync.list, pending' = pending, sync'.pc # "create" PROVE ReconcileInv'
  BY <1>f, <1>l DEF ReconcileInv, HandledInv, RestartInv
<1>e. ASSUME NEW err \in {"error", "deployment"}, Fail(err), pending' = pending PROVE ReconcileInv'
  BY <1>e, <1>f, <1>t DEF Fail, SyncRecords
<1>n. ASSUME sync.pc \in {"job", "create"}, sync' = NextJob(sync), pending' = pending, NEW j, j = Current,
             ~pending' => Handled(j)' /\ (j \in sync.restarted => Tracked(j)')
      PROVE  ReconcileInv'
  <2>1. /\ sync'.own = sync.own /\ sync'.list = sync.list /\ sync'.restarted = sync.restarted /\ sync'.err = sync.err
        /\ sync'.pc # "create" /\ Upto' = sync.i /\ sync.i \in 1..Len(JobSeq)
    BY <1>n, <1>t, NextJobKeeps DEF Upto
  <2>2. ASSUME sync'.err = "", ~pending', NEW n \in 1..sync.i PROVE Handled(JobSeq[n])'
    <3>1. CASE n = sync.i
      BY <1>n, <2>2, <3>1 DEF Current
    <3>2. CASE n # sync.i
      <4>1. n \in 1..Upto /\ JobSeq[n] \in Jobs
        BY <1>n, <1>t, <2>1, <3>2 DEF Upto
      <4>2. Handled(JobSeq[n])
        BY <1>n, <2>1, <2>2, <4>1 DEF ReconcileInv, HandledInv
      <4> QED BY <1>h, <2>1, <2>2, <4>1, <4>2
    <3> QED BY <3>1, <3>2
  <2>3. HandledInv'
    BY <2>1, <2>2 DEF HandledInv
  <2>4. ASSUME sync'.err = "", ~pending', NEW i \in sync.restarted PROVE Tracked(i)'
    <3>1. Tracked(i) \/ i = j
      BY <1>n, <2>1, <2>4 DEF ReconcileInv, RestartInv
    <3> QED BY <1>n, <1>k, <1>t, <2>4, <3>1
  <2>5. RestartInv'
    BY <2>1, <2>4 DEF RestartInv
  <2> QED BY <1>n, <1>l, <2>1, <2>3, <2>5 DEF ReconcileInv
<1>u. ASSUME UNCHANGED sync, ~pending' => ~pending PROVE ReconcileInv'
  <2>1. HandledInv'
    <3>1. ASSUME sync.err = "", ~pending', NEW n \in 1..Upto PROVE Handled(JobSeq[n])'
      <4>1. n \in 1..Len(JobSeq)
        BY <1>t DEF Upto
      <4> QED BY <1>u, <1>h, <1>t, <3>1, <4>1 DEF ReconcileInv, HandledInv
    <3>2. Upto' = Upto
      BY <1>u DEF Upto
    <3> QED BY <1>u, <3>1, <3>2 DEF HandledInv
  <2>2. ListInv'
    BY <1>u, <1>t, <1>k DEF ReconcileInv, ListInv
  <2>3. RestartInv'
    BY <1>u, <1>t, <1>k DEF ReconcileInv, RestartInv, Current
  <2> QED BY <2>1, <2>2, <2>3 DEF ReconcileInv
<1>i. ASSUME sync' = Idle PROVE ReconcileInv'
  <2>1. Idle.list = {} /\ Idle.restarted = {} /\ Idle.pc = "idle"
    BY DEF Idle
  <2> QED BY <1>i, <1>z, <2>1
<1>b. ASSUME NEW try, Begin(try) PROVE ReconcileInv'
  <2>1. CASE sync' = [Idle EXCEPT !.pc = "list", !.own = batch, !.tries = try]
    <3>1. sync'.list = {} /\ sync'.restarted = {} /\ sync'.pc = "list"
      BY <2>1 DEF Idle
    <3> QED BY <1>z, <3>1
  <2> QED BY <1>b, <1>i, <2>1 DEF Begin
<1>r. ASSUME Retry PROVE ReconcileInv'
  BY <1>r, <1>i, <1>b DEF Retry, Requeue
<1>1. CASE StartSync
  BY <1>1, <1>b DEF StartSync
<1>2. CASE Crash \/ SyncCondition
  BY <1>2, <1>i, <1>r DEF Crash, SyncCondition, Update, Requeue
<1>3. CASE ReconcileList
  <2>1. CASE rdExists
    <3>1. /\ sync' = [sync EXCEPT !.pc = "job", !.i = 1, !.list = {j \in Jobs : seen[j].state # "none"}]
          /\ UNCHANGED <<seen, pending>> /\ sync.pc = "list"
      BY <1>3, <2>1 DEF ReconcileList
    <3>2. /\ sync'.pc = "job" /\ sync'.i = 1 /\ sync'.list = {j \in Jobs : seen[j].state # "none"}
          /\ sync'.restarted = sync.restarted /\ sync'.err = sync.err
      BY <3>1, <1>t DEF SyncRecords
    <3>3. HandledInv'
      <4>1. Upto' = 0 /\ \A n \in 1..0 : FALSE
        BY <3>2 DEF Upto
      <4> QED BY <4>1, Zenon DEF HandledInv
    <3>4. RestartInv'
      BY <1>k, <1>t, <3>1, <3>2 DEF ReconcileInv, RestartInv
    <3> QED BY <3>1, <3>2, <3>3, <3>4 DEF ReconcileInv, ListInv
  <2>2. CASE ~rdExists
    BY <1>3, <1>e, <2>2 DEF ReconcileList
  <2> QED BY <2>1, <2>2
<1>4. CASE ReconcileStop
  <2>1. PICK j \in Jobs : j = Current /\ sync.own.spec[j].stop
    BY <1>4, <1>c DEF ReconcileStop, StopRequested
  <2>2. sync'.own = sync.own /\ sync' = NextJob(sync) /\ pending' = pending /\ sync.pc = "job"
    BY <1>4, <1>t, NextJobKeeps DEF ReconcileStop
  <2>3. Handled(j)'
    BY <2>1, <2>2 DEF Handled
  <2>4. ~pending' /\ j \in sync.restarted => Tracked(j)'
    <3>1. ~pending /\ j \in sync.restarted => Tracked(j)
      BY <2>2 DEF ReconcileInv, RestartInv, BatchInv, ErrInv
    <3> QED BY <1>k, <2>2, <3>1
  <2> QED BY <1>n, <2>1, <2>2, <2>3, <2>4
<1>5. CASE ReconcileSkip
  <2>1. PICK j \in Jobs : j = Current /\ NeedsNoJob(j)
    BY <1>5, <1>c DEF ReconcileSkip
  <2>2. sync'.own = sync.own /\ sync' = NextJob(sync) /\ pending' = pending /\ sync.pc = "job" /\ sync'.restarted = sync.restarted
    BY <1>5, <1>t, NextJobKeeps DEF ReconcileSkip
  <2>3. ASSUME ~pending' PROVE Handled(j)'
    <3>1. Handled(j)
      BY <2>1, <2>2, <2>3 DEF NeedsNoJob, Handled, ReconcileInv, ListInv, Tracked
    <3> QED BY <1>h, <2>1, <2>2, <2>3, <3>1
  <2>4. ~pending' /\ j \in sync.restarted => Tracked(j)'
    <3>1. ~pending /\ j \in sync.restarted => Tracked(j)
      BY <2>2 DEF ReconcileInv, RestartInv, BatchInv, ErrInv
    <3> QED BY <1>k, <2>2, <3>1
  <2> QED BY <1>n, <2>1, <2>2, <2>3, <2>4
<1>6. CASE ReconcileRestart
  <2>1. /\ sync'.pc = "create" /\ sync'.own = sync.own /\ sync'.i = sync.i /\ sync'.list = sync.list /\ sync'.err = sync.err
        /\ sync'.restarted = sync.restarted \cup {Current} /\ pending' = pending /\ sync.pc = "job"
    BY <1>6, <1>t DEF ReconcileRestart, SyncRecords
  <2>2. HandledInv'
    <3>1. Upto' = Upto /\ Upto \in 0..Len(JobSeq)
      BY <1>t, <2>1 DEF Upto
    <3>2. ASSUME sync'.err = "", ~pending', NEW n \in 1..Upto PROVE Handled(JobSeq[n])'
      <4>1. sync.err = "" /\ ~pending
        BY <2>1, <3>2
      <4>3. n \in 1..Len(JobSeq)
        <5>1. \A u \in 0..Len(JobSeq) : \A m \in 1..u : m \in 1..Len(JobSeq)
          BY <1>t
        <5> QED BY <3>1, <3>2, <5>1, Zenon
      <4>2. JobSeq[n] \in Jobs /\ Handled(JobSeq[n])
        BY <1>t, <3>2, <4>1, <4>3 DEF ReconcileInv, HandledInv
      <4> QED BY <1>h, <2>1, <3>2, <4>2
    <3> QED BY <3>1, <3>2 DEF HandledInv
  <2>3. RestartInv'
    <3>1. Current' = Current
      BY <2>1 DEF Current
    <3>2. ASSUME sync'.err = "", ~pending', NEW j \in sync.restarted PROVE Tracked(j)'
      <4>1. Tracked(j)
        BY <2>1, <3>2 DEF ReconcileInv, RestartInv
      <4> QED BY <1>k, <1>t, <3>2, <4>1
    <3> QED BY <2>1, <3>1, <3>2 DEF RestartInv
  <2> QED BY <1>l, <2>1, <2>2, <2>3 DEF ReconcileInv
<1>7. CASE ReconcileCreate
  <2>1. CASE kj[Current].state = "none"
    <3>1. PICK j \in Jobs : j = Current
      BY <1>7, <1>c DEF ReconcileCreate
    <3>2. /\ Store(j, KubeJob("pending", sync.own.spec[j].restart)) /\ sync' = NextJob(sync) /\ pending' = pending
          /\ sync.pc \in {"job", "create"}
      BY <1>7, <2>1, <3>1 DEF ReconcileCreate
    <3>3. kj'[j].state = "pending"
      BY <3>2 DEF Store, TypeOK, KubeJob
    <3>4. Tracked(j)'
      BY <3>3 DEF Tracked
    <3>5. RequiresRestart(j, sync.own) => j \in sync.restarted
      BY <1>7, <3>1, <3>2 DEF ReconcileCreate, ReconcileInv, RestartInv
    <3>6. Handled(j)'
      <4>1. sync'.own = sync.own /\ sync'.restarted = sync.restarted
        BY <1>t, <3>2, NextJobKeeps
      <4> QED BY <3>4, <3>5, <4>1 DEF Handled, RequiresRestart
    <3> QED BY <1>n, <3>1, <3>2, <3>4, <3>6
  <2>2. CASE kj[Current].state # "none"
    BY <1>7, <1>e, <2>2 DEF ReconcileCreate
  <2> QED BY <2>1, <2>2
<1>8. CASE MidStatus
  <2>1. CASE UNCHANGED batch /\ Fail("error")
    BY <1>8, <1>e, <2>1 DEF MidStatus
  <2>2. CASE batch' = NewStatus /\ sync' = NextJob([sync EXCEPT !.own = NewStatus])
    <3>1. PICK s : s = [sync EXCEPT !.own = NewStatus]
      OBVIOUS
    <3>2. /\ s \in SyncRecords /\ s.own = NewStatus /\ s.i = sync.i /\ s.i # 0 /\ s.err = sync.err /\ s.pc = "midStatus"
          /\ s.list = sync.list /\ s.restarted = sync.restarted /\ sync.pc = "midStatus" /\ pending' = pending
      BY <1>8, <1>t, <3>1, NewStatusType DEF SyncRecords, MidStatus
    <3>3. /\ sync'.own = NewStatus /\ sync'.list = sync.list /\ sync'.restarted = sync.restarted /\ sync'.err = sync.err
          /\ sync'.pc # "create" /\ Upto' = sync.i /\ Upto = sync.i
      <4>1. sync' = NextJob(s) /\ sync.i \in 1..Len(JobSeq)
        BY <1>t, <2>2, <3>1, <3>2
      <4>2. /\ sync'.own = NewStatus /\ sync'.list = sync.list /\ sync'.restarted = sync.restarted /\ sync'.err = sync.err
            /\ \/ sync'.pc = "midStatus" /\ sync'.i = sync.i
               \/ sync'.pc = "status" /\ sync.i = Len(JobSeq)
               \/ sync'.pc = "job" /\ sync'.i = sync.i + 1
        BY <3>2, <4>1, NextJobKeeps
      <4> QED BY <3>2, <4>1, <4>2 DEF Upto
    <3>4. ASSUME sync'.err = "", ~pending', NEW j \in sync.restarted PROVE Tracked(j) /\ Tracked(j)'
      BY <1>k, <1>t, <3>2, <3>3, <3>4 DEF ReconcileInv, RestartInv
    <3>5. ASSUME sync'.err = "", ~pending', NEW n \in 1..sync.i PROVE Handled(JobSeq[n])'
      <4>1. PICK j \in Jobs : j = JobSeq[n]
        BY <1>t, <3>2
      <4>2. Handled(j) /\ (j \in sync.restarted => Tracked(j))
        BY <3>2, <3>3, <3>4, <3>5, <4>1 DEF ReconcileInv, HandledInv
      <4>3. PICK new : new = BuildBatchJobStatus(j)
        OBVIOUS
      <4>4. /\ ~sync.own.spec[j].stop => sync.own.spec[j].restart \in {0, new.restart}
            /\ IsDone(new) \/ Tracked(j)
        BY <3>2, <4>2, <4>3, Decided DEF BatchInv
      <4>5. sync'.own.spec[j] = sync.own.spec[j] /\ sync'.own.status[j] = new
        BY <3>3, <4>3, NewStatusShape
      <4>6. Handled(j)'
        BY <1>k, <3>5, <4>4, <4>5 DEF Handled, RequiresRestart
      <4> QED BY <4>1, <4>6
    <3>6. HandledInv' /\ RestartInv'
      BY <3>3, <3>4, <3>5 DEF HandledInv, RestartInv
    <3> QED BY <1>l, <3>2, <3>3, <3>6 DEF ReconcileInv
  <2> QED BY <1>8, <2>1, <2>2 DEF MidStatus, Update
<1>9. CASE SyncStatus
  <2>1. CASE Retry \/ sync' = Idle
    BY <1>i, <1>r, <2>1
  <2>2. CASE /\ sync.err = "deployment" /\ sync' = [sync EXCEPT !.pc = "condition", !.own = NewStatus] /\ UNCHANGED pending
    BY <1>f, <1>t, <2>2 DEF SyncRecords
  <2> QED BY <1>9, <2>1, <2>2 DEF SyncStatus, Update, Requeue
<1>10. CASE SyncFails
  <2>1. CASE Fail("error") /\ UNCHANGED pending
    BY <1>e, <2>1
  <2>2. CASE sync' = [sync EXCEPT !.pc = "status", !.err = "error", !.restarted = @ \cup {Current}] /\ UNCHANGED pending
    BY <1>f, <1>t, <2>2 DEF SyncRecords
  <2>3. CASE Requeue
    BY <1>i, <2>3 DEF Requeue
  <2> QED BY <1>10, <2>1, <2>2, <2>3 DEF SyncFails
<1>11. CASE DeliverKubeJob
  <2>1. UNCHANGED sync /\ (pending => pending')
    BY <1>11, Zenon DEF DeliverKubeJob
  <2> QED BY <1>u, <2>1
<1>14. CASE DeliverBatch \/ DeleteRD \/ UNCHANGED vars
  BY <1>14, <1>u DEF DeliverBatch, DeleteRD, vars
<1>12. ASSUME NEW j \in Jobs, Pods(j) \/ KubeJobExpires(j) PROVE ReconcileInv'
  BY <1>12, <1>u DEF Pods, PodsStart, PodsEnd, KubeJobExpires
<1>13. ASSUME NEW jobs, Stop(jobs) \/ Restart(jobs) PROVE ReconcileInv'
  BY <1>13, <1>u DEF Stop, Restart
<1> QED BY <1>1, <1>2, <1>3, <1>4, <1>5, <1>6, <1>7, <1>8, <1>9, <1>10, <1>11, <1>12, <1>13, <1>14 DEF Next, SyncStep

(* A job that is done with, unless its Kubernetes Job still runs or is yet to be heard of. *)
Settled(j) ==
  /\ batch.spec[j].stop => IsDone(batch.status[j])
  /\ ~batch.spec[j].stop => ~RequiresRestart(j, batch)
  /\ IsDone(batch.status[j]) \/ Unfinished(j) \/ Coming(j)

RestedInv == rdExists /\ ~pending /\ ~edited /\ sync.pc = "idle" => \A j \in Jobs : Settled(j)

LEMMA RestedStep ==
  TypeOK /\ CopyInv /\ WatchInv /\ BatchInv /\ ReconcileInv /\ RestedInv /\ [Next]_vars => RestedInv'
<1> SUFFICES ASSUME TypeOK, CopyInv, WatchInv, BatchInv, ReconcileInv, RestedInv, [Next]_vars,
                    rdExists', ~pending', ~edited', sync'.pc = "idle", NEW j \in Jobs
             PROVE  Settled(j)'
  BY DEF RestedInv
<1>t. /\ sync \in SyncRecords /\ batch \in Batches /\ Idle.pc = "idle"
      /\ DOMAIN JobSeq = 1..Len(JobSeq)
  BY Constants, LenProperties DEF TypeOK, SyncRecords, Idle
<1>k. Unfinished(j) \/ Coming(j) => (Unfinished(j) \/ Coming(j))'
  BY KubeKept
<1>d. ASSUME UNCHANGED batch, ~ToDo(batch) PROVE Settled(j)'
  <2>1. IsDone(batch.status[j]) /\ ~RequiresRestart(j, batch)
    BY <1>d DEF ToDo, BatchInv, CondInv
  <2> QED BY <1>d, <2>1 DEF Settled
<1>b. ASSUME NEW try, Begin(try), UNCHANGED batch PROVE Settled(j)'
  <2>1. CASE sync' = [Idle EXCEPT !.pc = "list", !.own = batch, !.tries = try]
    <3>1. sync'.pc = "list"
      BY <2>1 DEF Idle
    <3> QED BY <3>1
  <2> QED BY <1>b, <1>d, <2>1 DEF Begin
<1>r. ASSUME Retry, UNCHANGED batch PROVE Settled(j)'
  BY <1>r, <1>b DEF Retry, Requeue
<1>1. CASE StartSync
  BY <1>1, <1>b DEF StartSync
<1>2. CASE GoesOn \/ StoresStatus \/ StartsOver
  BY <1>2 DEF GoesOn, StoresStatus, StartsOver
<1>3. CASE Edits
  BY <1>3 DEF Edits, Edit
<1>4. CASE Apart
  <2>1. rdExists /\ ~pending /\ ~edited /\ sync.pc = "idle" /\ batch' = batch
    BY <1>4 DEF Apart
  <2>2. Settled(j)
    BY <2>1 DEF RestedInv
  <2> QED BY <1>k, <2>1, <2>2 DEF Settled
<1>5. CASE SyncStatus
  <2>1. CASE UNCHANGED batch /\ Retry
    BY <1>r, <2>1
  <2>2. CASE batch' = NewStatus /\ sync.err = "" /\ sync.pc = "status" /\ UNCHANGED <<pending, kj, seen, stream>>
    <3>1. PICK n \in 1..Len(JobSeq) : j = JobSeq[n]
      BY <1>t DEF Jobs
    <3>2. Handled(j) /\ (j \in sync.restarted => Tracked(j))
      BY <2>2, <3>1 DEF ReconcileInv, HandledInv, RestartInv, Upto
    <3>3. PICK new : new = BuildBatchJobStatus(j)
      OBVIOUS
    <3>4. /\ sync.own.spec[j].stop => IsDone(new)
          /\ ~sync.own.spec[j].stop => sync.own.spec[j].restart \in {0, new.restart}
          /\ IsDone(new) \/ (Tracked(j) /\ seen[j].state \notin {"succeeded", "failed"})
      BY <2>2, <3>2, <3>3, Decided DEF BatchInv
    <3>5. batch'.spec[j] = sync.own.spec[j] /\ batch'.status[j] = new
      BY <2>2, <3>3, NewStatusShape
    <3>6. Tracked(j) /\ seen[j].state \notin {"succeeded", "failed"} => Unfinished(j) \/ Coming(j)
      BY DEF Tracked, Unfinished, WatchInv, UpToDate, TypeOK, KubeJobs, KubeJobStates
    <3> QED BY <1>k, <3>4, <3>5, <3>6 DEF Settled, RequiresRestart
  <2>3. CASE sync.err = "deployment" /\ UNCHANGED rdExists
    BY <2>3 DEF BatchInv, ErrInv
  <2>4. sync.err \in {"", "error", "deployment"}
    BY <1>t DEF SyncRecords
  <2> QED BY <1>5, <2>1, <2>2, <2>3, <2>4 DEF SyncStatus, Update, Requeue
<1>6. CASE SyncCondition
  BY <1>6, <1>r DEF SyncCondition, Update, Requeue
<1>7. CASE SyncFails \/ Crash
  BY <1>7, <1>2, <1>t DEF SyncFails, Crash, Requeue, Fail, SyncRecords
<1>8. CASE ReconcileList \/ ReconcileStop \/ ReconcileSkip \/ ReconcileRestart \/ ReconcileCreate \/ MidStatus
  <2>1. sync.i # 0 => NextJob(sync).pc # "idle"
    BY <1>t, NextJobKeeps
  <2>2. ASSUME NEW err, Fail(err) PROVE FALSE
    BY <1>t, <2>2 DEF Fail, SyncRecords
  <2>3. sync.pc \in {"job", "create", "midStatus"} => sync.i # 0
    BY DEF TypeOK
  <2>4. CASE MidStatus
    <3>1. PICK s : s = [sync EXCEPT !.own = NewStatus]
      OBVIOUS
    <3>2. s \in SyncRecords /\ s.i # 0
      BY <1>t, <2>3, <2>4, <3>1, NewStatusType DEF SyncRecords, MidStatus
    <3>3. NextJob(s).pc # "idle"
      BY <3>2, NextJobKeeps
    <3> QED BY <2>2, <2>4, <3>1, <3>3 DEF MidStatus, Update
  <2>5. CASE ReconcileList \/ ReconcileRestart
    BY <1>t, <2>2, <2>5 DEF ReconcileList, ReconcileRestart, SyncRecords
  <2> QED BY <1>8, <2>1, <2>2, <2>3, <2>4, <2>5 DEF ReconcileStop, ReconcileSkip, ReconcileCreate
<1>9. CASE DeliverKubeJob
  <2>1. UNCHANGED <<sync, batch, rdExists, edited>> /\ (pending => pending')
    BY <1>9, Zenon DEF DeliverKubeJob
  <2> QED BY <1>4, <2>1 DEF Apart
<1>10. CASE DeliverBatch
  BY <1>10 DEF DeliverBatch
<1>13. CASE DeleteRD \/ UNCHANGED vars
  <2>1. CASE DeleteRD
    BY <2>1 DEF DeleteRD
  <2>2. CASE UNCHANGED vars
    <3>1. UNCHANGED <<sync, batch>> /\ edited' = edited /\ pending' = pending /\ rdExists' = rdExists
      BY <2>2 DEF vars
    <3>2. Apart
      BY <3>1, Zenon DEF Apart
    <3> QED BY <1>4, <3>2
  <2> QED BY <1>13, <2>1, <2>2
<1>11. ASSUME NEW i \in Jobs, Pods(i) \/ KubeJobExpires(i) PROVE Settled(j)'
  BY <1>4, <1>11 DEF Pods, PodsStart, PodsEnd, KubeJobExpires, Apart
<1>12. ASSUME NEW jobs, Stop(jobs) \/ Restart(jobs) PROVE Settled(j)'
  BY <1>12 DEF Stop, Restart, Edit
<1> QED BY <1>1, <1>5, <1>6, <1>7, <1>8, <1>9, <1>10, <1>11, <1>12, <1>13 DEF Next, SyncStep

(* When nothing is left to do, every stop and restart is taken, a job that is not done has a
   Kubernetes Job that runs, whose end will be an event, and the condition is that of the
   jobs (reconcile, syncStatus, the handlers of Kubernetes Jobs): any number of jobs and
   requests, whatever the cache shows, and whatever is refused, fails or is restarted. *)
THEOREM NothingForgottenHolds == Spec => []NothingForgotten
<1> DEFINE Inv == TypeOK /\ RerunInv /\ WatchInv /\ BatchInv /\ ReconcileInv /\ RestedInv
<1>1. Init => Inv
  <2> SUFFICES ASSUME Init PROVE Inv
    OBVIOUS
  <2>1. /\ stream = <<>> /\ DOMAIN stream = {} /\ seen = kj /\ pending /\ rdExists
        /\ sync.pc = "idle" /\ sync.err = "" /\ sync.list = {} /\ sync.restarted = {}
    <3>1. DOMAIN stream = {}
      BY DEF Init
    <3> QED BY <3>1 DEF Init, Idle
  <2>2. WatchInv
    BY <2>1 DEF WatchInv, UpToDate, LastIsStored, CreatedAfter, CreatedBefore
  <2>3. CondInv /\ PhaseInv
    <3>1. PICK s \in Starts : batch = s.batch
      BY DEF Init
    <3>2. /\ s.batch.cond = "Completed" <=> \A j \in Jobs : s.batch.status[j].phase \in {"Succeeded", "Failed", "Stopped"}
          /\ \A j \in Jobs : s.batch.status[j].phase = "" => s.batch.status[j].restart = 0
      BY <3>1, ConstantsAssumption, Zenon
    <3> QED BY <2>1, <3>1, <3>2 DEF CondInv, PhaseInv, IsDone
  <2>4. BatchInv
    BY <2>1, <2>3 DEF BatchInv, VersionInv, ErrInv
  <2>5. ReconcileInv /\ RestedInv
    BY <2>1 DEF ReconcileInv, HandledInv, ListInv, RestartInv, RestedInv
  <2> QED BY <2>2, <2>4, <2>5, RerunInit, TypeInit
<1>2. Inv /\ [Next]_vars => Inv'
  BY TypeStep, RerunStep, WatchStep, BatchStep, ReconcileStep, RestedStep DEF RerunInv
<1>3. Inv => NothingForgotten
  <2> SUFFICES ASSUME Inv, Quiet, rdExists PROVE NothingForgotten
    BY DEF NothingForgotten
  <2>1. \A j \in Jobs : Settled(j) /\ ~Coming(j)
    BY DEF Quiet, RestedInv, Coming
  <2> QED BY <2>1 DEF NothingForgotten, Settled, BatchInv, CondInv
<1> QED BY <1>1, <1>2, <1>3, PTL DEF Spec
=============================================================================
