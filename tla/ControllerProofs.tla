-------------------------- MODULE ControllerProofs --------------------------
(***************************************************************************)
(* Proofs about the generic controller, for any set of objects, any lock   *)
(* partition and any number of goroutines.                                 *)
(***************************************************************************)
EXTENDS Controller, TLAPS

(* A goroutine has a work item exactly while it is not idle. *)
Busy == \A t \in Threads : pc[t] # "idle" <=> item[t] # NoItem

(* A goroutine past TryGetLock holds the lock of its item's partition. *)
HoldsLock == \A t \in Threads : pc[t] \in Locked => LockKey[item[t]] \in locks

TypeInv == TypeOK /\ Busy

(* Every step of the controller keeps the types, and a goroutine keeps its
   work item until Done. *)
LEMMA TypeStep == TypeInv /\ [Next]_vars => TypeInv'
<1> SUFFICES ASSUME TypeInv, [Next]_vars PROVE TypeInv'
  OBVIOUS
<1> USE ConstantsAssumption DEF TypeInv, TypeOK, Busy, Phases
<1>1. ASSUME NEW i \in Items, ChangeObject(i) PROVE TypeInv'
  BY SMTT(30), <1>1 DEF ChangeObject, workQueue, dispatcher, workers, counters
<1>2. ASSUME NEW i \in Items, Enqueue(i) PROVE TypeInv'
  <2>1. told' \in [Items -> Nat]
    <3>1. PICK v \in (told[i] + 1)..ver[i] : told' = [told EXCEPT ![i] = v]
      BY <1>2 DEF Enqueue
    <3>2. v \in Nat
      OBVIOUS
    <3> QED BY <3>1, <3>2
  <2>2. queue' \in Seq(Items) /\ dirty' \subseteq Items
    BY <1>2 DEF Enqueue, Add
  <2> QED BY <1>2, <2>1, <2>2 DEF Enqueue, dispatcher, workers, counters
<1>3. ASSUME NEW i \in Items, HandleObjectIgnored(i) PROVE TypeInv'
  BY SMTT(30), <1>3 DEF HandleObjectIgnored, workQueue, dispatcher, workers, counters
<1>4. ASSUME NEW i \in Items, DelayExpired(i) PROVE TypeInv'
  BY <1>4 DEF DelayExpired, Add, cluster, dispatcher, workers, counters
<1>5. CASE ProcessNextGet
  BY SMTT(30), <1>5 DEF ProcessNextGet, cluster, workers, counters
<1>6. CASE ProcessNextShutdown
  BY <1>6 DEF ProcessNextShutdown, cluster, workQueue, workers, counters
<1>7. ASSUME NEW t \in Threads, StartWorker(t) PROVE TypeInv'
  BY <1>7 DEF StartWorker, cluster, workQueue, counters
<1>8. ASSUME NEW t \in Threads, Worker(t) PROVE TypeInv'
  <2>1. CASE TryGetLockBusy(t)
    BY <2>1 DEF TryGetLockBusy, AddAfter, cluster, dispatcher, counters
  <2>2. CASE TryGetLock(t)
    BY SMTT(30), <2>2 DEF TryGetLock, cluster, workQueue, dispatcher, counters
  <2>3. CASE SyncRead(t)
    BY <2>3 DEF SyncRead, cluster, workQueue, dispatcher, counters
  <2>4. CASE SyncSucceeds(t)
    BY <2>4 DEF SyncSucceeds, workQueue, dispatcher, counters
  <2>5. CASE SyncConflicts(t)
    BY SMTT(30), <2>5 DEF SyncConflicts, cluster, workQueue, dispatcher
  <2>6. CASE SyncFails(t)
    BY SMTT(30), <2>6 DEF SyncFails, AddAfter, cluster, dispatcher
  <2>7. CASE ReleaseLock(t)
    BY <2>7 DEF ReleaseLock, cluster, workQueue, dispatcher, counters
  <2>8. CASE Done(t)
    <3>1. item[t] \in Items /\ queue' \in Seq(Items) /\ processing' \subseteq Items
      BY <2>8 DEF Done
    <3>2. /\ item' \in [Threads -> Items \cup {NoItem}] /\ pc' \in [Threads -> Phases]
          /\ attempt' \in [Threads -> 0..MaxAttempts] /\ read' \in [Threads -> Nat]
          /\ Busy'
      BY SMTT(30), <2>8 DEF Done
    <3> QED BY <2>8, <3>1, <3>2 DEF Done, cluster, dispatcher, counters
  <2> QED BY <1>8, <2>1, <2>2, <2>3, <2>4, <2>5, <2>6, <2>7, <2>8 DEF Worker
<1>9. CASE ShutDown
  BY <1>9 DEF ShutDown, cluster, workQueue, dispatcher, workers
<1>b. ASSUME Boot, ver' = ver, synced' = synced, failures' = failures, restarts' \in 0..MaxRestarts
      PROVE TypeInv'
  <2>1. /\ ver' \in [Items -> Nat] /\ told' \in [Items -> Nat] /\ synced' \in [Items -> Nat]
        /\ \A i \in Items : ver'[i] \in 1..MaxVersion[i]
        /\ dropped' \subseteq Items
    BY <1>b DEF Boot
  <2>2. queue' \in Seq(Items) /\ dirty' \subseteq Items /\ processing' \subseteq Items /\ delayed' \subseteq Items
    BY <1>b DEF Boot
  <2>3. shutting' \in BOOLEAN /\ stopped' \in BOOLEAN /\ held' \in Items \cup {NoItem} /\ locks' \subseteq LockKeys
    BY <1>b DEF Boot
  <2>4. pc' \in [Threads -> Phases] /\ item' \in [Threads -> Items \cup {NoItem}]
    BY <1>b DEF Boot
  <2>5. attempt' \in [Threads -> 0..MaxAttempts] /\ read' \in [Threads -> Nat]
    BY <1>b DEF Boot
  <2>6. failures' \in 0..MaxFailures /\ restarts' \in 0..MaxRestarts
    BY <1>b DEF Boot
  <2>7. Busy'
    BY <1>b DEF Boot
  <2> HIDE DEF Busy
  <2> QED BY <2>1, <2>2, <2>3, <2>4, <2>5, <2>6, <2>7
<1>10. CASE Crash
  BY <1>10, <1>b DEF Crash
<1>11. CASE Restart
  BY <1>11, <1>b DEF Restart, counters
<1>12. CASE UNCHANGED vars
  BY <1>12 DEF vars, cluster, workQueue, dispatcher, workers, counters
<1> QED BY <1>1, <1>2, <1>3, <1>4, <1>5, <1>6, <1>7, <1>8, <1>9, <1>10, <1>11, <1>12 DEF Next

(* The initial state is well typed. *)
LEMMA TypeInit == Init => TypeInv
<1> SUFFICES ASSUME Init PROVE TypeInv
  OBVIOUS
<1> USE ConstantsAssumption DEF Phases
<1>1. /\ ver \in [Items -> Nat] /\ told \in [Items -> Nat] /\ synced \in [Items -> Nat]
      /\ \A i \in Items : ver[i] \in 1..MaxVersion[i]
      /\ dropped \subseteq Items
  BY DEF Init, Busy
<1>2. queue \in Seq(Items) /\ dirty \subseteq Items /\ processing \subseteq Items /\ delayed \subseteq Items
  BY DEF Init, Busy
<1>3. shutting \in BOOLEAN /\ stopped \in BOOLEAN /\ held \in Items \cup {NoItem} /\ locks \subseteq LockKeys
  BY DEF Init, Busy
<1>4. pc \in [Threads -> Phases] /\ item \in [Threads -> Items \cup {NoItem}]
  BY DEF Init, Busy
<1>5. attempt \in [Threads -> 0..MaxAttempts] /\ read \in [Threads -> Nat]
  BY DEF Init, Busy
<1>6. failures \in 0..MaxFailures /\ restarts \in 0..MaxRestarts
  BY DEF Init, Busy
<1>7. Busy
  BY DEF Init, Busy
<1> QED BY <1>1, <1>2, <1>3, <1>4, <1>5, <1>6, <1>7 DEF TypeInv, TypeOK

(* The state of queue, dispatcher, locks and goroutines always has its type. *)
THEOREM TypeCorrect == Spec => []TypeOK
<1>1. TypeInv => TypeOK BY DEF TypeInv
<1> QED BY TypeInit, TypeStep, <1>1, PTL DEF Spec

-----------------------------------------------------------------------------
ExclusionInv == TypeInv /\ HoldsLock /\ PartitionExclusion

(* A step keeps the lock discipline: TryGetLock enters only a free partition
   and ReleaseLock frees only the partition of the goroutine that leaves. *)
LEMMA ExclusionStep == ExclusionInv /\ [Next]_vars => ExclusionInv'
<1> SUFFICES ASSUME ExclusionInv, [Next]_vars PROVE ExclusionInv'
  OBVIOUS
<1>t. TypeInv /\ TypeInv'
  BY TypeStep DEF ExclusionInv
<1> SUFFICES HoldsLock' /\ PartitionExclusion'
  BY <1>t DEF ExclusionInv
<1> USE ConstantsAssumption, <1>t DEF ExclusionInv, TypeInv, TypeOK, Busy, HoldsLock, PartitionExclusion, Locked
<1>1. CASE UNCHANGED <<locks, pc, item>>
  BY <1>1
<1>2. ASSUME NEW t \in Threads, StartWorker(t) PROVE HoldsLock' /\ PartitionExclusion'
  BY <1>2 DEF StartWorker
<1>3. ASSUME NEW t \in Threads, Worker(t) PROVE HoldsLock' /\ PartitionExclusion'
  <2>1. CASE TryGetLockBusy(t) BY <2>1 DEF TryGetLockBusy, dispatcher
  <2>2. CASE TryGetLock(t) BY ZenonT(30), <2>2 DEF TryGetLock, dispatcher
  <2>3. CASE SyncRead(t) BY SMTT(30), <2>3 DEF SyncRead, dispatcher
  <2>4. CASE SyncSucceeds(t) BY SMTT(30), <2>4 DEF SyncSucceeds, dispatcher
  <2>5. CASE SyncConflicts(t) BY ZenonT(30), <2>5 DEF SyncConflicts, dispatcher
  <2>6. CASE SyncFails(t) BY ZenonT(30), <2>6 DEF SyncFails, dispatcher
  <2>7. CASE ReleaseLock(t) BY <2>7 DEF ReleaseLock, dispatcher
  <2>8. CASE Done(t) BY ZenonT(30), <2>8 DEF Done, dispatcher
  <2> QED BY <1>3, <2>1, <2>2, <2>3, <2>4, <2>5, <2>6, <2>7, <2>8 DEF Worker
<1>4. CASE Boot
  BY <1>4 DEF Boot
<1> QED BY <1>1, <1>2, <1>3, <1>4 DEF Next, ChangeObject, Enqueue, HandleObjectIgnored, DelayExpired,
     ProcessNextGet, ProcessNextShutdown, ShutDown, Crash, Restart, vars, workers

(* Two goroutines never sync objects of one partition at the same time. *)
THEOREM PartitionExclusionHolds == Spec => []PartitionExclusion
<1>1. Init => ExclusionInv
  BY TypeInit DEF Init, ExclusionInv, HoldsLock, PartitionExclusion, Locked
<1>2. ExclusionInv => PartitionExclusion BY DEF ExclusionInv
<1> QED BY ExclusionStep, <1>1, <1>2, PTL DEF Spec

-----------------------------------------------------------------------------
(* The queue holds each dirty item that nobody is processing, once. *)
QueueInv ==
  /\ \A n \in 1..Len(queue) : queue[n] \in dirty /\ queue[n] \notin processing
  /\ \A m, n \in 1..Len(queue) : queue[m] = queue[n] => m = n
  /\ \A i \in dirty : InQueue(i) \/ i \in processing

(* An item that is being processed is in one pair of hands. *)
HandsInv ==
  /\ held # NoItem => held \in processing /\ \A t \in Threads : item[t] # held
  /\ \A t \in Threads : item[t] # NoItem => item[t] \in processing
  /\ \A s, t \in Threads : s # t /\ item[s] # NoItem => item[s] # item[t]
  /\ \A i \in processing : held = i \/ \E t \in Threads : item[t] = i

(* What a running Sync read is between the last successful Sync and now. *)
ReadInv ==
  /\ \A i \in Items : synced[i] <= ver[i] /\ told[i] <= ver[i]
  /\ \A t \in Threads : pc[t] = "syncing" => /\ synced[item[t]] <= read[t]
                                             /\ read[t] <= ver[item[t]]

WorkInv == TypeInv /\ QueueInv /\ HandsInv /\ ReadInv

(* Pushing an item that is not in the queue keeps the queue free of duplicates. *)
LEMMA PushKeepsQueueInv ==
  ASSUME QueueInv, queue \in Seq(Items), NEW i \in Items, queue' = Append(queue, i),
         dirty' = dirty \cup {i}, processing' \subseteq processing, i \notin processing',
         processing \subseteq processing' \cup {i}, ~InQueue(i)
  PROVE  QueueInv'
<1> USE DEF QueueInv, InQueue
<1>1. /\ Len(queue) \in Nat /\ Len(queue') = Len(queue) + 1 /\ queue'[Len(queue) + 1] = i
      /\ \A n \in 1..Len(queue) : queue'[n] = queue[n] /\ queue[n] # i
  OBVIOUS
<1>2. \A n \in 1..Len(queue') : n \in 1..Len(queue) \/ n = Len(queue) + 1
  BY <1>1
<1>3. \A j \in dirty' : InQueue(j)' \/ j \in processing'
  <2> SUFFICES ASSUME NEW j \in dirty', j \notin processing' PROVE InQueue(j)'
    OBVIOUS
  <2>1. CASE j = i
    BY <1>1, <2>1
  <2>2. CASE j # i
    <3>1. PICK n \in 1..Len(queue) : queue[n] = j
      BY <2>2
    <3>2. n \in 1..Len(queue') /\ queue'[n] = j
      BY <1>1, <3>1
    <3> QED BY <3>2
  <2> QED BY <2>1, <2>2
<1>4. \A n \in 1..Len(queue') : queue'[n] \in dirty' /\ queue'[n] \notin processing'
  BY <1>1, <1>2
<1>5. \A m, n \in 1..Len(queue') : queue'[m] = queue'[n] => m = n
  BY <1>1, <1>2
<1> QED BY <1>3, <1>4, <1>5

(* A step keeps every item in exactly one place. *)
LEMMA QueueStep == WorkInv /\ [Next]_vars => QueueInv' /\ HandsInv'
<1> SUFFICES ASSUME WorkInv, [Next]_vars PROVE QueueInv' /\ HandsInv'
  OBVIOUS
<1>t. TypeInv /\ TypeInv'
  BY TypeStep DEF WorkInv
<1> USE ConstantsAssumption, <1>t DEF WorkInv, TypeInv, TypeOK, Busy, QueueInv, HandsInv, InQueue
<1>a. ASSUME NEW i \in Items, Add(i), UNCHANGED <<processing, held, item>> PROVE QueueInv' /\ HandsInv'
  <2>1. CASE queue' = queue
    <3>1. \A j \in dirty' : InQueue(j)' \/ j \in processing'
      BY <1>a, <2>1 DEF Add
    <3> QED BY <1>a, <2>1, <3>1 DEF Add
  <2>2. CASE queue' = Append(queue, i) /\ ~shutting /\ i \notin dirty /\ i \notin processing
    <3>1. ~InQueue(i) /\ dirty' = dirty \cup {i} /\ processing' = processing
      BY ZenonT(30), <1>a, <2>2 DEF Add
    <3>2. HandsInv'
      BY <1>a
    <3>3. QueueInv /\ queue \in Seq(Items)
      OBVIOUS
    <3> HIDE DEF WorkInv, TypeInv, QueueInv, HandsInv, InQueue
    <3> QED BY <2>2, <3>1, <3>2, <3>3, PushKeepsQueueInv
  <2> QED BY <1>a, <2>1, <2>2 DEF Add
<1>1. CASE UNCHANGED <<queue, dirty, processing, held, item>>
  BY <1>1
<1>2. CASE ProcessNextGet
  <2>1. /\ Head(queue) = queue[1] /\ 1 \in 1..Len(queue) /\ Len(Tail(queue)) = Len(queue) - 1
        /\ \A n \in 1..Len(Tail(queue)) : Tail(queue)[n] = queue[n + 1]
    BY SMTT(30), <1>2 DEF ProcessNextGet
  <2>2. QueueInv'
    <3>1. \A i \in dirty' : InQueue(i)' \/ i \in processing'
      <4> SUFFICES ASSUME NEW i \in dirty', i \notin processing' PROVE InQueue(i)'
        OBVIOUS
      <4>1. PICK n \in 1..Len(queue) : queue[n] = i
        BY <1>2 DEF ProcessNextGet
      <4>2. n # 1
        BY <1>2, <2>1, <4>1 DEF ProcessNextGet
      <4>3. n - 1 \in 1..Len(queue') /\ queue'[n - 1] = i
        BY <1>2, <2>1, <4>1, <4>2 DEF ProcessNextGet
      <4> QED BY <4>3
    <3>2. \A n \in 1..Len(queue') : /\ n + 1 \in 1..Len(queue) /\ queue'[n] = queue[n + 1]
                                    /\ queue[n + 1] # queue[1]
      BY <1>2, <2>1 DEF ProcessNextGet
    <3>3. \A n \in 1..Len(queue') : queue'[n] \in dirty' /\ queue'[n] \notin processing'
      BY <1>2, <2>1, <3>2 DEF ProcessNextGet
    <3>4. \A m, n \in 1..Len(queue') : queue'[m] = queue'[n] => m = n
      <4> SUFFICES ASSUME NEW m \in 1..Len(queue'), NEW n \in 1..Len(queue'), queue'[m] = queue'[n]
                   PROVE m = n
        OBVIOUS
      <4>1. m + 1 = n + 1
        BY <3>2
      <4> QED BY <4>1
    <3> QED BY <3>1, <3>3, <3>4
  <2>3. HandsInv'
    <3>1. /\ held = NoItem /\ held' = queue[1] /\ processing' = processing \cup {queue[1]}
          /\ UNCHANGED item /\ queue[1] \notin processing /\ queue[1] \in Items
      BY <1>2, <2>1 DEF ProcessNextGet, workers
    <3>2. held' # NoItem => held' \in processing' /\ \A t \in Threads : item'[t] # held'
      BY <3>1
    <3>3. \A t \in Threads : item'[t] # NoItem => item'[t] \in processing'
      BY <3>1
    <3>4. \A i \in processing' : held' = i \/ \E t \in Threads : item'[t] = i
      <4> SUFFICES ASSUME NEW i \in processing', i # held' PROVE \E t \in Threads : item'[t] = i
        OBVIOUS
      <4>1. i \in processing /\ i # NoItem
        BY <3>1
      <4> QED BY <3>1, <4>1
    <3> QED BY <3>1, <3>2, <3>3, <3>4
  <2> QED BY <2>2, <2>3
<1>3. ASSUME NEW t \in Threads, StartWorker(t) PROVE QueueInv' /\ HandsInv'
  BY SMTT(30), <1>3 DEF StartWorker, workQueue
<1>4. ASSUME NEW t \in Threads, Done(t) PROVE QueueInv' /\ HandsInv'
  <2> DEFINE i == item[t]
  <2>1. /\ i \in Items /\ i \in processing /\ processing' = processing \ {i}
        /\ item' = [item EXCEPT ![t] = NoItem] /\ UNCHANGED <<held, dirty>>
        /\ queue' = IF i \in dirty THEN Append(queue, i) ELSE queue
    BY <1>4 DEF Done, dispatcher
  <2>2. HandsInv'
    BY <2>1
  <2>3. CASE i \in dirty
    <3>1. ~InQueue(i)
      BY <2>1
    <3>2. QueueInv /\ queue \in Seq(Items)
      OBVIOUS
    <3>3. dirty' = dirty \cup {i}
      BY SMTT(30), <2>1, <2>3
    <3> HIDE DEF WorkInv, TypeInv, QueueInv, HandsInv, InQueue, i
    <3> QED BY <2>1, <2>2, <2>3, <3>1, <3>2, <3>3, PushKeepsQueueInv
  <2>4. CASE i \notin dirty
    <3>1. queue' = queue /\ dirty' = dirty
      BY <2>1, <2>4
    <3>2. \A j \in dirty' : InQueue(j)' \/ j \in processing'
      <4> SUFFICES ASSUME NEW j \in dirty', j \notin processing' PROVE InQueue(j)'
        OBVIOUS
      <4>1. j \in dirty /\ j \notin processing
        BY <2>1, <2>4, <3>1
      <4> QED BY <3>1, <4>1
    <3>3. QueueInv'
      BY ZenonT(30), <2>1, <3>1, <3>2
    <3> QED BY <2>2, <3>3
  <2> QED BY <2>3, <2>4
<1>5. CASE Boot
  BY <1>5 DEF Boot
<1>6. ASSUME NEW i \in Items, Enqueue(i) \/ DelayExpired(i) PROVE QueueInv' /\ HandsInv'
  BY <1>6, <1>a DEF Enqueue, DelayExpired, dispatcher, workers
<1>7. ASSUME NEW t \in Threads, Worker(t), ~Done(t) PROVE QueueInv' /\ HandsInv'
  BY <1>1, <1>7 DEF Worker, TryGetLockBusy, TryGetLock, SyncRead, SyncSucceeds, SyncConflicts,
     SyncFails, ReleaseLock, workQueue, dispatcher
<1> QED BY <1>1, <1>2, <1>3, <1>4, <1>5, <1>6, <1>7 DEF Next, ChangeObject, HandleObjectIgnored,
     ProcessNextShutdown, ShutDown, Crash, Restart, vars, workQueue, workers, dispatcher

(* A step keeps what running Syncs have read in order. *)
LEMMA ReadStep == WorkInv /\ [Next]_vars => ReadInv'
<1> SUFFICES ASSUME WorkInv, [Next]_vars PROVE ReadInv'
  OBVIOUS
<1>t. TypeInv /\ TypeInv'
  BY TypeStep DEF WorkInv
<1> USE ConstantsAssumption, <1>t DEF WorkInv, TypeInv, TypeOK, Busy, HandsInv, ReadInv
<1>1. CASE UNCHANGED <<ver, told, synced, pc, item, read>>
  BY <1>1
<1>2. ASSUME NEW i \in Items, ChangeObject(i) PROVE ReadInv'
  BY SMTT(30), <1>2 DEF ChangeObject, workers
<1>3. ASSUME NEW i \in Items, Enqueue(i) \/ HandleObjectIgnored(i) PROVE ReadInv'
  <2>1. PICK v \in (told[i] + 1)..ver[i] : told' = [told EXCEPT ![i] = v]
    BY <1>3 DEF Enqueue, HandleObjectIgnored
  <2>2. UNCHANGED <<ver, synced, pc, item, read>>
    BY <1>3 DEF Enqueue, HandleObjectIgnored, workers
  <2> QED BY <2>1, <2>2
<1>4. ASSUME NEW t \in Threads, StartWorker(t) PROVE ReadInv'
  BY <1>4 DEF StartWorker, cluster
<1>5. ASSUME NEW t \in Threads, Worker(t) PROVE ReadInv'
  <2>1. CASE TryGetLockBusy(t) BY <2>1 DEF TryGetLockBusy, cluster
  <2>2. CASE TryGetLock(t) BY <2>2 DEF TryGetLock, cluster
  <2>3. CASE SyncRead(t)
    <3>1. /\ pc[t] = "sync" /\ pc' = [pc EXCEPT ![t] = "syncing"]
          /\ read' = [read EXCEPT ![t] = ver[item[t]]]
          /\ ver' = ver /\ told' = told /\ synced' = synced /\ item' = item
      BY <2>3 DEF SyncRead, cluster
    <3>2. item[t] \in Items
      BY <3>1
    <3>3. \A i \in Items : synced'[i] <= ver'[i] /\ told'[i] <= ver'[i]
      BY <3>1
    <3>4. ASSUME NEW s \in Threads, pc'[s] = "syncing"
          PROVE  synced'[item'[s]] <= read'[s] /\ read'[s] <= ver'[item'[s]]
      <4>1. CASE s = t
        BY <3>1, <3>2, <4>1
      <4>2. CASE s # t
        BY <3>1, <3>4, <4>2
      <4> QED BY <4>1, <4>2
    <3> QED BY <3>3, <3>4
  <2>4. CASE SyncSucceeds(t) BY SMTT(30), <2>4 DEF SyncSucceeds
  <2>5. CASE SyncConflicts(t) BY <2>5 DEF SyncConflicts, cluster
  <2>6. CASE SyncFails(t) BY <2>6 DEF SyncFails, cluster
  <2>7. CASE ReleaseLock(t) BY <2>7 DEF ReleaseLock, cluster
  <2>8. CASE Done(t) BY SMTT(30), <2>8 DEF Done, cluster
  <2> QED BY <1>5, <2>1, <2>2, <2>3, <2>4, <2>5, <2>6, <2>7, <2>8 DEF Worker
<1>6. ASSUME Boot, UNCHANGED <<ver, synced>> PROVE ReadInv'
  BY <1>6 DEF Boot
<1> QED BY <1>1, <1>2, <1>3, <1>4, <1>5, <1>6 DEF Next, DelayExpired, ProcessNextGet,
     ProcessNextShutdown, ShutDown, Crash, Restart, vars, workers, cluster

(* The invariant of the work queue and the goroutines is inductive. *)
LEMMA WorkInvariant == Spec => []WorkInv
<1>1. Init => WorkInv
  <2> SUFFICES ASSUME Init PROVE WorkInv
    OBVIOUS
  <2>1. QueueInv /\ HandsInv
    BY TypeInit DEF Init, QueueInv, HandsInv, InQueue
  <2>2. ReadInv
    BY TypeInit DEF Init, ReadInv
  <2> QED BY TypeInit, <2>1, <2>2 DEF WorkInv
<1>2. WorkInv /\ [Next]_vars => WorkInv'
  BY TypeStep, QueueStep, ReadStep DEF WorkInv
<1> QED BY <1>1, <1>2, PTL DEF Spec

(* A Sync that started from an older version never overwrites the result of one
   that started from a newer version, across conflicts, requeues and restarts. *)
THEOREM SyncedMonotonic == Spec => SyncedNeverRegresses
<1>1. WorkInv /\ [Next]_vars => [\A i \in Items : synced'[i] >= synced[i]]_vars
  <2> SUFFICES ASSUME WorkInv, Next PROVE \A i \in Items : synced'[i] >= synced[i]
    BY DEF vars
  <2> USE DEF WorkInv, TypeInv, TypeOK, Busy, ReadInv
  <2>1. CASE synced' = synced
    BY <2>1
  <2>2. ASSUME NEW t \in Threads, SyncSucceeds(t) PROVE \A i \in Items : synced'[i] >= synced[i]
    BY <2>2 DEF SyncSucceeds
  <2> QED BY <2>1, <2>2 DEF Next, ChangeObject, Enqueue, HandleObjectIgnored, DelayExpired, ProcessNextGet,
       ProcessNextShutdown, StartWorker, Worker, TryGetLockBusy, TryGetLock, SyncRead, SyncConflicts,
       SyncFails, ReleaseLock, Done, ShutDown, Crash, Restart, cluster
<1> QED BY WorkInvariant, <1>1, PTL DEF Spec, SyncedNeverRegresses

-----------------------------------------------------------------------------
(* No step loses a delivered change, except HandleObject when it drops the event. *)
LEMMA NoLostStep ==
  ASSUME WorkInv, NoLostChange, [Next]_vars
  PROVE  NoLostChange'
<1> SUFFICES ASSUME ~shutting', NEW i \in Items, i \notin dropped', synced'[i] < told'[i] PROVE Pending(i)'
  BY DEF NoLostChange
<1>t. TypeInv /\ TypeInv'
  BY TypeStep DEF WorkInv
<1>q. QueueInv' /\ HandsInv'
  BY QueueStep
<1>b. ~Boot
  BY <1>t DEF Boot, TypeInv, TypeOK
<1>s. ~shutting
  BY <1>b DEF Next, ChangeObject, Enqueue, HandleObjectIgnored, DelayExpired, ProcessNextGet, ProcessNextShutdown,
     StartWorker, Worker, TryGetLockBusy, TryGetLock, SyncRead, SyncSucceeds, SyncConflicts, SyncFails, ReleaseLock,
     Done, ShutDown, Crash, Restart, vars
<1>p. ASSUME synced[i] < told[i], i \notin dropped PROVE Pending(i)
  BY <1>p, <1>s DEF NoLostChange
<1>d. i \in dirty' => Pending(i)'
  BY <1>q DEF QueueInv, HandsInv, Pending
<1>m. InQueue(i) => i \in dirty
  BY DEF WorkInv, QueueInv, InQueue
<1>k. ASSUME Pending(i), ~InQueue(i), i \notin dirty, told'[i] = told[i],
             i \in delayed => i \in delayed', held' = held,
             \A t \in Threads : item[t] = i /\ pc[t] # "done" => item'[t] = i /\ pc'[t] = pc[t] /\ read'[t] = read[t]
      PROVE  Pending(i)'
  <2>1. CASE i \in delayed \/ held = i
    BY <1>k, <2>1 DEF Pending
  <2>2. CASE \E t \in Threads : /\ item[t] = i
                                /\ pc[t] \in {"trylock", "sync"} \/ (pc[t] = "syncing" /\ read[t] >= told[i])
    BY <1>k, <2>2 DEF Pending
  <2> QED BY <1>k, <2>1, <2>2 DEF Pending
<1> USE ConstantsAssumption, <1>t, <1>s DEF TypeInv, TypeOK, Busy
<1>1. CASE UNCHANGED <<told, synced, dropped, queue, dirty, delayed, held, pc, item, read>>
  BY <1>1, <1>p DEF Pending, InQueue
<1>2. ASSUME NEW j \in Items, Enqueue(j) PROVE Pending(i)'
  <2>1. CASE i = j
    BY <1>2, <1>d, <2>1 DEF Enqueue, Add
  <2>2. CASE i # j
    <3>1. Pending(i) /\ told'[i] = told[i]
      BY <1>2, <1>p, <2>2 DEF Enqueue
    <3>2. CASE InQueue(i) \/ i \in dirty
      BY <1>2, <1>d, <1>m, <3>2 DEF Enqueue, Add
    <3>3. CASE ~InQueue(i) /\ i \notin dirty
      BY <1>2, <1>k, <3>1, <3>3 DEF Enqueue, dispatcher, workers
    <3> QED BY <3>2, <3>3
  <2> QED BY <2>1, <2>2
<1>3. ASSUME NEW j \in Items, DelayExpired(j) PROVE Pending(i)'
  <2>1. Pending(i)
    BY <1>3, <1>p DEF DelayExpired, cluster
  <2>2. CASE i = j \/ InQueue(i) \/ i \in dirty
    BY <1>3, <1>d, <1>m, <2>2 DEF DelayExpired, Add
  <2>3. CASE i # j /\ ~InQueue(i) /\ i \notin dirty
    BY <1>3, <1>k, <2>1, <2>3 DEF DelayExpired, cluster, dispatcher, workers
  <2> QED BY <2>2, <2>3
<1>4. CASE ProcessNextGet
  <2>1. Pending(i)
    BY <1>4, <1>p DEF ProcessNextGet, cluster
  <2>2. Head(queue) = queue[1] /\ Head(queue) \in Items
    BY <1>4 DEF ProcessNextGet
  <2>3. CASE i = Head(queue)
    BY <1>4, <2>3 DEF ProcessNextGet, Pending
  <2>4. CASE i # Head(queue) /\ (InQueue(i) \/ i \in dirty)
    BY <1>4, <1>d, <1>m, <2>4 DEF ProcessNextGet
  <2>5. CASE ~InQueue(i) /\ i \notin dirty
    <3>1. /\ held = NoItem /\ i # NoItem /\ delayed' = delayed /\ told' = told
          /\ item' = item /\ pc' = pc /\ read' = read
      BY <1>4 DEF ProcessNextGet, cluster, workers
    <3>2. CASE i \in delayed
      BY <3>1, <3>2 DEF Pending
    <3>3. CASE i \notin delayed
      BY <2>1, <2>5, <3>1, <3>3 DEF Pending
    <3> QED BY <3>2, <3>3
  <2> QED BY <2>3, <2>4, <2>5
<1>5. ASSUME NEW t \in Threads, StartWorker(t) PROVE Pending(i)'
  <2>1. Pending(i)
    BY <1>5, <1>p DEF StartWorker, cluster
  <2>2. CASE held = i
    BY <1>5, <2>2 DEF StartWorker, Pending
  <2>3. CASE held # i
    BY <1>5, <2>1, <2>3 DEF StartWorker, Pending, InQueue, cluster, workQueue
  <2> QED BY <2>2, <2>3
<1>6. ASSUME NEW t \in Threads, TryGetLockBusy(t) PROVE Pending(i)'
  BY <1>6, <1>p DEF TryGetLockBusy, AddAfter, Pending, InQueue, cluster, dispatcher
<1>7. ASSUME NEW t \in Threads, TryGetLock(t) PROVE Pending(i)'
  BY <1>7, <1>p DEF TryGetLock, Pending, InQueue, cluster, workQueue, dispatcher
<1>8. ASSUME NEW t \in Threads, SyncRead(t) PROVE Pending(i)'
  BY <1>8, <1>p DEF SyncRead, Pending, InQueue, WorkInv, ReadInv, cluster, workQueue, dispatcher
<1>9. ASSUME NEW t \in Threads, SyncSucceeds(t) PROVE Pending(i)'
  <2>1. synced[i] < told[i] /\ told'[i] = told[i]
    BY <1>9 DEF SyncSucceeds, WorkInv, ReadInv
  <2>2. item[t] = i => read[t] < told[i]
    BY <1>9, <2>1 DEF SyncSucceeds
  <2> QED BY SMTT(30), <1>9, <1>p, <2>1, <2>2 DEF SyncSucceeds, Pending, InQueue, workQueue, dispatcher
<1>10. ASSUME NEW t \in Threads, SyncConflicts(t) PROVE Pending(i)'
  BY <1>10, <1>p DEF SyncConflicts, Pending, InQueue, cluster, workQueue, dispatcher
<1>11. ASSUME NEW t \in Threads, SyncFails(t) PROVE Pending(i)'
  BY <1>11, <1>p DEF SyncFails, AddAfter, Pending, InQueue, cluster, dispatcher
<1>12. ASSUME NEW t \in Threads, ReleaseLock(t) PROVE Pending(i)'
  BY <1>12, <1>p DEF ReleaseLock, Pending, InQueue, cluster, workQueue, dispatcher
<1>13. ASSUME NEW t \in Threads, Done(t) PROVE Pending(i)'
  <2>1. Pending(i)
    BY <1>13, <1>p DEF Done, cluster
  <2>2. CASE InQueue(i) \/ i \in dirty
    BY <1>13, <1>d, <1>m, <2>2 DEF Done
  <2>3. CASE ~InQueue(i) /\ i \notin dirty
    BY <1>13, <1>k, <2>1, <2>3 DEF Done, cluster, dispatcher
  <2> QED BY <2>2, <2>3
<1>14. ASSUME NEW j \in Items, HandleObjectIgnored(j) PROVE Pending(i)'
  <2>1. i # j /\ i \notin dropped /\ told'[i] = told[i]
    BY <1>14 DEF HandleObjectIgnored
  <2>2. Pending(i)
    BY <1>14, <1>p, <2>1 DEF HandleObjectIgnored
  <2> QED BY <1>14, <2>1, <2>2 DEF HandleObjectIgnored, Pending, InQueue, workQueue, dispatcher, workers
<1> QED BY <1>b, <1>1, <1>2, <1>3, <1>4, <1>5, <1>6, <1>7, <1>8, <1>9, <1>10, <1>11, <1>12, <1>13, <1>14
     DEF Next, Worker, ChangeObject, ProcessNextShutdown, ShutDown, Crash, Restart,
     vars, cluster, workQueue, workers, dispatcher

(* A change the informers delivered is synced or has a Sync ahead of it, unless
   HandleObject dropped the event. *)
THEOREM NoLostChangeHolds == Spec => []NoLostChange
<1>1. Init => NoLostChange
  BY DEF Init, NoLostChange
<1>2. WorkInv /\ NoLostChange /\ [Next]_vars => NoLostChange'
  BY NoLostStep
<1> QED BY WorkInvariant, <1>1, <1>2, PTL DEF Spec

-----------------------------------------------------------------------------
(* A Sync has read a version, which is never 0, before it commits or gives up. *)
HasRead == \A t \in Threads : pc[t] = "syncing" => read[t] # 0

SerialInv == ExclusionInv /\ HasRead

LEMMA SerialStep == SerialInv /\ [Next]_vars => SerialInv'
<1> SUFFICES ASSUME SerialInv, [Next]_vars PROVE HasRead'
  BY ExclusionStep DEF SerialInv
<1> USE ConstantsAssumption DEF SerialInv, ExclusionInv, TypeInv, TypeOK, Busy, HasRead
<1>1. CASE UNCHANGED <<pc, read>>
  BY <1>1
<1>2. ASSUME NEW t \in Threads, StartWorker(t) PROVE HasRead'
  BY <1>2 DEF StartWorker
<1>3. ASSUME NEW t \in Threads, SyncRead(t) PROVE HasRead'
  <2>1. item[t] \in Items /\ ver[item[t]] # 0
    BY <1>3 DEF SyncRead
  <2> QED BY <1>3, <2>1 DEF SyncRead
<1>4. ASSUME NEW t \in Threads, Worker(t), ~SyncRead(t) PROVE HasRead'
  BY <1>4 DEF Worker, TryGetLockBusy, TryGetLock, SyncSucceeds, SyncConflicts, SyncFails, ReleaseLock, Done
<1>5. CASE Boot
  BY <1>5 DEF Boot
<1> QED BY <1>1, <1>2, <1>3, <1>4, <1>5 DEF Next, ChangeObject, Enqueue, HandleObjectIgnored, DelayExpired,
     ProcessNextGet, ProcessNextShutdown, ShutDown, Crash, Restart, vars, workers

(* What the mapping of Serial yields: the Sync of the one goroutine that holds
   the partition, or none. *)
Mapped ==
  /\ ActiveSync = [k \in LockKeys |-> ActiveSync[k]]
  /\ SyncHasRead = [k \in LockKeys |-> SyncHasRead[k]]
  /\ \A t \in Threads, k \in LockKeys : Holds(t, k) =>
       /\ ActiveSync[k] = item[t]
       /\ SyncHasRead[k] = IF pc[t] = "syncing" THEN read[t] ELSE 0
  /\ \A k \in LockKeys : (\A t \in Threads : ~Holds(t, k)) => ActiveSync[k] = NoItem /\ SyncHasRead[k] = 0

LEMMA MappingIsExact == ASSUME ExclusionInv PROVE Mapped
<1>1. ActiveSync = [k \in LockKeys |-> ActiveSync[k]] /\ SyncHasRead = [k \in LockKeys |-> SyncHasRead[k]]
  BY DEF ActiveSync, SyncHasRead
<1>2. ASSUME NEW t \in Threads, NEW k \in LockKeys, Holds(t, k)
      PROVE  /\ ActiveSync[k] = item[t]
             /\ SyncHasRead[k] = IF pc[t] = "syncing" THEN read[t] ELSE 0
  <2>1. \A s \in Threads : Holds(s, k) => s = t
    BY <1>2 DEF Holds, ExclusionInv, PartitionExclusion
  <2>2. (CHOOSE s \in Threads : Holds(s, k)) = t
    BY <1>2, <2>1
  <2>3. (\E s \in Threads : Holds(s, k) /\ pc[s] = "syncing") <=> pc[t] = "syncing"
    BY <1>2, <2>1
  <2> QED BY <1>2, <2>2, <2>3 DEF ActiveSync, SyncHasRead
<1>3. ASSUME NEW k \in LockKeys, \A t \in Threads : ~Holds(t, k) PROVE ActiveSync[k] = NoItem /\ SyncHasRead[k] = 0
  BY <1>3 DEF ActiveSync, SyncHasRead
<1> QED BY <1>1, <1>2, <1>3 DEF Mapped

(* A step of one goroutine leaves the other partitions as they are. *)
LEMMA OthersKeep ==
  ASSUME Mapped, Mapped', NEW t \in Threads,
         \A s \in Threads : s # t => pc'[s] = pc[s] /\ item'[s] = item[s] /\ read'[s] = read[s],
         NEW k \in LockKeys, ~Holds(t, k), ~Holds(t, k)'
  PROVE  ActiveSync'[k] = ActiveSync[k] /\ SyncHasRead'[k] = SyncHasRead[k]
<1>1. \A s \in Threads : Holds(s, k)' <=> Holds(s, k)
  BY DEF Holds
<1>2. CASE \A s \in Threads : ~Holds(s, k)
  BY <1>1, <1>2 DEF Mapped
<1>3. ASSUME NEW s \in Threads, Holds(s, k) PROVE ActiveSync'[k] = ActiveSync[k] /\ SyncHasRead'[k] = SyncHasRead[k]
  <2>1. s # t /\ Holds(s, k)'
    BY <1>1, <1>3
  <2> QED BY <1>3, <2>1 DEF Mapped
<1> QED BY <1>2, <1>3

(* Without a change of the goroutines the mapping yields the same. *)
LEMMA WorkersKeep ==
  ASSUME Mapped, Mapped', \A t \in Threads : \/ pc'[t] = pc[t] /\ item'[t] = item[t] /\ read'[t] = read[t]
                                             \/ pc[t] \notin Locked /\ pc'[t] \notin Locked
  PROVE  ActiveSync' = ActiveSync /\ SyncHasRead' = SyncHasRead
<1>1. ASSUME NEW k \in LockKeys PROVE ActiveSync'[k] = ActiveSync[k] /\ SyncHasRead'[k] = SyncHasRead[k]
  <2>1. \A s \in Threads : Holds(s, k)' <=> Holds(s, k)
    BY DEF Holds
  <2>2. CASE \A s \in Threads : ~Holds(s, k)
    BY <2>1, <2>2 DEF Mapped
  <2>3. ASSUME NEW s \in Threads, Holds(s, k) PROVE ActiveSync'[k] = ActiveSync[k] /\ SyncHasRead'[k] = SyncHasRead[k]
    <3>1. pc'[s] = pc[s] /\ item'[s] = item[s] /\ read'[s] = read[s] /\ Holds(s, k)'
      BY <2>1, <2>3 DEF Holds
    <3> QED BY <2>3, <3>1 DEF Mapped
  <2> QED BY <2>2, <2>3
<1> QED BY <1>1 DEF Mapped

(* Every step of the controller is a step of SerialSync, or changes nothing
   that SerialSync speaks of. *)
LEMMA SerialNext ==
  ASSUME SerialInv, SerialInv', Mapped, Mapped', [Next]_vars
  PROVE  [Serial!Next]_(Serial!vars)
<1>m. Mapped /\ Mapped'
  OBVIOUS
<1>t. TypeOK /\ TypeOK' /\ Busy /\ Busy'
  BY DEF SerialInv, ExclusionInv, TypeInv
<1> DEFINE Same == UNCHANGED <<ver, synced, ActiveSync, SyncHasRead>>
           Kept(t) == \/ pc'[t] = pc[t] /\ item'[t] = item[t] /\ read'[t] = read[t]
                      \/ pc[t] \notin Locked /\ pc'[t] \notin Locked
<1>s. ver' = ver /\ synced' = synced /\ (\A t \in Threads : Kept(t)) => Same
  BY <1>m, WorkersKeep
<1>1. ASSUME NEW i \in Items, ChangeObject(i) PROVE Serial!Change(i)
  BY <1>1, <1>m, WorkersKeep DEF ChangeObject, workers, Serial!Change
<1>2. ASSUME NEW t \in Threads, Worker(t) PROVE Serial!Next \/ Same
  <2> DEFINE i == item[t]
             k == LockKey[i]
  <2>i. i \in Items /\ k \in LockKeys /\ i # NoItem
    BY <1>2, <1>t, ConstantsAssumption DEF Worker, TryGetLockBusy, TryGetLock, SyncRead, SyncSucceeds,
       SyncConflicts, SyncFails, ReleaseLock, Done, TypeOK, Busy
  <2>o. ASSUME \A s \in Threads : s # t => pc'[s] = pc[s] /\ item'[s] = item[s] /\ read'[s] = read[s],
               item'[t] = i
        PROVE  \A l \in LockKeys : l # k => ActiveSync'[l] = ActiveSync[l] /\ SyncHasRead'[l] = SyncHasRead[l]
    BY <1>m, <2>o, OthersKeep DEF Holds
  <2>h. pc[t] \in Locked => ActiveSync[k] = i /\ SyncHasRead[k] = IF pc[t] = "syncing" THEN read[t] ELSE 0
    BY <1>m, <2>i DEF Mapped, Holds
  <2>p. ASSUME pc'[t] \in Locked, item'[t] = i
        PROVE  ActiveSync'[k] = i /\ SyncHasRead'[k] = IF pc'[t] = "syncing" THEN read'[t] ELSE 0
    BY <1>m, <2>p, <2>i DEF Mapped, Holds
  <2>1. CASE TryGetLockBusy(t)
    BY <1>s, <1>t, <2>1 DEF TryGetLockBusy, cluster, Locked, TypeOK
  <2>2. CASE TryGetLock(t)
    <3>1. ActiveSync[k] = NoItem /\ SyncHasRead[k] = 0
      BY <1>m, <2>2, <2>i DEF TryGetLock, SerialInv, ExclusionInv, HoldsLock, Holds, Mapped
    <3>2. ActiveSync'[k] = i /\ SyncHasRead'[k] = 0
      BY <1>t, <2>2, <2>p DEF TryGetLock, TypeOK, Locked
    <3>3. \A l \in LockKeys : l # k => ActiveSync'[l] = ActiveSync[l] /\ SyncHasRead'[l] = SyncHasRead[l]
      BY <1>t, <2>2, <2>o DEF TryGetLock, TypeOK
    <3>4. ActiveSync' = [ActiveSync EXCEPT ![k] = i] /\ SyncHasRead' = SyncHasRead
      BY <1>m, <2>i, <3>1, <3>2, <3>3 DEF Mapped
    <3>5. Serial!Begin(i)
      BY <2>2, <3>1, <3>4 DEF TryGetLock, cluster, Serial!Begin
    <3> QED BY <2>i, <3>5 DEF Serial!Next
  <2>3. CASE SyncRead(t)
    <3>1. ActiveSync[k] = i /\ SyncHasRead[k] = 0
      BY <2>3, <2>h DEF SyncRead, Locked
    <3>2. ActiveSync'[k] = i /\ SyncHasRead'[k] = ver[i]
      BY <1>t, <2>3, <2>p DEF SyncRead, TypeOK, Locked
    <3>3. \A l \in LockKeys : l # k => ActiveSync'[l] = ActiveSync[l] /\ SyncHasRead'[l] = SyncHasRead[l]
      BY <1>t, <2>3, <2>o DEF SyncRead, TypeOK
    <3>4. SyncHasRead' = [SyncHasRead EXCEPT ![k] = ver[ActiveSync[k]]] /\ ActiveSync' = ActiveSync
      BY <1>m, <2>i, <3>1, <3>2, <3>3 DEF Mapped
    <3>5. Serial!ReadObject(k)
      BY <2>3, <2>i, <3>1, <3>4 DEF SyncRead, cluster, Serial!ReadObject
    <3> QED BY <2>i, <3>5 DEF Serial!Next
  <2>4. CASE SyncSucceeds(t)
    <3>1. ActiveSync[k] = i /\ SyncHasRead[k] = read[t] /\ read[t] # 0
      BY <2>4, <2>h DEF SyncSucceeds, Locked, SerialInv, HasRead
    <3>2. ActiveSync'[k] = i /\ SyncHasRead'[k] = 0
      BY <1>t, <2>4, <2>p DEF SyncSucceeds, TypeOK, Locked
    <3>3. \A l \in LockKeys : l # k => ActiveSync'[l] = ActiveSync[l] /\ SyncHasRead'[l] = SyncHasRead[l]
      BY <1>t, <2>4, <2>o DEF SyncSucceeds, TypeOK
    <3>4. SyncHasRead' = [SyncHasRead EXCEPT ![k] = 0] /\ ActiveSync' = ActiveSync
      BY <1>m, <2>i, <3>1, <3>2, <3>3 DEF Mapped
    <3>5. synced' = [synced EXCEPT ![ActiveSync[k]] = SyncHasRead[k]] /\ ver' = ver
      BY <2>4, <3>1 DEF SyncSucceeds
    <3>6. Serial!Commit(k)
      BY <2>i, <3>1, <3>4, <3>5 DEF Serial!Commit
    <3> QED BY <2>i, <3>6 DEF Serial!Next
  <2>5. CASE SyncConflicts(t) \/ SyncFails(t)
    <3>1. ActiveSync[k] = i /\ SyncHasRead[k] = read[t] /\ read[t] # 0
      BY <2>5, <2>h DEF SyncConflicts, SyncFails, Locked, SerialInv, HasRead
    <3>2. ActiveSync'[k] = i /\ SyncHasRead'[k] = 0
      BY <1>t, <2>5, <2>p DEF SyncConflicts, SyncFails, TypeOK, Locked
    <3>3. \A l \in LockKeys : l # k => ActiveSync'[l] = ActiveSync[l] /\ SyncHasRead'[l] = SyncHasRead[l]
      BY <1>t, <2>5, <2>o DEF SyncConflicts, SyncFails, TypeOK
    <3>4. SyncHasRead' = [SyncHasRead EXCEPT ![k] = 0] /\ ActiveSync' = ActiveSync
      BY <1>m, <2>i, <3>1, <3>2, <3>3 DEF Mapped
    <3>5. Serial!Abandon(k)
      BY <2>5, <2>i, <3>1, <3>4 DEF SyncConflicts, SyncFails, cluster, Serial!Abandon
    <3> QED BY <2>i, <3>5 DEF Serial!Next
  <2>6. CASE ReleaseLock(t)
    <3>1. ActiveSync[k] = i /\ SyncHasRead[k] = 0
      BY <2>6, <2>h DEF ReleaseLock, Locked
    <3>2. \A l \in LockKeys : l = k => \A s \in Threads : ~Holds(s, l)'
      BY <1>t, <2>6, <2>i DEF ReleaseLock, Holds, Locked, TypeOK, SerialInv, ExclusionInv, PartitionExclusion
    <3>3. ActiveSync'[k] = NoItem /\ SyncHasRead'[k] = 0
      BY <1>m, <2>i, <3>2 DEF Mapped, Holds
    <3>4. \A l \in LockKeys : l # k => ActiveSync'[l] = ActiveSync[l] /\ SyncHasRead'[l] = SyncHasRead[l]
      BY <1>t, <2>6, <2>o DEF ReleaseLock, TypeOK
    <3>5. ActiveSync' = [ActiveSync EXCEPT ![k] = NoItem] /\ SyncHasRead' = SyncHasRead
      BY <1>m, <2>i, <3>1, <3>3, <3>4 DEF Mapped
    <3>6. Serial!End(k)
      BY <2>6, <2>i, <3>1, <3>5 DEF ReleaseLock, cluster, Serial!End
    <3> QED BY <2>i, <3>6 DEF Serial!Next
  <2>7. CASE Done(t)
    BY <1>s, <1>t, <2>7 DEF Done, cluster, Locked, TypeOK
  <2> QED BY <1>2, <2>1, <2>2, <2>3, <2>4, <2>5, <2>6, <2>7 DEF Worker
<1>3. ASSUME Boot, UNCHANGED <<ver, synced>> PROVE Serial!Reset
  <2>1. \A k \in LockKeys : ActiveSync'[k] = NoItem /\ SyncHasRead'[k] = 0
    BY <1>m, <1>3 DEF Boot, Mapped, Holds, Locked
  <2> QED BY <1>m, <1>3, <2>1 DEF Mapped, Serial!Reset
<1>4. ASSUME NEW t \in Threads, StartWorker(t) PROVE Same
  BY <1>s, <1>t, <1>4 DEF StartWorker, cluster, TypeOK, Locked
<1>5. ASSUME UNCHANGED <<ver, synced, pc, item, read>> PROVE Same
  BY <1>s, <1>5
<1>6. Next => Serial!Next \/ Same
  BY <1>1, <1>2, <1>3, <1>4, <1>5 DEF Next, Enqueue, HandleObjectIgnored, DelayExpired, ProcessNextGet,
     ProcessNextShutdown, ShutDown, Crash, Restart, cluster, workers, Serial!Next
<1>7. UNCHANGED vars => Same
  BY <1>5 DEF vars, cluster, workers
<1> QED BY <1>6, <1>7 DEF Serial!vars

(* The controller implements SerialSync for any resources, partitions and number
   of goroutines: the one Sync at a time the syncers rely on. *)
THEOREM ImplementsSerialSync == Spec => SyncsAreSerial
<1>1. Init => SerialInv
  BY TypeInit DEF Init, SerialInv, ExclusionInv, HoldsLock, PartitionExclusion, Locked, HasRead
<1>2. Init => Serial!Init
  <2> SUFFICES ASSUME Init PROVE Serial!Init
    OBVIOUS
  <2>1. Mapped
    BY <1>1, MappingIsExact DEF SerialInv
  <2>2. \A k \in LockKeys : ActiveSync[k] = NoItem /\ SyncHasRead[k] = 0
    BY <2>1 DEF Init, Mapped, Holds, Locked
  <2> QED BY <2>1, <2>2 DEF Init, Mapped, Serial!Init
<1>3. SerialInv => Mapped
  BY MappingIsExact DEF SerialInv
<1>4. SerialInv /\ SerialInv' /\ Mapped /\ Mapped' /\ [Next]_vars => [Serial!Next]_(Serial!vars)
  BY SerialNext
<1> QED BY SerialStep, <1>1, <1>2, <1>3, <1>4, PTL DEF Spec, SyncsAreSerial, Serial!Spec
=============================================================================
