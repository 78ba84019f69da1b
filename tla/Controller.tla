----------------------------- MODULE Controller -----------------------------
(***************************************************************************)
(* The generic controller of the operator (operator/common): informer      *)
(* events put object names on a rate limited work queue, one dispatcher    *)
(* loop hands them to at most `threadiness' goroutines, and a goroutine    *)
(* runs the handler's Sync only while it holds the lock of the partition   *)
(* the object belongs to.  The work queue itself is client-go's and is     *)
(* modelled from how the controller uses it.                               *)
(*                                                                         *)
(* An object is abstracted to a version: ver[i] counts the changes that    *)
(* the API server has accepted for the object and its children, told[i]    *)
(* the changes the informers have delivered, synced[i] the version read by *)
(* the last Sync that returned without an error.  dropped holds the        *)
(* objects whose latest event was dropped by HandleObject.                 *)
(***************************************************************************)
EXTENDS Integers, Sequences

CONSTANTS
  Items,          \* cache.ObjectName values of the resources
  LockKeys,       \* partitions
  LockKey,        \* [Items -> LockKeys], the controller's LockKeyFunc
  Threads,        \* goroutines the error group may run at once
  NoItem,         \* no work item
  MaxVersion,     \* [Items -> Nat], bound: versions of an object
  MaxAttempts,    \* retry.DefaultRetry.Steps: Sync attempts on conflicts
  MaxFailures,    \* bound: Sync attempts that fail or conflict
  MaxRestarts     \* bound: crashes and shutdowns of the operator

ASSUME ConstantsAssumption ==
  /\ LockKey \in [Items -> LockKeys]
  /\ NoItem \notin Items
  /\ MaxVersion \in [Items -> Nat \ {0}]
  /\ MaxAttempts \in Nat \ {0}
  /\ MaxFailures \in Nat
  /\ MaxRestarts \in Nat

VARIABLES
  ver, told, synced, dropped,          \* the cluster and what was delivered
  queue, dirty, processing, delayed,   \* WorkQueue
  shutting,                            \* WorkQueue.ShuttingDown()
  held, stopped,                       \* the dispatcher loop (run, processNext)
  locks,                               \* defaultResourceLocker
  pc, item, attempt, read,             \* per goroutine
  failures, restarts                   \* bounded counters

cluster    == <<ver, told, synced, dropped>>
workQueue  == <<queue, dirty, processing, delayed>>
dispatcher == <<held, stopped>>
workers    == <<pc, item, attempt, read>>
counters   == <<failures, restarts>>
vars == <<cluster, workQueue, shutting, dispatcher, locks, workers, counters>>

Phases == {"idle", "trylock", "sync", "syncing", "release", "done"}
Locked == {"sync", "syncing", "release"}    \* phases in which the lock is held

-----------------------------------------------------------------------------
(* Lock keys: an object name is a record [namespace, name]. *)
NamespacePartitionKey(obj) == obj.namespace
NamePartitionKey(obj) == obj.name

(* Mutant: an item that is being processed is not marked dirty. *)
AddSkipsProcessing(i) ==
  /\ dirty' = IF shutting \/ i \in processing THEN dirty ELSE dirty \cup {i}
  /\ queue' = IF shutting \/ i \in dirty \/ i \in processing
                THEN queue ELSE Append(queue, i)

(* client-go work queue: Add is a no-op for an item that is dirty already, and
   an item that is being processed is queued again only by Done. *)
Add(i) ==
  /\ dirty' = IF shutting THEN dirty ELSE dirty \cup {i}
  /\ queue' = IF shutting \/ i \in dirty \/ i \in processing
                THEN queue ELSE Append(queue, i)

(* Mutant: the dispatcher's item is put back, not the goroutine's. *)
AddAfterHeld(i) == delayed' = IF shutting THEN delayed ELSE delayed \cup {held}

AddAfter(i) == delayed' = IF shutting THEN delayed ELSE delayed \cup {i}

Init ==
  /\ ver = [i \in Items |-> 1]
  /\ told = [i \in Items |-> 0]
  /\ synced = [i \in Items |-> 0]
  /\ dropped = {}
  /\ queue = <<>> /\ dirty = {} /\ processing = {} /\ delayed = {}
  /\ shutting = FALSE /\ held = NoItem /\ stopped = FALSE
  /\ locks = {}
  /\ pc = [t \in Threads |-> "idle"]
  /\ item = [t \in Threads |-> NoItem]
  /\ attempt = [t \in Threads |-> 0]
  /\ read = [t \in Threads |-> 0]
  /\ failures = 0 /\ restarts = 0

(* The API server accepts a change of the object or of one of its children. *)
ChangeObject(i) ==
  /\ ver[i] < MaxVersion[i]
  /\ ver' = [ver EXCEPT ![i] = @ + 1]
  /\ UNCHANGED <<told, synced, dropped, workQueue, shutting, dispatcher, locks, workers, counters>>

(* AddFunc or UpdateFunc of an informer calls Enqueue; a watch that is
   re-established may skip versions. *)
Enqueue(i) ==
  /\ told[i] < ver[i]
  /\ \E v \in (told[i] + 1)..ver[i] : told' = [told EXCEPT ![i] = v]
  /\ dropped' = dropped \ {i}
  /\ Add(i)
  /\ UNCHANGED <<ver, synced, processing, delayed, shutting, dispatcher, locks, workers, counters>>

(* HandleObject drops the event of a child when the owner lookup returns an
   error, whatever the error is. *)
HandleObjectIgnored(i) ==
  /\ 0 < told[i] /\ told[i] < ver[i]
  /\ \E v \in (told[i] + 1)..ver[i] : told' = [told EXCEPT ![i] = v]
  /\ dropped' = dropped \cup {i}
  /\ UNCHANGED <<ver, synced, workQueue, shutting, dispatcher, locks, workers, counters>>

(* An AddAfter or AddRateLimited delay expires. *)
DelayExpired(i) ==
  /\ i \in delayed
  /\ delayed' = delayed \ {i}
  /\ Add(i)
  /\ UNCHANGED <<cluster, processing, shutting, dispatcher, locks, workers, counters>>

-----------------------------------------------------------------------------
(* processNext: WorkQueue.Get, or the end of the loop on shutdown. *)
ProcessNextGet ==
  /\ ~stopped /\ held = NoItem
  /\ ~shutting /\ queue # <<>>
  /\ held' = Head(queue)
  /\ queue' = Tail(queue)
  /\ processing' = processing \cup {Head(queue)}
  /\ dirty' = dirty \ {Head(queue)}
  /\ UNCHANGED <<cluster, delayed, shutting, stopped, locks, workers, counters>>

ProcessNextShutdown ==
  /\ ~stopped /\ held = NoItem
  /\ shutting
  /\ stopped' = TRUE
  /\ UNCHANGED <<cluster, workQueue, shutting, held, locks, workers, counters>>

(* errorGroup.Go blocks until a goroutine slot is free. *)
StartWorker(t) ==
  /\ held # NoItem /\ pc[t] = "idle"
  /\ pc' = [pc EXCEPT ![t] = "trylock"]
  /\ item' = [item EXCEPT ![t] = held]
  /\ held' = NoItem
  /\ UNCHANGED <<cluster, workQueue, shutting, stopped, locks, attempt, read, counters>>

(* Mutant: a busy lock drops the work item. *)
TryGetLockBusyDrops(t) ==
  /\ pc[t] = "trylock" /\ LockKey[item[t]] \in locks
  /\ pc' = [pc EXCEPT ![t] = "done"]
  /\ UNCHANGED <<cluster, workQueue, shutting, dispatcher, locks, item, attempt, read, counters>>

TryGetLockBusy(t) ==
  /\ pc[t] = "trylock" /\ LockKey[item[t]] \in locks
  /\ AddAfter(item[t])
  /\ pc' = [pc EXCEPT ![t] = "done"]
  /\ UNCHANGED <<cluster, queue, dirty, processing, shutting, dispatcher, locks, item, attempt, read, counters>>

(* Mutant: Store without looking whether the key was loaded. *)
TryGetLockAlways(t) ==
  /\ pc[t] = "trylock"
  /\ locks' = locks \cup {LockKey[item[t]]}
  /\ pc' = [pc EXCEPT ![t] = "sync"]
  /\ attempt' = [attempt EXCEPT ![t] = 1]
  /\ UNCHANGED <<cluster, workQueue, shutting, dispatcher, item, read, counters>>

TryGetLock(t) ==
  /\ pc[t] = "trylock" /\ LockKey[item[t]] \notin locks
  /\ locks' = locks \cup {LockKey[item[t]]}
  /\ pc' = [pc EXCEPT ![t] = "sync"]
  /\ attempt' = [attempt EXCEPT ![t] = 1]
  /\ UNCHANGED <<cluster, workQueue, shutting, dispatcher, item, read, counters>>

(* Mutant: any replica of the API server may answer, from its cache. *)
SyncReadAnyReplica(t) ==
  /\ pc[t] = "sync"
  /\ \E v \in 1..ver[item[t]] : read' = [read EXCEPT ![t] = v]
  /\ pc' = [pc EXCEPT ![t] = "syncing"]
  /\ UNCHANGED <<cluster, workQueue, shutting, dispatcher, locks, item, attempt, counters>>

(* Handler.Sync reads the object ... *)
SyncRead(t) ==
  /\ pc[t] = "sync"
  /\ read' = [read EXCEPT ![t] = ver[item[t]]]
  /\ pc' = [pc EXCEPT ![t] = "syncing"]
  /\ UNCHANGED <<cluster, workQueue, shutting, dispatcher, locks, item, attempt, counters>>

(* ... and returns nil: Forget, *)
SyncSucceeds(t) ==
  /\ pc[t] = "syncing"
  /\ synced' = [synced EXCEPT ![item[t]] = read[t]]
  /\ pc' = [pc EXCEPT ![t] = "release"]
  /\ UNCHANGED <<ver, told, dropped, workQueue, shutting, dispatcher, locks, item, attempt, read, counters>>

(* or a conflict that RetryOnConflict retries, *)
SyncConflicts(t) ==
  /\ pc[t] = "syncing" /\ failures < MaxFailures
  /\ attempt[t] < MaxAttempts
  /\ attempt' = [attempt EXCEPT ![t] = @ + 1]
  /\ failures' = failures + 1
  /\ pc' = [pc EXCEPT ![t] = "sync"]
  /\ UNCHANGED <<cluster, workQueue, shutting, dispatcher, locks, item, read, restarts>>

(* or another error, or the last conflict: AddRateLimited. *)
SyncFails(t) ==
  /\ pc[t] = "syncing" /\ failures < MaxFailures
  /\ AddAfter(item[t])
  /\ failures' = failures + 1
  /\ pc' = [pc EXCEPT ![t] = "release"]
  /\ UNCHANGED <<cluster, queue, dirty, processing, shutting, dispatcher, locks, item, attempt, read, restarts>>

(* The deferred calls run in reverse order: the lock first, *)
ReleaseLock(t) ==
  /\ pc[t] = "release"
  /\ locks' = locks \ {LockKey[item[t]]}
  /\ pc' = [pc EXCEPT ![t] = "done"]
  /\ UNCHANGED <<cluster, workQueue, shutting, dispatcher, item, attempt, read, counters>>

(* then WorkQueue.Done, which queues the item again when it became dirty. *)
Done(t) ==
  /\ pc[t] = "done"
  /\ processing' = processing \ {item[t]}
  /\ queue' = IF item[t] \in dirty THEN Append(queue, item[t]) ELSE queue
  /\ pc' = [pc EXCEPT ![t] = "idle"]
  /\ item' = [item EXCEPT ![t] = NoItem]
  /\ attempt' = [attempt EXCEPT ![t] = 0]
  /\ read' = [read EXCEPT ![t] = 0]
  /\ UNCHANGED <<cluster, dirty, delayed, shutting, dispatcher, locks, counters>>

-----------------------------------------------------------------------------
(* The signal context ends and the queue's goroutine calls ShutDown. *)
ShutDown ==
  /\ ~shutting /\ restarts < MaxRestarts
  /\ shutting' = TRUE
  /\ restarts' = restarts + 1
  /\ UNCHANGED <<cluster, workQueue, dispatcher, locks, workers, failures>>

(* A new operator process: memory is empty, and the informers' initial list
   delivers every object again. *)
Boot ==
  /\ told' = [i \in Items |-> 0]
  /\ dropped' = {}
  /\ queue' = <<>> /\ dirty' = {} /\ processing' = {} /\ delayed' = {}
  /\ shutting' = FALSE /\ held' = NoItem /\ stopped' = FALSE
  /\ locks' = {}
  /\ pc' = [t \in Threads |-> "idle"]
  /\ item' = [t \in Threads |-> NoItem]
  /\ attempt' = [t \in Threads |-> 0]
  /\ read' = [t \in Threads |-> 0]

(* The process is killed at any point. *)
Crash ==
  /\ restarts < MaxRestarts
  /\ restarts' = restarts + 1
  /\ Boot
  /\ UNCHANGED <<ver, synced, failures>>

(* run waited for its workers and returned; the pod is started again. *)
Restart ==
  /\ stopped /\ \A t \in Threads : pc[t] = "idle"
  /\ Boot
  /\ UNCHANGED <<ver, synced, counters>>

Worker(t) ==
  \/ TryGetLockBusy(t) \/ TryGetLock(t)
  \/ SyncRead(t) \/ SyncSucceeds(t) \/ SyncConflicts(t) \/ SyncFails(t)
  \/ ReleaseLock(t) \/ Done(t)

Next ==
  \/ \E i \in Items : ChangeObject(i) \/ Enqueue(i) \/ HandleObjectIgnored(i) \/ DelayExpired(i)
  \/ ProcessNextGet \/ ProcessNextShutdown
  \/ \E t \in Threads : StartWorker(t) \/ Worker(t)
  \/ ShutDown \/ Crash \/ Restart

Spec == Init /\ [][Next]_vars

(* Informers keep delivering, timers fire, goroutines are scheduled and a pod
   that ended is started again.  Nothing is assumed of users and crashes. *)
Fairness ==
  /\ \A i \in Items : WF_vars(Enqueue(i)) /\ WF_vars(DelayExpired(i))
  /\ WF_vars(ProcessNextGet) /\ WF_vars(ProcessNextShutdown)
  /\ \A t \in Threads : WF_vars(StartWorker(t)) /\ WF_vars(Worker(t))
  /\ WF_vars(Restart)

FairSpec == Spec /\ Fairness

-----------------------------------------------------------------------------
TypeOK ==
  /\ ver \in [Items -> Nat] /\ told \in [Items -> Nat] /\ synced \in [Items -> Nat]
  /\ \A i \in Items : ver[i] \in 1..MaxVersion[i]
  /\ dropped \subseteq Items
  /\ queue \in Seq(Items)
  /\ dirty \subseteq Items /\ processing \subseteq Items /\ delayed \subseteq Items
  /\ shutting \in BOOLEAN /\ stopped \in BOOLEAN
  /\ held \in Items \cup {NoItem}
  /\ locks \subseteq LockKeys
  /\ pc \in [Threads -> Phases]
  /\ item \in [Threads -> Items \cup {NoItem}]
  /\ attempt \in [Threads -> 0..MaxAttempts]
  /\ read \in [Threads -> Nat]
  /\ failures \in 0..MaxFailures /\ restarts \in 0..MaxRestarts

(* Two goroutines never run Sync for objects of the same partition: the
   partition lock is held for the whole of processWorkItem, retries included. *)
PartitionExclusion ==
  \A s, t \in Threads :
    s # t /\ pc[s] \in Locked /\ pc[t] \in Locked => LockKey[item[s]] # LockKey[item[t]]

InQueue(i) == \E n \in 1..Len(queue) : queue[n] = i

(* The object has a Sync ahead of it that will read its latest version. *)
Pending(i) ==
  \/ InQueue(i) \/ i \in delayed \/ held = i
  \/ \E t \in Threads :
       /\ item[t] = i
       /\ \/ i \in dirty
          \/ pc[t] \in {"trylock", "sync"}
          \/ pc[t] = "syncing" /\ read[t] >= told[i]

(* No delivered change is forgotten: while the queue accepts work, an object
   whose last successful Sync read less than what the informers delivered has
   another Sync coming, although Add drops items that are dirty, Sync fails,
   the lock is busy, and the lock is released before Done.  Only the event of a
   child whose owner lookup failed is lost, until the next event of the object. *)
NoLostChange ==
  ~shutting => \A i \in Items \ dropped : synced[i] < told[i] => Pending(i)

(* A later Sync never works from an older version than the one the last
   successful Sync had: the results of two Syncs of an object are not swapped. *)
SyncedNeverRegresses ==
  [][\A i \in Items : synced'[i] >= synced[i]]_vars

(* Once changes, failures and crashes stop every object has been synced at its
   latest version, unless HandleObject dropped its last event: no work item is
   left waiting on a lock, a delay or a slot. *)
EventuallySynced == <>[](\A i \in Items : synced[i] = ver[i] \/ i \in dropped)

-----------------------------------------------------------------------------
(* What the controller promises to the syncers: one Sync at a time in each
   partition (module SerialSync).  The Sync of a partition is the one of the
   goroutine between TryGetLock and ReleaseLock. *)
Holds(t, k) == pc[t] \in Locked /\ LockKey[item[t]] = k

ActiveSync == [k \in LockKeys |->
  IF \E t \in Threads : Holds(t, k) THEN item[CHOOSE t \in Threads : Holds(t, k)] ELSE NoItem]

SyncHasRead == [k \in LockKeys |->
  IF \E t \in Threads : Holds(t, k) /\ pc[t] = "syncing"
    THEN read[CHOOSE t \in Threads : Holds(t, k)] ELSE 0]

Serial == INSTANCE SerialSync WITH active <- ActiveSync, seen <- SyncHasRead

(* The controller implements SerialSync: whatever the queue, the dispatcher, the
   goroutines, retries, shutdowns and crashes do, a partition sees a sequence of
   Syncs, each of which reads, and takes effect or is abandoned, by itself. *)
SyncsAreSerial == Serial!Spec
=============================================================================
