--------------------------- MODULE RadixDeployment ---------------------------
(***************************************************************************)
(* The RadixDeployments of one environment: which of them is active and    *)
(* deployed.  operator/deployment, pkg/apis/deployment, the pipelines that *)
(* create RadixDeployments and the api-server that edits them.             *)
(*                                                                         *)
(* A Sync gets its own RadixDeployment from the API server but lists the   *)
(* others from the informer's cache, which follows the server through an   *)
(* ordered watch.  The environment is a namespace, so the partition lock   *)
(* (module Controller) lets one Sync run at a time; every API call is a    *)
(* step.  A status update is refused when the stored object is no longer   *)
(* the copy it was made from (no content comes back, so comparing contents *)
(* is comparing resource versions).                                        *)
(***************************************************************************)
EXTENDS Integers, Sequences, FiniteSets

CONSTANTS
  Rds,           \* RadixDeployments
  Components,    \* names of components
  ComponentsOf,  \* [Rds -> SUBSET Components]: the components in their specs
  Referenced,    \* the RadixDeployments that RadixBatches refer to
  Kinds,         \* the kinds of pipelines that run
  Overlap,       \* whether pipelines of the environment may overlap
  HistoryLimit,  \* Operator.DeploymentHistoryLimit
  Rd0, Clock0,   \* the RadixDeployments and the time at the start
  NoRd,          \* no RadixDeployment
  MaxClock,      \* bound: the last second
  MaxAttempts,   \* retry.DefaultRetry.Steps
  Budgets        \* bound: how often each kind of disturbance may happen in a behaviour

Disturbances == {"edit", "event", "registration", "error", "crash", "timeout"}

(* deploy and build-deploy create a RadixDeployment, wait until it is active and
   delete it if it is not; apply-config does not delete it, promote does not wait. *)
PipelineKinds == {"deploy", "config", "promote"}

Conditions == {"", "Active", "Inactive"}

Objects == [exists : BOOLEAN, created : Nat, from : Nat, to : Nat, cond : Conditions,
            spec : Nat, reconciled : BOOLEAN]

ASSUME ConstantsAssumption ==
  /\ IsFiniteSet(Rds) /\ ComponentsOf \in [Rds -> SUBSET Components]
  /\ Referenced \subseteq Rds /\ Kinds \subseteq PipelineKinds /\ Overlap \in BOOLEAN
  /\ HistoryLimit \in Nat /\ NoRd \notin Rds
  /\ Rd0 \in [Rds -> Objects] /\ \A r \in Rds : Rd0[r].cond = "" => Rd0[r].from = 0
  /\ Clock0 \in Nat \ {0} /\ MaxClock \in Nat /\ MaxAttempts \in Nat \ {0}
  /\ Budgets \subseteq [Disturbances -> Nat]

VARIABLES
  clock,      \* the time, in seconds
  rd,         \* the RadixDeployments as the API server has them
  seen,       \* ... and as the informer's cache has them
  stream,     \* the changes the watch has yet to deliver
  pending,    \* RadixDeployments on the work queue
  sync,       \* the Sync in progress
  deployed,   \* what the resources of each component were made from
  runner,     \* what the pipeline that created each RadixDeployment is doing
  activated,  \* the RadixDeployments that have been active (history variable)
  left        \* what is left of the budget

vars == <<clock, rd, seen, stream, pending, sync, deployed, runner, activated, left>>

Phases == {"idle", "activate", "inactivate", "deploy", "status", "history", "prune"}
RunnerStates == {"", "deploy", "config", "promoted", "active", "failed"}

-----------------------------------------------------------------------------
Absent == [exists |-> FALSE, created |-> 0, from |-> 0, to |-> 0, cond |-> "",
           spec |-> 0, reconciled |-> FALSE]

Nothing == [rd |-> NoRd, spec |-> 0]

(* What the resources are when the copy of r is deployed. *)
ResourcesOf(r, copy) ==
  [c \in Components |-> IF c \in ComponentsOf[r] THEN [rd |-> r, spec |-> copy.spec] ELSE Nothing]

Idle == [pc |-> "idle", rd |-> NoRd, tries |-> 0, own |-> Absent, all |-> Rd0,
         todo |-> {}, failed |-> FALSE]

Init ==
  /\ clock = Clock0
  /\ rd = Rd0 /\ seen = Rd0 /\ stream = <<>>
  /\ pending = {} /\ sync = Idle
  /\ \/ \E r \in Rds : Rd0[r].cond = "Active" /\ deployed = ResourcesOf(r, Rd0[r])
     \/ (\A r \in Rds : Rd0[r].cond # "Active") /\ deployed = [c \in Components |-> Nothing]
  /\ runner = [r \in Rds |-> ""]
  /\ activated = {r \in Rds : Rd0[r].from # 0}
  /\ left \in Budgets

Spend(d) == left[d] > 0 /\ left' = [left EXCEPT ![d] = @ - 1]

(* Mutant: only what has been active has a time. *)
ActiveFromOnly(o) == o.from

(* getActiveFrom: the creation time until the RadixDeployment is active. *)
ActiveFrom(o) == IF o.from = 0 THEN o.created ELSE o.from

Existing(objects) == {r \in Rds : objects[r].exists}

(* Mutant: whichever is synced becomes the active one. *)
IsLatestAlways(r, own, all) == TRUE

(* isLatest *)
IsLatest(r, own, all) ==
  \A k \in Existing(all) \ {r} : ActiveFrom(own) >= ActiveFrom(all[k])

-----------------------------------------------------------------------------
(* The API server stores a new object and tells the watch; an update that
   changes nothing is no event. *)
Store(r, new) ==
  /\ rd' = [rd EXCEPT ![r] = new]
  /\ stream' = IF new = rd[r] THEN stream ELSE Append(stream, [rd |-> r, object |-> new])

(* Mutant: an update of the spec is no reason for a Sync. *)
NotifiedOfCondition(r, old, new) ==
  IF new.exists /\ new.cond # "Inactive" /\ (~old.exists \/ new.cond # old.cond) THEN {r} ELSE {}

(* AddFunc and UpdateFunc: an inactive RadixDeployment is skipped, and so is an
   update that changes neither the spec nor the condition. *)
Notified(r, old, new) ==
  IF /\ new.exists /\ new.cond # "Inactive"
     /\ ~old.exists \/ new.cond # old.cond \/ new.spec # old.spec
    THEN {r} ELSE {}

(* The watch delivers the next change to the cache and the event handlers. *)
Deliver ==
  /\ stream # <<>>
  /\ LET r == Head(stream).rd
         new == Head(stream).object
     IN /\ seen' = [seen EXCEPT ![r] = new]
        /\ pending' = pending \cup Notified(r, seen[r], new)
  /\ stream' = Tail(stream)
  /\ UNCHANGED <<clock, rd, sync, deployed, runner, activated, left>>

(* Handler.Sync gets the RadixDeployment, OnSync ignores it when it is inactive;
   trySetActiveCondition lists all of them and ends the Sync when another is later.
   (One step: had the object changed before the list, its update would be refused.) *)
Begin(r, try) ==
  sync' = IF rd[r].exists /\ rd[r].cond # "Inactive" /\ IsLatest(r, rd[r], seen)
            THEN [Idle EXCEPT !.pc = "activate", !.rd = r, !.tries = try, !.own = rd[r], !.all = seen]
            ELSE Idle

(* Mutant: the error is logged and forgotten. *)
RequeueNot ==
  /\ sync' = Idle
  /\ UNCHANGED pending

(* The Sync returns an error: AddRateLimited. *)
Requeue ==
  /\ sync' = Idle
  /\ pending' = pending \cup {sync.rd}

(* Mutant: conflicts are retried without a limit. *)
RetryForever ==
  /\ Begin(sync.rd, sync.tries + 1)
  /\ UNCHANGED pending

(* Sync returns a conflict: RetryOnConflict starts over, or gives up. *)
Retry ==
  \/ /\ sync.tries < MaxAttempts
     /\ Begin(sync.rd, sync.tries + 1)
     /\ UNCHANGED pending
  \/ /\ sync.tries = MaxAttempts
     /\ Requeue

(* Mutant: the update does not carry the resource version. *)
UpdateBlindly(r, copy, new, then) ==
  /\ Store(r, [new EXCEPT !.exists = rd[r].exists, !.spec = rd[r].spec])
  /\ sync' = then
  /\ UNCHANGED pending

(* updateRadixDeploymentStatus: taken when the copy is current, a conflict when
   it is not, an error when the RadixDeployment is gone. *)
Update(r, copy, new, then) ==
  \/ /\ rd[r] = copy
     /\ Store(r, new)
     /\ sync' = then
     /\ UNCHANGED pending
  \/ /\ rd[r].exists /\ rd[r] # copy
     /\ Retry
     /\ UNCHANGED <<rd, stream>>
  \/ /\ ~rd[r].exists
     /\ Requeue
     /\ UNCHANGED <<rd, stream>>

-----------------------------------------------------------------------------
(* The controller takes an item off the queue under the namespace lock. *)
StartSync(r) ==
  /\ sync.pc = "idle" /\ r \in pending
  /\ pending' = pending \ {r}
  /\ Begin(r, 1)
  /\ UNCHANGED <<clock, rd, seen, stream, deployed, runner, activated, left>>

(* trySetActiveCondition: the latest becomes active, or stays so; *)
SetActive ==
  LET own == IF sync.own.cond = "Active" THEN sync.own
               ELSE [sync.own EXCEPT !.cond = "Active", !.from = clock]
      others == {k \in Existing(sync.all) \ {sync.rd} : sync.all[k].cond # "Inactive"}
  IN
  /\ sync.pc = "activate"
  /\ Update(sync.rd, sync.own, own,
            [sync EXCEPT !.own = own, !.todo = others,
                         !.pc = IF others = {} THEN "deploy" ELSE "inactivate"])
  /\ activated' = IF rd'[sync.rd].cond = "Active" THEN activated \cup {sync.rd} ELSE activated
  /\ UNCHANGED <<clock, seen, deployed, runner, left>>

(* Mutant: an inactive RadixDeployment was active until this one is. *)
PreviousOwn(r) == {ActiveFrom(sync.own)}

(* The active-from time of the one before r in the sorted list: r's own when it is
   the first, and any order of those that share a time. *)
Previous(r) ==
  LET time(k) == ActiveFrom(sync.all[k])
      later == {k \in Existing(sync.all) \ {r} : time(k) > time(r)}
      equal == {k \in Existing(sync.all) \ {r} : time(k) = time(r)}
      next  == {k \in later : \A i \in later : time(k) <= time(i)}
  IN {IF k = sync.rd THEN ActiveFrom(sync.own) ELSE time(k) :
        k \in equal \cup (IF later = {} THEN {r} ELSE next)}

(* setOtherRDsToInactive: the others follow, the latest first, from the listed copies. *)
SetInactive ==
  /\ sync.pc = "inactivate"
  /\ \E r \in sync.todo : \E prev \in Previous(r) :
       /\ \A k \in sync.todo : ActiveFrom(sync.all[r]) >= ActiveFrom(sync.all[k])
       /\ Update(r, sync.all[r],
                 [sync.all[r] EXCEPT !.cond = "Inactive", !.to = prev, !.from = ActiveFrom(sync.all[r])],
                 [sync EXCEPT !.todo = @ \ {r}, !.pc = IF sync.todo = {r} THEN "deploy" ELSE @])
  /\ UNCHANGED <<clock, seen, deployed, runner, activated, left>>

(* syncDeployment: the garbage collection of components that are not in the spec,
   then every component.  What a deleted RadixDeployment owns is collected. *)
SyncDeployment ==
  /\ sync.pc = "deploy"
  /\ deployed' = IF rd[sync.rd].exists THEN ResourcesOf(sync.rd, sync.own)
                   ELSE [c \in Components |-> Nothing]
  /\ sync' = [sync EXCEPT !.pc = "status"]
  /\ UNCHANGED <<clock, rd, seen, stream, pending, runner, activated, left>>

(* The garbage collection fails, or some component does and the others do not. *)
SyncDeploymentFails ==
  /\ sync.pc = "deploy"
  /\ Spend("error")
  /\ \/ UNCHANGED deployed
     \/ \E failing \in SUBSET ComponentsOf[sync.rd] :
          deployed' = [c \in Components |->
             IF c \in failing THEN deployed[c]
             ELSE IF rd[sync.rd].exists THEN ResourcesOf(sync.rd, sync.own)[c] ELSE Nothing]
  /\ sync' = [sync EXCEPT !.pc = "status", !.failed = TRUE]
  /\ UNCHANGED <<clock, rd, seen, stream, pending, runner, activated>>

(* syncStatus; an error of syncDeployment is returned after it. *)
SyncStatus ==
  LET own == [sync.own EXCEPT !.reconciled = TRUE] IN
  /\ sync.pc = "status"
  /\ IF sync.failed
       THEN /\ IF rd[sync.rd] = sync.own THEN Store(sync.rd, own) ELSE UNCHANGED <<rd, stream>>
            /\ IF rd[sync.rd].exists /\ rd[sync.rd] # sync.own THEN Retry ELSE Requeue
       ELSE Update(sync.rd, sync.own, own, [sync EXCEPT !.pc = "history", !.own = own])
  /\ UNCHANGED <<clock, seen, deployed, runner, activated, left>>

(* Mutant: the latest ones are deleted. *)
VictimsLatest(all) ==
  {old \in SUBSET Existing(all) :
     /\ Cardinality(old) = Cardinality(Existing(all)) - HistoryLimit
     /\ \A r \in old, k \in Existing(all) \ old : ActiveFrom(all[r]) >= ActiveFrom(all[k])}

(* The first in the order of active-from times, beyond the limit. *)
Victims(all) ==
  {old \in SUBSET Existing(all) :
     /\ Cardinality(old) = Cardinality(Existing(all)) - HistoryLimit
     /\ \A r \in old, k \in Existing(all) \ old : ActiveFrom(all[r]) <= ActiveFrom(all[k])}

(* maintainHistoryLimit lists again, *)
MaintainHistoryLimit ==
  /\ sync.pc = "history"
  /\ IF HistoryLimit = 0 \/ Cardinality(Existing(seen)) <= HistoryLimit
       THEN sync' = Idle
       ELSE \E old \in Victims(seen) :
              sync' = [sync EXCEPT !.pc = "prune",
                                   !.todo = {r \in old \ Referenced : seen[r].cond # "Active"}]
  /\ UNCHANGED <<clock, rd, seen, stream, pending, deployed, runner, activated, left>>

(* A RadixDeployment is deleted, and Kubernetes collects what it owns. *)
Delete(r) ==
  /\ Store(r, [rd[r] EXCEPT !.exists = FALSE])
  /\ deployed' = [c \in Components |-> IF deployed[c].rd = r THEN Nothing ELSE deployed[c]]

(* and deletes one after the other; an error is logged and passed over. *)
Prune ==
  /\ sync.pc = "prune"
  /\ \/ /\ sync.todo = {} /\ sync' = Idle
        /\ UNCHANGED <<rd, stream, deployed, left>>
     \/ \E r \in sync.todo :
          /\ sync' = [sync EXCEPT !.todo = @ \ {r}]
          /\ \/ Delete(r) /\ UNCHANGED left
             \/ Spend("error") /\ UNCHANGED <<rd, stream, deployed>>
  /\ UNCHANGED <<clock, seen, pending, runner, activated>>

(* Any other call fails. *)
SyncFails ==
  /\ sync.pc \in {"activate", "inactivate", "status"}
  /\ Spend("error")
  /\ Requeue
  /\ UNCHANGED <<clock, rd, seen, stream, deployed, runner, activated>>

(* The operator is killed and started: the cache is listed anew, and AddFunc
   enqueues what is not inactive. *)
Crash ==
  /\ Spend("crash")
  /\ sync' = Idle
  /\ seen' = rd /\ stream' = <<>>
  /\ pending' = {r \in Rds : rd[r].exists /\ rd[r].cond # "Inactive"}
  /\ UNCHANGED <<clock, rd, deployed, runner, activated>>

(* HandleObject, when a Service of the RadixDeployment changes. *)
OwnedObjectEvent(r) ==
  /\ \E c \in Components : deployed[c].rd = r
  /\ Spend("event")
  /\ pending' = pending \cup {r}
  /\ UNCHANGED <<clock, rd, seen, stream, sync, deployed, runner, activated>>

(* The groups or users of the RadixRegistration change: what is not inactive is
   enqueued, as the API server lists it; the cache may not know of it yet. *)
RegistrationChanges ==
  /\ Spend("registration")
  /\ pending' = pending \cup {r \in Rds : rd[r].exists /\ rd[r].cond # "Inactive"}
  /\ UNCHANGED <<clock, rd, seen, stream, sync, deployed, runner, activated>>

-----------------------------------------------------------------------------
Waiting(r) == runner[r] \in {"deploy", "config"}

(* A pipeline creates a RadixDeployment.  Pipelines that do not overlap wait for
   each other, and start more than a second apart. *)
CreateRD(r) ==
  /\ rd[r] = Absent
  /\ Overlap \/ \A k \in Rds : ~Waiting(k) /\ rd[k].created < clock /\ rd[k].from < clock
  /\ \E kind \in Kinds :
       runner' = [runner EXCEPT ![r] = IF kind = "promote" THEN "promoted" ELSE kind]
  /\ Store(r, [Absent EXCEPT !.exists = TRUE, !.created = clock])
  /\ UNCHANGED <<clock, seen, pending, sync, deployed, activated, left>>

(* WaitForActive polls until there is an active-from time. *)
RunnerSeesActive(r) ==
  /\ Waiting(r) /\ rd[r].exists /\ rd[r].from # 0
  /\ runner' = [runner EXCEPT ![r] = "active"]
  /\ UNCHANGED <<clock, rd, seen, stream, pending, sync, deployed, activated, left>>

(* It ends with an error when the RadixDeployment is gone or the time is up;
   deployToEnv then deletes the RadixDeployment. *)
RunnerGivesUp(r) ==
  /\ Waiting(r)
  /\ IF rd[r].exists THEN Spend("timeout") ELSE UNCHANGED left
  /\ runner' = [runner EXCEPT ![r] = "failed"]
  /\ IF runner[r] = "deploy" /\ rd[r].exists THEN Delete(r) ELSE UNCHANGED <<rd, stream, deployed>>
  /\ UNCHANGED <<clock, seen, pending, sync, activated>>

(* The api-server patches the spec: a component is stopped, started or scaled. *)
EditRD(r) ==
  /\ rd[r].exists /\ rd[r].cond = "Active"
  /\ Spend("edit")
  /\ Store(r, [rd[r] EXCEPT !.spec = @ + 1])
  /\ UNCHANGED <<clock, seen, pending, sync, deployed, runner, activated>>

Tick ==
  /\ clock < MaxClock
  /\ clock' = clock + 1
  /\ UNCHANGED <<rd, seen, stream, pending, sync, deployed, runner, activated, left>>

-----------------------------------------------------------------------------
SyncStep ==
  \/ SetActive \/ SetInactive \/ SyncDeployment \/ SyncStatus \/ MaintainHistoryLimit \/ Prune

Next ==
  \/ \E r \in Rds : \/ CreateRD(r) \/ RunnerSeesActive(r) \/ RunnerGivesUp(r)
                    \/ EditRD(r) \/ OwnedObjectEvent(r) \/ StartSync(r)
  \/ Deliver \/ SyncStep \/ SyncDeploymentFails \/ SyncFails
  \/ RegistrationChanges \/ Crash \/ Tick

Spec == Init /\ [][Next]_vars

(* The watch delivers, items are served, a Sync makes progress, runners poll. *)
Fairness ==
  /\ WF_vars(Deliver) /\ WF_vars(SyncStep)
  /\ \A r \in Rds : SF_vars(StartSync(r)) /\ WF_vars(RunnerSeesActive(r))

FairSpec == Spec /\ Fairness

-----------------------------------------------------------------------------
TypeOK ==
  /\ clock \in Nat
  /\ rd \in [Rds -> Objects] /\ seen \in [Rds -> Objects]
  /\ stream \in Seq([rd : Rds, object : Objects])
  /\ pending \subseteq Rds
  /\ sync \in [pc : Phases, rd : Rds \cup {NoRd}, tries : 0..MaxAttempts, own : Objects,
               all : [Rds -> Objects], todo : SUBSET Rds, failed : BOOLEAN]
  /\ sync.pc # "idle" => sync.rd \in Rds
  /\ deployed \in [Components -> [rd : Rds \cup {NoRd}, spec : Nat]]
  /\ runner \in [Rds -> RunnerStates]
  /\ activated \subseteq Rds
  /\ left \in [Disturbances -> Nat]

(* The pipelines of the environment follow each other and wait until what they
   created is active, as they did before the start; none gives up waiting, and the
   groups of the RadixRegistration do not change. *)
OneByOne ==
  /\ Overlap = FALSE /\ "promote" \notin Kinds
  /\ \A b \in Budgets : b["timeout"] = 0 /\ b["registration"] = 0
  /\ \A r \in Rds :
       \/ Rd0[r] = Absent
       \/ /\ Rd0[r].exists /\ Rd0[r].cond # "" /\ 0 < Rd0[r].created
          /\ Rd0[r].created <= Rd0[r].from /\ Rd0[r].from <= Clock0 /\ Rd0[r].to <= Clock0
  /\ \A r \in Rds : Rd0[r].cond = "Inactive" =>
       \E k \in Rds : Rd0[k].cond = "Active" /\ Rd0[r].created < Rd0[k].created
  /\ \A r, k \in Rds : r # k /\ Rd0[r].exists /\ Rd0[k].exists =>
       /\ Rd0[r].created # Rd0[k].created
       /\ Rd0[r].created < Rd0[k].created =>
            Rd0[r].cond = "Inactive" /\ Rd0[r].from < Rd0[k].created /\ Rd0[r].to <= Rd0[k].from

Active(r) == rd[r].exists /\ rd[r].cond = "Active"

Quiet == sync.pc = "idle" /\ pending = {} /\ stream = <<>>

(* A RadixDeployment that is inactive stays so, and the times it was active from
   and to are never rewritten: not by a Sync that works from stale copies, not by
   one that is retried half way (setOtherRDsToInactive). *)
ActivePeriodIsKept ==
  [][\A r \in Rds :
       /\ rd[r].from # 0 => rd'[r].from = rd[r].from
       /\ rd[r].cond = "Inactive" => rd'[r].cond = "Inactive" /\ rd'[r].to = rd[r].to]_vars

(* The periods that inactive RadixDeployments are recorded to have been active do
   not overlap, in whatever order and from whatever copies they were set. *)
PeriodsDisjoint ==
  \A r, k \in activated :
    rd[r].cond = "Inactive" /\ rd[k].cond = "Inactive" /\ rd[r].from < rd[k].from =>
      rd[r].to <= rd[k].from

(* When the operator has nothing left to do there is at most one active
   RadixDeployment, and the resources of the environment are those of its current
   spec: no edit is lost and no older Sync deployed over it.  (Unless a pipeline gave
   up and deleted one that others had given way to: DeleteFunc syncs nothing.) *)
ActiveIsDeployed ==
  Quiet /\ (\A k \in Rds : runner[k] = "failed" => rd[k].exists) => \A r \in Rds : Active(r) =>
    /\ \A k \in Rds \ {r} : ~Active(k)
    /\ deployed = ResourcesOf(r, rd[r])

(* The history limit removes inactive RadixDeployments only, and none that a
   RadixBatch refers to, although it goes by the cache: as long as fewer pipelines
   of the environment overlap than it keeps.  (One whose turn has not come is
   removed when newer ones fill the limit.) *)
PruneIsSafe ==
  [][sync.pc = "prune" =>
       \A r \in Rds : rd[r].exists /\ ~rd'[r].exists /\ runner'[r] = runner[r] =>
         rd[r].cond = "Inactive" /\ r \notin Referenced]_vars

(* What WaitForActive reports as active is or has been active. *)
ReportedWasActive == \A r \in Rds : runner[r] = "active" => r \in activated

Newest(r) == rd[r].exists /\ \A k \in Existing(rd) : rd[k].created <= rd[r].created

(* When pipelines follow each other, the newest RadixDeployment ends up active. *)
NewestIsActive == Quiet => \A r \in Rds : Newest(r) => Active(r)

(* ... and is deployed in the end, unless a newer one comes. *)
NewestGetsDeployed ==
  \A r \in Rds : Newest(r) ~> ~Newest(r) \/ (Active(r) /\ deployed = ResourcesOf(r, rd[r]))
=============================================================================
