--------------------------- MODULE RadixEnvironment ---------------------------
(***************************************************************************)
(* The RadixEnvironments of an application, their namespaces, and the      *)
(* clean-up of the orphaned ones.  operator/environment,                   *)
(* pkg/apis/environment, operator/scheduler/tasks.                         *)
(*                                                                         *)
(* Syncs of different environments run side by side, those of one follow   *)
(* each other.  A Sync reads the RadixEnvironment, the RadixApplication    *)
(* and the namespace from the API server, and the role bindings from the   *)
(* informer's cache; the clean-up lists the cache.  Every call is a step.  *)
(***************************************************************************)
EXTENDS AppConfig

CONSTANTS
  Retention,  \* orphanedEnvironmentsRetentionPeriod
  MaxClock    \* bound: the time at which the clock stops

Never == -1

ASSUME RetentionAssumption == Retention \in Nat /\ MaxClock \in Nat

VARIABLES
  clock,
  re,           \* the RadixEnvironments as the API server has them
  born,         \* how many of each there have been
  reSeen,       \* ... and as the informer's cache has them
  reEdited,     \* which of them were updated since
  ns,           \* the namespaces: their phase, and the RadixEnvironment that owns them
  roles,        \* the owner of the role bindings in each namespace
  rolesSeen,    \* ... as the informer's cache has it
  policy,       \* the egress rules in force in each namespace
  nsGone,       \* the namespaces whose deletion is yet to be delivered
  rolesGone,    \* ... and those of whose role bindings it is
  raSeen,       \* the RadixApplication as the controller was last told
  envPending,   \* the environments on the work queue
  envSync,      \* the Sync in progress of each environment
  doomed,       \* what the clean-up, and the user, are about to delete
  misled        \* where a lookup failed, or no event came, since the last Sync (history variable)

told   == <<raStream, raSeen>>
kube   == <<ns, roles, policy, nsGone, rolesGone>>
caches == <<reSeen, rolesSeen>>
envVars == <<clock, re, born, reEdited, kube, caches, told, envPending, envSync, doomed, misled>>

(* A RadixEnvironment; 0 is the UID of none. *)
NoRE == [uid |-> 0, egress |-> NoEnv, orphaned |-> FALSE, since |-> Never]

NoNamespace == [phase |-> "none", owner |-> 0]

EnvIdle == [pc |-> "idle", own |-> NoRE, found |-> FALSE, failed |-> FALSE]

Exists(e) == re[e].uid # 0

(* Everything is in order, or the operator is started after a while: AddFunc. *)
EnvInit ==
  LET present(e) == Configured(e)
      made(e) == [NoRE EXCEPT !.uid = IF present(e) THEN 1 ELSE 0, !.egress = ra.config.env[e]]
  IN
  /\ clock = 0
  /\ re = [e \in Envs |-> made(e)] /\ reSeen = re /\ reEdited = {}
  /\ born = [e \in Envs |-> re[e].uid]
  /\ ns = [e \in Envs |-> IF present(e) THEN [phase |-> "active", owner |-> 1] ELSE NoNamespace]
  /\ roles = [e \in Envs |-> re[e].uid] /\ rolesSeen = roles
  /\ policy = [e \in Envs |-> re[e].egress]
  /\ nsGone = {} /\ rolesGone = {}
  /\ raSeen = ra
  /\ envPending = {}
  /\ envSync = [e \in Envs |-> EnvIdle]
  /\ doomed = [cron |-> {}, user |-> {}]
  /\ misled = {}

(* Time passes, which only orphans notice. *)
Tick ==
  /\ clock < MaxClock
  /\ \E e \in Envs : re[e].since # Never \/ reSeen[e].since # Never
  /\ clock' = clock + 1
  /\ UNCHANGED <<re, born, reEdited, kube, caches, told, envPending, envSync, doomed, misled, left>>

-----------------------------------------------------------------------------
(* Events *)

(* getAddedOrDroppedEnvironmentNames *)
AddedOrDropped(old, new) == {e \in Envs : (old.config.env[e] = NoEnv) # (new.config.env[e] = NoEnv)}

(* UpdateFunc and DeleteFunc of the RadixApplications; there is no AddFunc. *)
Affected(old, new) ==
  IF old.exists /\ new.exists THEN AddedOrDropped(old, new)
  ELSE IF old.exists THEN {e \in Envs : old.config.env[e] # NoEnv}
  ELSE {}

(* The RadixEnvironments among them are enqueued, but for those that cannot be got. *)
DeliverApplication ==
  /\ raStream # <<>>
  /\ raSeen' = Head(raStream) /\ raStream' = Tail(raStream)
  /\ LET names == {e \in Affected(raSeen, Head(raStream)) : Exists(e)} IN
     \/ /\ envPending' = envPending \cup names
        /\ UNCHANGED <<misled, left>>
     \/ /\ Spend("lookup")
        /\ \E e \in names : /\ envPending' = envPending \cup (names \ {e})
                            /\ misled' = misled \cup {e}
  /\ UNCHANGED <<clock, re, born, reEdited, kube, caches, envSync, doomed>>

(* AddFunc and UpdateFunc of the RadixEnvironments: the status is no reason for a Sync. *)
NotifiedOfEnvironment(old, new) ==
  new.uid # 0 /\ (new.uid # old.uid \/ new.egress # old.egress)

(* The cache of RadixEnvironments catches up: there is an event for every update, also for
   one that took another back. *)
DeliverEnvironment(e) ==
  /\ reSeen[e] # re[e] \/ e \in reEdited
  /\ reSeen' = [reSeen EXCEPT ![e] = re[e]]
  /\ reEdited' = reEdited \ {e}
  /\ envPending' = IF e \in reEdited \/ NotifiedOfEnvironment(reSeen[e], re[e]) THEN envPending \cup {e} ELSE envPending
  /\ UNCHANGED <<clock, re, born, kube, rolesSeen, told, envSync, doomed, misled, left>>

(* HandleObject for what is deleted: its owner is enqueued when there is one. *)
Owner(e) == IF Exists(e) THEN {e} ELSE {}

DeliverRoles(e) ==
  /\ rolesSeen[e] # roles[e] \/ e \in rolesGone
  /\ rolesSeen' = [rolesSeen EXCEPT ![e] = roles[e]]
  /\ rolesGone' = rolesGone \ {e}
  /\ envPending' = IF e \in rolesGone THEN envPending \cup Owner(e) ELSE envPending
  /\ UNCHANGED <<clock, re, born, reEdited, ns, roles, policy, nsGone, reSeen, told, envSync, doomed, misled, left>>

DeliverNamespaceGone(e) ==
  /\ e \in nsGone
  /\ nsGone' = nsGone \ {e}
  /\ envPending' = envPending \cup Owner(e)
  /\ UNCHANGED <<clock, re, born, reEdited, ns, roles, policy, rolesGone, caches, told, envSync, doomed, misled, left>>

-----------------------------------------------------------------------------
(* The Sync of an environment *)

At(e, pc) == envSync[e].pc = pc

Goto(e, pc) == envSync' = [envSync EXCEPT ![e].pc = pc]

(* An error of reconcile is returned after the status is written. *)
Fail(e) == envSync' = [envSync EXCEPT ![e].pc = "status", ![e].failed = TRUE]

EnvRequeue(e) ==
  /\ envSync' = [envSync EXCEPT ![e] = EnvIdle]
  /\ envPending' = envPending \cup {e}

(* Handler.Sync gets the RadixEnvironment. *)
StartEnvSync(e) ==
  /\ e \in envPending /\ At(e, "idle")
  /\ envPending' = envPending \ {e}
  /\ envSync' = IF Exists(e) THEN [envSync EXCEPT ![e].pc = "lookup", ![e].own = re[e]] ELSE envSync
  /\ misled' = misled \ {e}
  /\ UNCHANGED <<clock, re, born, reEdited, kube, caches, told, doomed, left>>

(* It gets the RadixApplication: one that cannot be got is none. *)
LookUpApplication(e) ==
  /\ At(e, "lookup")
  /\ \/ /\ envSync' = [envSync EXCEPT ![e].pc = "namespace", ![e].found = Configured(e)]
        /\ UNCHANGED <<misled, left>>
     \/ /\ Spend("lookup")
        /\ Goto(e, "namespace")
        /\ misled' = misled \cup {e}
  /\ UNCHANGED <<clock, re, born, reEdited, kube, caches, told, envPending, doomed>>

(* Mutant: the owner of a namespace that exists is left as it is. *)
PutNamespaceOnce(e) ==
  /\ At(e, "namespace")
  /\ Goto(e, "roles")
  /\ ns' = IF ns[e].phase = "none" THEN [ns EXCEPT ![e] = [phase |-> "active", owner |-> envSync[e].own.uid]] ELSE ns
  /\ UNCHANGED <<clock, re, born, reEdited, roles, policy, nsGone, rolesGone, caches, told, envPending, doomed, misled, left>>

(* reconcileNamespace: CreateNamespace, or UpdateNamespace with another owner.
   (One step: an update of what has changed since it was got is refused.) *)
PutNamespace(e) ==
  /\ At(e, "namespace")
  /\ Goto(e, "roles")
  /\ ns' = [ns EXCEPT ![e] = [phase |-> IF @.phase = "none" THEN "active" ELSE @.phase,
                              owner |-> envSync[e].own.uid]]
  /\ UNCHANGED <<clock, re, born, reEdited, roles, policy, nsGone, rolesGone, caches, told, envPending, doomed, misled, left>>

(* ApplyRoleBinding and ApplyLimitRange: created when the cache has none, else patched
   when the owner is another.  Nothing is created in a namespace that terminates. *)
ApplyRoles(e) ==
  LET uid == envSync[e].own.uid
      allowed == IF rolesSeen[e] = 0 THEN roles[e] = 0 /\ ns[e].phase = "active" ELSE roles[e] # 0
  IN
  /\ At(e, "roles")
  /\ IF rolesSeen[e] = uid THEN Goto(e, "egress") /\ UNCHANGED roles
     ELSE IF allowed THEN Goto(e, "egress") /\ roles' = [roles EXCEPT ![e] = uid]
     ELSE Fail(e) /\ UNCHANGED roles
  /\ UNCHANGED <<clock, re, born, reEdited, ns, policy, nsGone, rolesGone, caches, told, envPending, doomed, misled, left>>

(* UpdateEnvEgressRules *)
ApplyEgress(e) ==
  /\ At(e, "egress")
  /\ IF ns[e].phase = "active" \/ policy[e] # NoEnv
       THEN Goto(e, "status") /\ policy' = [policy EXCEPT ![e] = envSync[e].own.egress]
       ELSE Fail(e) /\ UNCHANGED policy
  /\ UNCHANGED <<clock, re, born, reEdited, ns, roles, nsGone, rolesGone, caches, told, envPending, doomed, misled, left>>

(* Mutant: the time of an earlier orphaning is kept. *)
StatusKept(own, found) ==
  [own EXCEPT !.orphaned = ~found,
              !.since = IF ~found /\ own.since = Never THEN clock ELSE @]

(* The status that syncStatus writes. *)
Status(own, found) ==
  [own EXCEPT !.orphaned = ~found,
              !.since = IF found THEN Never ELSE IF own.since = Never THEN clock ELSE @]

(* Mutant: a status that is written again is an event for its RadixEnvironment. *)
SyncEnvStatusHeard(e) ==
  /\ At(e, "status")
  /\ re' = IF re[e] = envSync[e].own
              THEN [re EXCEPT ![e] = Status(envSync[e].own, envSync[e].found)] ELSE re
  /\ EnvRequeue(e)
  /\ UNCHANGED <<clock, born, reEdited, kube, caches, told, doomed, misled, left>>

(* updateStatus: refused when the RadixEnvironment has changed, or is gone. *)
SyncEnvStatus(e) ==
  LET current == re[e] = envSync[e].own IN
  /\ At(e, "status")
  /\ re' = IF current THEN [re EXCEPT ![e] = Status(envSync[e].own, envSync[e].found)] ELSE re
  /\ IF current /\ ~envSync[e].failed
       THEN envSync' = [envSync EXCEPT ![e] = EnvIdle] /\ UNCHANGED envPending
       ELSE EnvRequeue(e)
  /\ UNCHANGED <<clock, born, reEdited, kube, caches, told, doomed, misled, left>>

(* Any call fails. *)
EnvSyncFails(e) ==
  /\ Spend("error")
  /\ \/ /\ envSync[e].pc \in {"namespace", "roles", "egress"}
        /\ Fail(e) /\ UNCHANGED envPending
     \/ /\ At(e, "status") /\ EnvRequeue(e)
  /\ UNCHANGED <<clock, re, born, reEdited, kube, caches, told, doomed, misled>>

-----------------------------------------------------------------------------
(* The clean-up, and the user *)

(* Mutant: the times compared the other way round. *)
OutdatedYoung(o) == o.orphaned /\ o.since # Never /\ o.since > clock - Retention

(* getOutdatedOrphanedEnvironments *)
Outdated(o) == o.orphaned /\ o.since # Never /\ o.since < clock - Retention

(* Run lists the cache, unless the previous one is still running, *)
CleanUp ==
  /\ doomed.cron = {}
  /\ doomed' = [doomed EXCEPT !.cron = {e \in Envs : reSeen[e].uid # 0 /\ Outdated(reSeen[e])}]
  /\ doomed'.cron # {}
  /\ UNCHANGED <<clock, re, born, reEdited, kube, caches, told, envPending, envSync, misled, left>>

(* DeleteEnvironment of the API server gets an orphaned RadixEnvironment, *)
UserDeletes(e) ==
  /\ Exists(e) /\ (re[e].orphaned \/ re[e].since # Never)
  /\ Spend("user")
  /\ doomed' = [doomed EXCEPT !.user = @ \cup {e}]
  /\ UNCHANGED <<clock, re, born, reEdited, kube, caches, told, envPending, envSync, misled>>

(* and both delete by name, whatever it is by then.  An error is passed over. *)
DeleteEnvironment(who, e) ==
  /\ e \in doomed[who]
  /\ doomed' = [doomed EXCEPT ![who] = @ \ {e}]
  /\ \/ re' = [re EXCEPT ![e] = NoRE] /\ UNCHANGED left
     \/ Spend("error") /\ UNCHANGED re
  /\ UNCHANGED <<clock, born, reEdited, kube, caches, told, envPending, envSync, misled>>

-----------------------------------------------------------------------------
(* Kubernetes *)

Terminate(e) ==
  /\ ns[e].phase = "active"
  /\ ns' = [ns EXCEPT ![e].phase = "terminating"]
  /\ UNCHANGED <<clock, re, born, reEdited, roles, policy, nsGone, rolesGone, caches, told, envPending, envSync, doomed, misled>>

(* The garbage collector deletes what is owned by a RadixEnvironment that is gone. *)
CollectNamespace(e) ==
  /\ ns[e].owner # re[e].uid
  /\ Terminate(e)
  /\ UNCHANGED left

(* An administrator deletes the namespace. *)
DeleteNamespace(e) ==
  /\ Spend("namespace")
  /\ Terminate(e)

CollectRoles(e) ==
  /\ roles[e] \notin {0, re[e].uid}
  /\ roles' = [roles EXCEPT ![e] = 0]
  /\ rolesGone' = rolesGone \cup {e}
  /\ UNCHANGED <<clock, re, born, reEdited, ns, policy, nsGone, caches, told, envPending, envSync, doomed, misled, left>>

(* A namespace that terminates is emptied, and then gone. *)
EmptyNamespace(e) ==
  /\ ns[e].phase = "terminating" /\ (roles[e] # 0 \/ policy[e] # NoEnv)
  /\ roles' = [roles EXCEPT ![e] = 0]
  /\ policy' = [policy EXCEPT ![e] = NoEnv]
  /\ rolesGone' = IF roles[e] # 0 THEN rolesGone \cup {e} ELSE rolesGone
  /\ UNCHANGED <<clock, re, born, reEdited, ns, nsGone, caches, told, envPending, envSync, doomed, misled, left>>

RemoveNamespace(e) ==
  /\ ns[e].phase = "terminating" /\ roles[e] = 0 /\ policy[e] = NoEnv
  /\ ns' = [ns EXCEPT ![e] = NoNamespace]
  /\ nsGone' = nsGone \cup {e}
  /\ UNCHANGED <<clock, re, born, reEdited, roles, policy, rolesGone, caches, told, envPending, envSync, doomed, misled, left>>

(* The operator is killed and started: the caches are listed anew, AddFunc enqueues all. *)
EnvCrash ==
  /\ reSeen' = re /\ reEdited' = {} /\ rolesSeen' = roles
  /\ raSeen' = ra /\ raStream' = <<>>
  /\ nsGone' = {} /\ rolesGone' = {}
  /\ envPending' = {e \in Envs : Exists(e)}
  /\ envSync' = [e \in Envs |-> EnvIdle]
  /\ doomed' = [doomed EXCEPT !.cron = {}]
  /\ UNCHANGED <<clock, re, born, ns, roles, policy, misled>>
=============================================================================
