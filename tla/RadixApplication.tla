--------------------------- MODULE RadixApplication ---------------------------
(***************************************************************************)
(* An application: the Sync of its RadixApplication creates and updates    *)
(* its RadixEnvironments and RadixDNSAliases, whose own controllers follow *)
(* the same RadixApplication, and each other, on their own.                *)
(* operator/application, pkg/apis/applicationconfig.                       *)
(***************************************************************************)
EXTENDS RadixEnvironment, RadixDNSAlias

CONSTANT MaxAttempts  \* retry.DefaultRetry.Steps

ASSUME AttemptsAssumption == MaxAttempts \in Nat \ {0}

VARIABLES
  appPending,  \* whether the RadixApplication is on the work queue
  appSync,     \* the Sync in progress of the RadixApplication
  lost         \* the environments deleted although configured (history variable)

vars == <<appVars, envVars, aliasVars, appPending, appSync, lost>>

(* What a Sync has left to do about aliases. *)
NoWork == [delete |-> {}, update |-> {}, create |-> {}]

AppIdle == [pc |-> "idle", envs |-> {}, old |-> NoRE, tries |-> 0,
            config |-> [env |-> [e \in Envs |-> NoEnv], alias |-> [a \in Aliases |-> NoTarget]],
            listed |-> [a \in Aliases |-> NoAlias], work |-> NoWork]

Init ==
  /\ \E start \in Starts : ConfigInit(start) /\ EnvInit /\ AliasInit(start.spec)
  /\ appPending = FALSE
  /\ appSync = AppIdle
  /\ lost = {}

-----------------------------------------------------------------------------
(* The Sync of the RadixApplication *)

envObjects == <<re, born, reEdited, lost>>
aliasObjects == <<alias, named, aliasEdited>>

AppAt(pc) == appSync.pc = pc

AppDone == appSync' = AppIdle /\ UNCHANGED appPending

AppRequeue == appSync' = AppIdle /\ appPending' = TRUE

(* AddFunc and UpdateFunc of the RadixApplications *)
DeliverEdit ==
  /\ raEdited
  /\ raEdited' = FALSE /\ appPending' = TRUE
  /\ UNCHANGED <<appSync, envObjects, aliasObjects>>

(* Handler.Sync gets the RadixApplication. *)
StartAppSync ==
  /\ appPending /\ AppAt("idle")
  /\ appPending' = FALSE
  /\ appSync' = IF ra.exists
       THEN [AppIdle EXCEPT !.pc = "get", !.config = ra.config, !.envs = {e \in Envs : Configured(e)}]
       ELSE AppIdle
  /\ UNCHANGED <<envObjects, aliasObjects>>

(* syncEnvironments is done with an environment. *)
NextEnv(e) ==
  /\ appSync' = [appSync EXCEPT !.pc = "get", !.envs = @ \ {e}]
  /\ UNCHANGED appPending

Continue(pc) ==
  /\ appSync' = [appSync EXCEPT !.pc = pc]
  /\ UNCHANGED appPending

Wanted(e) == appSync.config.env[e]

(* syncEnvironment gets the RadixEnvironment: it is created, or updated unless equal. *)
GetEnvironment(e) ==
  /\ AppAt("get")
  /\ IF ~Exists(e) THEN Continue("create")
     ELSE IF re[e].egress = Wanted(e) THEN NextEnv(e)
     ELSE /\ appSync' = [appSync EXCEPT !.pc = "update", !.old = re[e], !.tries = 1]
          /\ UNCHANGED appPending
  /\ UNCHANGED <<envObjects, aliasObjects>>

(* createRadixEnvironment *)
CreateEnvironment(e) ==
  /\ AppAt("create")
  /\ IF Exists(e) THEN AppRequeue /\ UNCHANGED envObjects
     ELSE /\ born' = [born EXCEPT ![e] = @ + 1]
          /\ re' = [re EXCEPT ![e] = [NoRE EXCEPT !.uid = born[e] + 1, !.egress = Wanted(e)]]
          /\ lost' = lost \ {e}
          /\ NextEnv(e)
          /\ UNCHANGED reEdited
  /\ UNCHANGED aliasObjects

(* updateRadixEnvironment: a conflict is retried, *)
UpdateEnvironment(e) ==
  /\ AppAt("update")
  /\ IF re[e] = appSync.old
       THEN /\ re' = [re EXCEPT ![e].egress = Wanted(e)] /\ reEdited' = reEdited \cup {e}
            /\ NextEnv(e)
       ELSE /\ IF Exists(e) /\ appSync.tries < MaxAttempts THEN Continue("reload") ELSE AppRequeue
            /\ UNCHANGED <<re, reEdited>>
  /\ UNCHANGED <<born, lost, aliasObjects>>

(* with a new copy; a RadixEnvironment that is gone by then is passed over. *)
ReloadEnvironment(e) ==
  /\ AppAt("reload")
  /\ IF ~Exists(e) \/ re[e].egress = Wanted(e) THEN NextEnv(e)
     ELSE /\ appSync' = [appSync EXCEPT !.pc = "update", !.old = re[e], !.tries = @ + 1]
          /\ UNCHANGED appPending
  /\ UNCHANGED <<envObjects, aliasObjects>>

(* It takes them in the order of spec.environments. *)
First(envs) == {EnvSeq[i] : i \in {k \in DOMAIN EnvSeq : EnvSeq[k] \in envs /\ \A n \in 1..(k - 1) : EnvSeq[n] \notin envs}}

SyncEnvironments ==
  \E e \in First(appSync.envs) :
    GetEnvironment(e) \/ CreateEnvironment(e) \/ UpdateEnvironment(e) \/ ReloadEnvironment(e)

-----------------------------------------------------------------------------
(* Mutant: an alias that leads to another environment is only updated. *)
WorkInPlace(config, listed) ==
  LET wanted == {a \in Aliases : config.alias[a] # NoTarget}
      own == {a \in Aliases : listed[a].app = "own"}
  IN [delete |-> own \ wanted,
      update |-> {a \in wanted \cap own : listed[a].target # config.alias[a]},
      create |-> wanted \ own]

(* Mutant: what is not wanted is created as well. *)
WorkUnwanted(config, listed) ==
  LET own == {a \in Aliases : listed[a].app = "own"}
      stay == {a \in own : config.alias[a] # NoTarget /\ listed[a].target.env = config.alias[a].env}
  IN [delete |-> own \ stay,
      update |-> {a \in stay : listed[a].target # config.alias[a]},
      create |-> Aliases \ stay]

(* Mutant: the aliases of all applications. *)
WorkOfAll(config, listed) ==
  LET wanted == {a \in Aliases : config.alias[a] # NoTarget}
      some == {a \in Aliases : listed[a] # NoAlias}
      stay == {a \in wanted \cap some : listed[a].target.env = config.alias[a].env}
  IN [delete |-> some \ stay,
      update |-> {a \in stay : listed[a].target # config.alias[a]},
      create |-> wanted \ stay]

(* getDNSAliasesToSync: an alias that leads to another environment is deleted and
   created; one that leads to another component is updated. *)
Work(config, listed) ==
  LET wanted == {a \in Aliases : config.alias[a] # NoTarget}
      own == {a \in Aliases : listed[a].app = "own"}
      stay == {a \in wanted \cap own : listed[a].target.env = config.alias[a].env}
  IN [delete |-> own \ stay,
      update |-> {a \in stay : listed[a].target # config.alias[a]},
      create |-> wanted \ stay]

(* ErrDNSAliasUsedByOtherApplication *)
Taken(config, listed) ==
  \E a \in Aliases : config.alias[a] # NoTarget /\ listed[a].app = "other"

(* After the environments and the secrets, syncDNSAliases lists all aliases. *)
ListAliases ==
  /\ AppAt("get") /\ appSync.envs = {}
  /\ IF Taken(appSync.config, alias) THEN AppRequeue
     ELSE /\ appSync' = [appSync EXCEPT !.pc = "aliases", !.listed = alias, !.work = Work(appSync.config, alias)]
          /\ UNCHANGED appPending
  /\ UNCHANGED <<envObjects, aliasObjects>>

(* Those that are done with are deleted by name, *)
DeleteAlias(a) ==
  /\ AppAt("aliases") /\ a \in appSync.work.delete
  /\ alias' = [alias EXCEPT ![a] = NoAlias]
  /\ IF alias[a] = NoAlias THEN AppRequeue
     ELSE appSync' = [appSync EXCEPT !.work.delete = @ \ {a}] /\ UNCHANGED appPending
  /\ UNCHANGED <<envObjects, named, aliasEdited>>

(* then the others are updated, *)
UpdateAlias(a) ==
  /\ AppAt("aliases") /\ appSync.work.delete = {} /\ a \in appSync.work.update
  /\ alias' = [alias EXCEPT ![a].target.component = appSync.config.alias[a].component]
  /\ aliasEdited' = aliasEdited \cup {a}
  /\ appSync' = [appSync EXCEPT !.work.update = @ \ {a}]
  /\ UNCHANGED <<appPending, named, envObjects>>

(* then the new ones are created.  The first error ends it. *)
CreateAlias(a) ==
  /\ AppAt("aliases") /\ appSync.work.delete = {} /\ appSync.work.update = {} /\ a \in appSync.work.create
  /\ IF alias[a] = NoAlias
       THEN /\ alias' = [alias EXCEPT ![a] = [uid |-> named[a] + 1, app |-> "own", target |-> appSync.config.alias[a]]]
            /\ named' = [named EXCEPT ![a] = @ + 1]
            /\ aliasEdited' = aliasEdited \cup {a}
            /\ appSync' = [appSync EXCEPT !.work.create = @ \ {a}] /\ UNCHANGED appPending
       ELSE AppRequeue /\ UNCHANGED aliasObjects
  /\ UNCHANGED envObjects

SyncDNSAliases == ListAliases \/ \E a \in Aliases : DeleteAlias(a) \/ UpdateAlias(a) \/ CreateAlias(a)

(* syncStatus: refused when the RadixApplication has changed, or is gone. *)
SyncAppStatus ==
  /\ AppAt("aliases") /\ appSync.work = NoWork
  /\ IF ra = [exists |-> TRUE, config |-> appSync.config] THEN AppDone ELSE AppRequeue
  /\ UNCHANGED <<envObjects, aliasObjects>>

(* Any call fails. *)
AppSyncFails ==
  /\ ~AppAt("idle")
  /\ Spend("error")
  /\ AppRequeue
  /\ UNCHANGED <<envObjects, aliasObjects>>

-----------------------------------------------------------------------------
(* The whole *)

appCtl == <<appPending, appSync>>
envOwn == <<clock, kube, caches, raSeen, envPending, envSync, doomed>>
appRest == <<ra, raStream, envOwn, misled, routes, deploys, aliasPending, aliasSync, misrouted>>
envRest == <<ra, raEdited, aliasVars, appCtl>>
aliasRest == <<ra, raStream, raEdited, envVars, appCtl, lost>>

(* A pipeline applies its radixconfig.  A RadixApplication that is created is no
   event for the RadixEnvironments. *)
ApplyConfig ==
  /\ \E config \in Configs : Apply(config)
  /\ misled' = IF ra.exists THEN misled ELSE Envs
  /\ UNCHANGED <<envOwn, envObjects, aliasVars, appCtl>>

RemoveConfig ==
  /\ DeleteApplication
  /\ UNCHANGED <<envOwn, envObjects, misled, aliasVars, appCtl>>

AppEvent == DeliverEdit /\ UNCHANGED <<appRest, left>>

AppSyncStep ==
  /\ StartAppSync \/ SyncEnvironments \/ SyncDNSAliases \/ SyncAppStatus
  /\ UNCHANGED <<appRest, raEdited, left>>

AppFault == AppSyncFails /\ UNCHANGED <<appRest, raEdited>>

ApplicationEvent == DeliverApplication /\ UNCHANGED <<envRest, lost>>

EnvEvent(e) ==
  /\ DeliverEnvironment(e) \/ DeliverRoles(e) \/ DeliverNamespaceGone(e)
  /\ UNCHANGED <<envRest, lost>>

EnvSyncStep(e) ==
  /\ \/ StartEnvSync(e) \/ LookUpApplication(e) \/ PutNamespace(e)
     \/ ApplyRoles(e) \/ ApplyEgress(e) \/ SyncEnvStatus(e)
  /\ UNCHANGED <<envRest, lost>>

EnvFault(e) ==
  /\ EnvSyncFails(e) \/ UserDeletes(e) \/ DeleteNamespace(e)
  /\ UNCHANGED <<envRest, lost>>

CleanUpRun == CleanUp /\ UNCHANGED <<envRest, lost>>

Deletion(who, e) ==
  /\ DeleteEnvironment(who, e)
  /\ lost' = IF Configured(e) /\ ~Exists(e)' THEN lost \cup {e} ELSE lost
  /\ UNCHANGED envRest

Clock == Tick /\ UNCHANGED <<envRest, lost>>

(* A namespace that terminates takes its HTTPRoutes and RadixDeployments with it. *)
Kubernetes(e) ==
  \/ /\ CollectNamespace(e) \/ CollectRoles(e) \/ RemoveNamespace(e)
     /\ UNCHANGED <<envRest, lost>>
  \/ /\ EmptyNamespace(e)
     /\ EmptyOfRoutes(e)
     /\ UNCHANGED <<ra, raEdited, appCtl, lost>>

Deployments(e) == Rollout(e) /\ UNCHANGED <<aliasRest, left>>

Pipelines(e) ==
  /\ ns[e].phase = "active"
  /\ \E spec \in Specs : Deploy(e, spec)
  /\ UNCHANGED aliasRest

AliasEvent ==
  /\ DeliverDeployment \/ \E a \in Aliases : DeliverAlias(a)
  /\ UNCHANGED <<aliasRest, left>>

AliasEventLost == LoseDeployment /\ UNCHANGED aliasRest

RouteEvent ==
  /\ \E a \in Aliases, e \in Envs : DeliverRoute(a, e) \/ CollectRoute(a, e)
  /\ UNCHANGED <<aliasRest, left>>

AliasSyncStep(a) ==
  /\ \/ StartAliasSync(a) \/ FindPort(a) \/ SyncAliasStatus(a)
     \/ ReconcileHTTPRoute(a, {e \in Envs : ns[e].phase = "active"})
  /\ UNCHANGED <<aliasRest, left>>

AliasFault(a) ==
  /\ AliasSyncFails(a) \/ OtherApplication(a)
  /\ UNCHANGED aliasRest

(* The operator is killed and started. *)
Crash ==
  /\ Spend("crash")
  /\ EnvCrash /\ AliasCrash
  /\ raEdited' = FALSE /\ appPending' = ra.exists
  /\ appSync' = AppIdle
  /\ UNCHANGED <<ra, lost>>

Next ==
  \/ ApplyConfig \/ RemoveConfig \/ AppEvent \/ AppSyncStep \/ AppFault
  \/ ApplicationEvent \/ CleanUpRun \/ Clock
  \/ \E e \in Envs : \/ EnvEvent(e) \/ EnvSyncStep(e) \/ EnvFault(e) \/ Kubernetes(e)
                     \/ Deletion("cron", e) \/ Deletion("user", e)
                     \/ Deployments(e) \/ Pipelines(e)
  \/ AliasEvent \/ AliasEventLost \/ RouteEvent
  \/ \E a \in Aliases : AliasSyncStep(a) \/ AliasFault(a)
  \/ Crash

(* The informers deliver, Kubernetes collects and empties, time passes. *)
Surroundings ==
  \/ AppEvent \/ ApplicationEvent \/ AliasEvent \/ RouteEvent \/ Clock
  \/ \E e \in Envs : EnvEvent(e) \/ Kubernetes(e) \/ Deployments(e)

(* Those get on, and so do the cron job, and each of the three controllers on whatever
   it has queued. *)
Fairness ==
  /\ WF_vars(Surroundings)
  /\ WF_vars(CleanUpRun \/ \E e \in Envs : Deletion("cron", e))
  /\ WF_vars(AppSyncStep)
  /\ WF_vars(\E e \in Envs : EnvSyncStep(e))
  /\ WF_vars(\E a \in Aliases : AliasSyncStep(a))

Spec == Init /\ [][Next]_vars /\ Fairness

-----------------------------------------------------------------------------
(* Types *)

EnvRecords == [uid : Nat, egress : Egress \cup {NoEnv}, orphaned : BOOLEAN, since : Nat \cup {Never}]
Namespaces == [phase : {"none", "active", "terminating"}, owner : Nat]
AliasRecords == [uid : Nat, app : {"", "own", "other"}, target : Targets \cup {NoTarget}]
Routes == [owner : Nat, component : Components \cup {""}, port : Ports \cup {NoPort}]

AppSyncs ==
  [pc : {"idle", "get", "create", "update", "reload", "aliases"}, envs : SUBSET Envs, old : EnvRecords,
   tries : 0..MaxAttempts,
   config : [env : [Envs -> Egress \cup {NoEnv}], alias : [Aliases -> Targets \cup {NoTarget}]],
   listed : [Aliases -> AliasRecords],
   work : [delete : SUBSET Aliases, update : SUBSET Aliases, create : SUBSET Aliases]]

(* Every variable has its type. *)
TypeOK ==
  /\ ConfigTypeOK
  /\ clock \in Nat
  /\ re \in [Envs -> EnvRecords] /\ reSeen \in [Envs -> EnvRecords] /\ born \in [Envs -> Nat]
  /\ reEdited \subseteq Envs
  /\ ns \in [Envs -> Namespaces]
  /\ roles \in [Envs -> Nat] /\ rolesSeen \in [Envs -> Nat]
  /\ policy \in [Envs -> Egress \cup {NoEnv}]
  /\ nsGone \subseteq Envs /\ rolesGone \subseteq Envs
  /\ raSeen \in Applications
  /\ envPending \subseteq Envs /\ misled \subseteq Envs /\ lost \subseteq Envs
  /\ envSync \in [Envs -> [pc : {"idle", "lookup", "namespace", "roles", "egress", "status"},
                           own : EnvRecords, found : BOOLEAN, failed : BOOLEAN]]
  /\ doomed \in [cron : SUBSET Envs, user : SUBSET Envs]
  /\ alias \in [Aliases -> AliasRecords] /\ named \in [Aliases -> Nat]
  /\ \A a \in Aliases : Own(a) => alias[a].target \in Targets
  /\ route \in [Aliases -> [Envs -> Routes]] /\ routeSeen \in [Aliases -> [Envs -> Routes]]
  /\ rds \in [Envs -> Seq(RDs)]
  /\ rollout \in [Envs -> {"done", "activate", "inactivate", "status"}]
  /\ rdEvents \in Seq([env : Envs, change : {"added", "activated", "ended", "reconciled"}])
  /\ aliasEdited \subseteq Aliases /\ aliasPending \subseteq Aliases /\ misrouted \subseteq Aliases
  /\ aliasSync \in [Aliases -> [pc : {"idle", "init", "route", "status"},
                                own : AliasRecords, port : Ports \cup {NoPort}]]
  /\ appPending \in BOOLEAN
  /\ appSync \in AppSyncs

-----------------------------------------------------------------------------
(* Properties *)

AppQuiet == ~raEdited /\ ~appPending /\ AppAt("idle")

EnvQuiet(e) ==
  /\ raStream = <<>> /\ reSeen[e] = re[e] /\ rolesSeen[e] = roles[e]
  /\ e \notin reEdited \cup nsGone \cup rolesGone \cup envPending /\ At(e, "idle")

AliasQuiet(a) ==
  /\ a \notin aliasEdited \cup aliasPending /\ AliasAt(a, "idle")
  /\ rdEvents = <<>>

(* Once its events are delivered and its Sync is done, a RadixEnvironment is marked as
   orphaned, with a time, exactly when it is not in the RadixApplication, unless a
   lookup failed or the RadixApplication was created anew.  operator/environment,
   environment/status.go. *)
FlagIsTrue ==
  \A e \in Envs : Exists(e) /\ EnvQuiet(e) /\ e \notin misled =>
    /\ re[e].orphaned = ~Configured(e)
    /\ (re[e].since # Never) = re[e].orphaned

(* Once the Syncs are done every RadixEnvironment has a namespace with role bindings
   and egress rules, that are its own, even when it was deleted and created again
   while the old ones were on their way out.  environment.go, the DeleteFuncs. *)
NamespaceFollows ==
  \A e \in Envs : Exists(e) /\ EnvQuiet(e) /\ ns[e].phase # "terminating" /\ roles[e] \in {0, re[e].uid} =>
    /\ ns[e] = [phase |-> "active", owner |-> re[e].uid]
    /\ roles[e] = re[e].uid /\ policy[e] = re[e].egress

(* Once its Sync is done the RadixApplication is what the cluster has: each of its
   environments has a RadixEnvironment with its egress rules, unless that was deleted
   while it was in the RadixApplication, and its DNS aliases are those of the list.
   applicationconfig/environment.go, dns_alias.go. *)
ConfigIsApplied ==
  AppQuiet /\ ra.exists =>
    /\ \A e \in Envs : Configured(e) /\ e \notin lost => re[e].egress = ra.config.env[e]
    /\ \A a \in Aliases : IF Own(a) THEN alias[a].target = ra.config.alias[a]
                                    ELSE ra.config.alias[a] = NoTarget

(* Once its Sync is done an alias has an HTTPRoute to the public port of its component
   in the active RadixDeployment, and no HTTPRoute when there is none, unless a stale
   cache made that Sync believe the HTTPRoute was there, its namespace was emptied
   meanwhile, or an event of a RadixDeployment was dropped since.  dnsalias/gateway.go and
   the events of operator/dnsalias. *)
AliasFollows ==
  \A a \in Aliases : Own(a) /\ AliasQuiet(a) /\ a \notin misrouted =>
    LET e == alias[a].target.env
        ports == {rds[e][i].spec[alias[a].target.component] :
                    i \in {k \in DOMAIN rds[e] : rds[e][k].cond = "Active"}} \ {NoPort}
    IN rollout[e] = "done" =>
         IF ports = {} THEN route[a][e] = NoRoute
         ELSE \E port \in ports :
                route[a][e] = [owner |-> alias[a].uid, component |-> alias[a].target.component, port |-> port]

(* The Sync of a RadixApplication never touches the alias of another application. *)
NoAliasStolen ==
  [][\A a \in Aliases : alias[a].app = "other" /\ appSync' # appSync => alias'[a] = alias[a]]_vars

(* An environment that is in the RadixApplication is not deleted: it "must be removed
   from radix config first", environment_handler.go:261, and the clean-up takes orphans,
   radix_environments_cleanup.go:23. *)
ConfiguredIsKept ==
  [][\A e \in Envs : Configured(e) /\ Exists(e) => Exists(e)']_vars

(* What is no longer in the RadixApplication goes, RadixEnvironment and namespace, once
   it has been orphaned for the retention period (and the clock gets that far). *)
OrphansGo ==
  \A e \in Envs :
    <>[](~Configured(e) /\ e \notin misled)
      => <>[](\/ ~Exists(e) /\ ns[e] = NoNamespace
              \/ Exists(e) /\ re[e].orphaned /\ re[e].since + Retention >= MaxClock)

(* The controllers come to rest: none of them keeps another, or itself, busy. *)
ComesToRest ==
  <>[](/\ AppQuiet \/ \E a \in Aliases : alias[a].app = "other"
       /\ \A e \in Envs : EnvQuiet(e)
       /\ \A a \in Aliases : AliasQuiet(a))
=============================================================================
