----------------------- MODULE RadixApplicationProofs -----------------------
(***************************************************************************)
(* Proofs about an application, for any environments, aliases, components  *)
(* and configurations, and any number of changes and faults.               *)
(***************************************************************************)
EXTENDS RadixApplication, SequenceTheorems, TLAPS

AppConfigs == [env : [Envs -> Egress \cup {NoEnv}], alias : [Aliases -> Targets \cup {NoTarget}]]

EnvSyncs ==
  [pc : {"idle", "lookup", "namespace", "roles", "egress", "status"},
   own : EnvRecords, found : BOOLEAN, failed : BOOLEAN]

AliasSyncs ==
  [pc : {"idle", "init", "route", "status"}, own : AliasRecords, port : Ports \cup {NoPort}]

(* The parts of TypeOK. *)
EnvTyped ==
  /\ clock \in Nat
  /\ re \in [Envs -> EnvRecords] /\ reSeen \in [Envs -> EnvRecords] /\ born \in [Envs -> Nat]
  /\ reEdited \subseteq Envs
  /\ ns \in [Envs -> Namespaces]
  /\ roles \in [Envs -> Nat] /\ rolesSeen \in [Envs -> Nat]
  /\ policy \in [Envs -> Egress \cup {NoEnv}]
  /\ nsGone \subseteq Envs /\ rolesGone \subseteq Envs
  /\ raSeen \in Applications
  /\ envPending \subseteq Envs /\ misled \subseteq Envs
  /\ envSync \in [Envs -> EnvSyncs]
  /\ doomed \in [cron : SUBSET Envs, user : SUBSET Envs]

AliasObjectsTyped ==
  /\ alias \in [Aliases -> AliasRecords] /\ named \in [Aliases -> Nat]
  /\ \A a \in Aliases : Own(a) => alias[a].target \in Targets
  /\ aliasEdited \subseteq Aliases

AliasTyped ==
  /\ route \in [Aliases -> [Envs -> Routes]] /\ routeSeen \in [Aliases -> [Envs -> Routes]]
  /\ rds \in [Envs -> Seq(RDs)]
  /\ rollout \in [Envs -> {"done", "activate", "inactivate", "status"}]
  /\ rdEvents \in Seq([env : Envs, change : {"added", "activated", "ended", "reconciled"}])
  /\ aliasPending \subseteq Aliases /\ misrouted \subseteq Aliases
  /\ aliasSync \in [Aliases -> AliasSyncs]

AppTyped == lost \subseteq Envs /\ appPending \in BOOLEAN /\ appSync \in AppSyncs

(* The strengthening.  An update that is tried again has not been tried too often; an
   alias that a Sync is reconciling leads to an environment; an alias that the Sync of
   the RadixApplication is about to delete or update is its own, and one that it is about
   to update or create is in the RadixApplication it has. *)
TriesLeft == appSync.pc = "reload" => appSync.tries < MaxAttempts

SyncTargets == \A a \in Aliases : aliasSync[a].pc # "idle" => aliasSync[a].own.target \in Targets

WorkIsOwn ==
  \A a \in Aliases :
    /\ a \in appSync.work.delete \cup appSync.work.update => Own(a)
    /\ a \in appSync.work.update \cup appSync.work.create => appSync.config.alias[a] \in Targets
    /\ a \notin appSync.work.delete \cap appSync.work.update

IInv ==
  /\ ConfigTypeOK /\ EnvTyped /\ AliasObjectsTyped /\ AliasTyped /\ AppTyped
  /\ TriesLeft /\ SyncTargets /\ WorkIsOwn

LEMMA TypeParts == IInv => TypeOK
BY DEF IInv, TypeOK, EnvTyped, AliasObjectsTyped, AliasTyped, AppTyped, EnvSyncs, AliasSyncs

LEMMA Constants ==
  /\ Configs \subseteq AppConfigs /\ NoTarget \notin Targets
  /\ Starts \subseteq [config : Configs, spec : Specs, left : [Disturbances -> Nat]]
  /\ MaxAttempts \in Nat \ {0}
BY AppConfigAssumption, AttemptsAssumption, Zenon DEF AppConfigs

LEMMA ConfigParts ==
  ASSUME NEW config \in Configs
  PROVE  /\ config \in AppConfigs
         /\ \A e \in Envs : config.env[e] \in Egress \cup {NoEnv}
         /\ \A a \in Aliases : config.alias[a] \in Targets \cup {NoTarget}
<1>1. config \in AppConfigs
  BY Constants
<1> QED BY <1>1 DEF AppConfigs

LEMMA BlankTypes ==
  /\ NoRE \in EnvRecords /\ NoNamespace \in Namespaces /\ EnvIdle \in EnvSyncs
  /\ NoAlias \in AliasRecords /\ NoRoute \in Routes /\ AliasIdle \in AliasSyncs
  /\ AppIdle \in AppSyncs
<1>1. NoRE \in EnvRecords /\ NoNamespace \in Namespaces /\ EnvIdle \in EnvSyncs
  BY DEF NoRE, EnvRecords, NoNamespace, Namespaces, EnvIdle, EnvSyncs, Never
<1>2. NoAlias \in AliasRecords /\ NoRoute \in Routes /\ AliasIdle \in AliasSyncs
  BY DEF NoAlias, AliasRecords, NoRoute, Routes, AliasIdle, AliasSyncs
<1>3. 0 \in 0..MaxAttempts
  BY Constants
<1>4. NoWork \in [delete : SUBSET Aliases, update : SUBSET Aliases, create : SUBSET Aliases]
  BY DEF NoWork
<1> QED BY <1>1, <1>2, <1>3, <1>4 DEF AppIdle, AppSyncs

LEMMA SpendType ==
  ASSUME left \in [Disturbances -> Nat], NEW d \in Disturbances, Spend(d)
  PROVE  left' \in [Disturbances -> Nat]
BY DEF Spend

-----------------------------------------------------------------------------
(* The steps of the environments *)

LEMMA EnvKept == ASSUME EnvTyped, UNCHANGED envVars PROVE EnvTyped'
BY DEF EnvTyped, envVars, kube, caches, told

LEMMA EventTypes ==
  ASSUME ConfigTypeOK, EnvTyped, NEW e \in Envs,
         DeliverEnvironment(e) \/ DeliverRoles(e) \/ DeliverNamespaceGone(e)
  PROVE  EnvTyped' /\ UNCHANGED <<raStream, left>>
<1>1. CASE DeliverEnvironment(e)
  BY <1>1 DEF DeliverEnvironment, EnvTyped, kube, told
<1>2. CASE DeliverRoles(e)
  BY <1>2 DEF DeliverRoles, EnvTyped, Owner, told
<1>3. CASE DeliverNamespaceGone(e)
  BY <1>3 DEF DeliverNamespaceGone, EnvTyped, Owner, told, caches
<1> QED BY <1>1, <1>2, <1>3

LEMMA DeliverApplicationType ==
  ASSUME ConfigTypeOK, EnvTyped, DeliverApplication
  PROVE  EnvTyped' /\ raStream' \in Seq(Applications) /\ left' \in [Disturbances -> Nat]
<1> DEFINE names == {e \in Envs : e \in Affected(raSeen, Head(raStream)) /\ Exists(e)}
<1>1. Head(raStream) \in Applications /\ Tail(raStream) \in Seq(Applications)
  BY HeadTailProperties DEF DeliverApplication, ConfigTypeOK
<1>2. raSeen' \in Applications /\ raStream' \in Seq(Applications)
  BY <1>1 DEF DeliverApplication
<1>3. Affected(raSeen, Head(raStream)) \subseteq Envs
  BY DEF Affected, AddedOrDropped
<1>4. envPending' \subseteq Envs /\ misled' \subseteq Envs
  BY <1>3 DEF DeliverApplication, EnvTyped
<1>5. left' \in [Disturbances -> Nat]
  BY SpendType DEF DeliverApplication, ConfigTypeOK, Disturbances
<1> QED BY <1>2, <1>4, <1>5 DEF DeliverApplication, EnvTyped, kube, caches

LEMMA EnvSyncUpdates ==
  ASSUME EnvTyped, NEW e \in Envs
  PROVE  /\ \A pc \in {"lookup", "namespace", "roles", "egress", "status"} :
              Goto(e, pc) => envSync' \in [Envs -> EnvSyncs]
         /\ Fail(e) => envSync' \in [Envs -> EnvSyncs]
         /\ \A f \in BOOLEAN : [envSync EXCEPT ![e].pc = "namespace", ![e].found = f] \in [Envs -> EnvSyncs]
         /\ [envSync EXCEPT ![e].pc = "lookup", ![e].own = re[e]] \in [Envs -> EnvSyncs]
<1> DEFINE moved(pc) == [envSync EXCEPT ![e].pc = pc]
<1>1. \A pc \in {"lookup", "namespace", "roles", "egress", "status"} : moved(pc) \in [Envs -> EnvSyncs]
  BY DEF EnvTyped, EnvSyncs
<1>2. [moved("status") EXCEPT ![e].failed = TRUE] \in [Envs -> EnvSyncs]
  <2>1. moved("status") \in [Envs -> EnvSyncs]
    BY <1>1
  <2> HIDE DEF moved
  <2> QED BY <2>1 DEF EnvSyncs
<1>3. ASSUME NEW f \in BOOLEAN PROVE [moved("namespace") EXCEPT ![e].found = f] \in [Envs -> EnvSyncs]
  <2>1. moved("namespace") \in [Envs -> EnvSyncs]
    BY <1>1
  <2> HIDE DEF moved
  <2> QED BY <2>1 DEF EnvSyncs
<1>4. [moved("lookup") EXCEPT ![e].own = re[e]] \in [Envs -> EnvSyncs]
  <2>1. moved("lookup") \in [Envs -> EnvSyncs] /\ re[e] \in EnvRecords
    BY <1>1 DEF EnvTyped
  <2> HIDE DEF moved
  <2> QED BY <2>1 DEF EnvSyncs
<1>5. \A pc \in {"lookup", "namespace", "roles", "egress", "status"} :
        Goto(e, pc) => envSync' \in [Envs -> EnvSyncs]
  BY <1>1 DEF Goto
<1>6. Fail(e) => envSync' \in [Envs -> EnvSyncs]
  BY <1>2 DEF Fail
<1>7. \A f \in BOOLEAN : [envSync EXCEPT ![e].pc = "namespace", ![e].found = f] \in [Envs -> EnvSyncs]
  BY <1>3
<1>8. [envSync EXCEPT ![e].pc = "lookup", ![e].own = re[e]] \in [Envs -> EnvSyncs]
  BY <1>4
<1> HIDE DEF moved
<1> QED BY <1>5, <1>6, <1>7, <1>8

LEMMA SyncStepTypes ==
  ASSUME ConfigTypeOK, EnvTyped, NEW e \in Envs,
         \/ StartEnvSync(e) \/ LookUpApplication(e) \/ PutNamespace(e)
         \/ ApplyRoles(e) \/ ApplyEgress(e) \/ SyncEnvStatus(e)
  PROVE  EnvTyped' /\ UNCHANGED raStream /\ left' \in [Disturbances -> Nat]
<1>0. /\ envSync \in [Envs -> EnvSyncs] /\ envSync[e].own \in EnvRecords
      /\ envSync[e].own.uid \in Nat /\ envSync[e].own.egress \in Egress \cup {NoEnv}
  BY DEF EnvTyped, EnvSyncs, EnvRecords
<1>l. left \in [Disturbances -> Nat] /\ {"lookup", "error"} \subseteq Disturbances
  BY DEF ConfigTypeOK, Disturbances
<1>1. CASE StartEnvSync(e)
  <2>1. envSync' \in [Envs -> EnvSyncs]
    BY <1>1, EnvSyncUpdates DEF StartEnvSync, EnvTyped
  <2> QED BY <1>1, <1>l, <2>1 DEF StartEnvSync, EnvTyped, kube, caches, told
<1>2. CASE LookUpApplication(e)
  <2>1. envSync' \in [Envs -> EnvSyncs]
    <3>1. Configured(e) \in BOOLEAN
      BY DEF Configured, ConfigTypeOK, Applications
    <3>2. [envSync EXCEPT ![e].pc = "namespace", ![e].found = Configured(e)] \in [Envs -> EnvSyncs]
      BY <3>1, EnvSyncUpdates
    <3>3. CASE envSync' = [envSync EXCEPT ![e].pc = "namespace", ![e].found = Configured(e)]
      BY <3>2, <3>3
    <3>4. CASE Goto(e, "namespace")
      BY <3>4, EnvSyncUpdates
    <3> QED BY <1>2, <3>3, <3>4 DEF LookUpApplication
  <2>2. left' \in [Disturbances -> Nat]
    BY <1>2, <1>l, SpendType DEF LookUpApplication
  <2> QED BY <1>2, <2>1, <2>2 DEF LookUpApplication, EnvTyped, kube, caches, told
<1>3. CASE PutNamespace(e)
  <2>1. envSync' \in [Envs -> EnvSyncs]
    BY <1>3, EnvSyncUpdates DEF PutNamespace
  <2>2. ns' \in [Envs -> Namespaces]
    BY <1>3, <1>0 DEF PutNamespace, EnvTyped, Namespaces
  <2> QED BY <1>3, <1>l, <2>1, <2>2 DEF PutNamespace, EnvTyped, caches, told
<1>4. CASE ApplyRoles(e)
  <2>1. envSync' \in [Envs -> EnvSyncs]
    BY <1>4, EnvSyncUpdates DEF ApplyRoles
  <2>2. roles' \in [Envs -> Nat]
    BY <1>4, <1>0 DEF ApplyRoles, EnvTyped
  <2> QED BY <1>4, <1>l, <2>1, <2>2 DEF ApplyRoles, EnvTyped, caches, told
<1>5. CASE ApplyEgress(e)
  <2>1. envSync' \in [Envs -> EnvSyncs]
    BY <1>5, EnvSyncUpdates DEF ApplyEgress
  <2>2. policy' \in [Envs -> Egress \cup {NoEnv}]
    BY <1>5, <1>0 DEF ApplyEgress, EnvTyped
  <2> QED BY <1>5, <1>l, <2>1, <2>2 DEF ApplyEgress, EnvTyped, caches, told
<1>6. CASE SyncEnvStatus(e)
  <2>1. envSync' \in [Envs -> EnvSyncs] /\ envPending' \subseteq Envs
    BY <1>6, BlankTypes DEF SyncEnvStatus, EnvRequeue, EnvTyped
  <2>2. Status(envSync[e].own, envSync[e].found) \in EnvRecords
    BY <1>0 DEF Status, EnvRecords, EnvTyped, EnvSyncs, Never
  <2>3. re' \in [Envs -> EnvRecords]
    BY <1>6, <2>2 DEF SyncEnvStatus, EnvTyped
  <2> QED BY <1>6, <1>l, <2>1, <2>3 DEF SyncEnvStatus, EnvTyped, kube, caches, told
<1> QED BY <1>1, <1>2, <1>3, <1>4, <1>5, <1>6

LEMMA FaultTypes ==
  ASSUME ConfigTypeOK, EnvTyped, NEW e \in Envs, EnvSyncFails(e) \/ UserDeletes(e) \/ DeleteNamespace(e)
  PROVE  EnvTyped' /\ UNCHANGED raStream /\ left' \in [Disturbances -> Nat]
<1>l. left \in [Disturbances -> Nat] /\ {"error", "user", "namespace"} \subseteq Disturbances
  BY DEF ConfigTypeOK, Disturbances
<1>1. CASE EnvSyncFails(e)
  <2>1. envSync' \in [Envs -> EnvSyncs] /\ envPending' \subseteq Envs
    <3>1. CASE Fail(e) /\ UNCHANGED envPending
      BY <3>1, EnvSyncUpdates DEF EnvTyped
    <3>2. CASE EnvRequeue(e)
      BY <3>2, BlankTypes DEF EnvRequeue, EnvTyped
    <3> QED BY <1>1, <3>1, <3>2 DEF EnvSyncFails
  <2>2. left' \in [Disturbances -> Nat]
    BY <1>1, <1>l, SpendType DEF EnvSyncFails
  <2> QED BY <1>1, <2>1, <2>2 DEF EnvSyncFails, EnvTyped, kube, caches, told
<1>2. CASE UserDeletes(e)
  <2>1. doomed' \in [cron : SUBSET Envs, user : SUBSET Envs]
    BY <1>2 DEF UserDeletes, EnvTyped
  <2>2. left' \in [Disturbances -> Nat]
    BY <1>2, <1>l, SpendType DEF UserDeletes
  <2> QED BY <1>2, <2>1, <2>2 DEF UserDeletes, EnvTyped, kube, caches, told
<1>3. CASE DeleteNamespace(e)
  <2>1. ns' \in [Envs -> Namespaces]
    BY <1>3 DEF DeleteNamespace, Terminate, EnvTyped, Namespaces
  <2>2. left' \in [Disturbances -> Nat]
    BY <1>3, <1>l, SpendType DEF DeleteNamespace
  <2> QED BY <1>3, <2>1, <2>2 DEF DeleteNamespace, Terminate, EnvTyped, caches, told
<1> QED BY <1>1, <1>2, <1>3

LEMMA CleanUpTypes ==
  ASSUME EnvTyped, CleanUp \/ Tick
  PROVE  EnvTyped' /\ UNCHANGED <<raStream, left>>
<1>1. CASE CleanUp
  <2>1. doomed' \in [cron : SUBSET Envs, user : SUBSET Envs]
    BY <1>1 DEF CleanUp, EnvTyped
  <2> QED BY <1>1, <2>1 DEF CleanUp, EnvTyped, kube, caches, told
<1>2. CASE Tick
  BY <1>2 DEF Tick, EnvTyped, kube, caches, told
<1> QED BY <1>1, <1>2

LEMMA DeletionTypes ==
  ASSUME ConfigTypeOK, EnvTyped, NEW who \in {"cron", "user"}, NEW e \in Envs, DeleteEnvironment(who, e)
  PROVE  EnvTyped' /\ UNCHANGED raStream /\ left' \in [Disturbances -> Nat]
<1>1. doomed' \in [cron : SUBSET Envs, user : SUBSET Envs]
  BY DEF DeleteEnvironment, EnvTyped
<1>2. re' \in [Envs -> EnvRecords]
  BY BlankTypes DEF DeleteEnvironment, EnvTyped
<1>3. left' \in [Disturbances -> Nat]
  BY SpendType DEF DeleteEnvironment, ConfigTypeOK, Disturbances
<1> QED BY <1>1, <1>2, <1>3 DEF DeleteEnvironment, EnvTyped, kube, caches, told

LEMMA KubernetesTypes ==
  ASSUME EnvTyped, NEW e \in Envs,
         CollectNamespace(e) \/ CollectRoles(e) \/ RemoveNamespace(e) \/ EmptyNamespace(e)
  PROVE  EnvTyped' /\ UNCHANGED <<raStream, left>>
<1>1. CASE CollectNamespace(e)
  <2>1. ns' \in [Envs -> Namespaces]
    BY <1>1 DEF CollectNamespace, Terminate, EnvTyped, Namespaces
  <2> QED BY <1>1, <2>1 DEF CollectNamespace, Terminate, EnvTyped, caches, told
<1>2. CASE CollectRoles(e)
  BY <1>2 DEF CollectRoles, EnvTyped, caches, told
<1>3. CASE RemoveNamespace(e)
  BY <1>3, BlankTypes DEF RemoveNamespace, EnvTyped, caches, told
<1>4. CASE EmptyNamespace(e)
  BY <1>4 DEF EmptyNamespace, EnvTyped, caches, told
<1> QED BY <1>1, <1>2, <1>3, <1>4

LEMMA EnvCrashTypes ==
  ASSUME ConfigTypeOK, EnvTyped, EnvCrash
  PROVE  EnvTyped' /\ raStream' \in Seq(Applications)
<1>1. envSync' \in [Envs -> EnvSyncs]
  BY BlankTypes DEF EnvCrash
<1>2. doomed' \in [cron : SUBSET Envs, user : SUBSET Envs]
  BY DEF EnvCrash, EnvTyped
<1>3. raStream' \in Seq(Applications)
  BY EmptySeq DEF EnvCrash
<1> QED BY <1>1, <1>2, <1>3 DEF EnvCrash, EnvTyped, ConfigTypeOK

LEMMA EnvInitTypes ==
  ASSUME ConfigTypeOK, EnvInit
  PROVE  EnvTyped
<1>1. ra.config \in Configs
  BY DEF ConfigTypeOK, Applications
<1>2. re \in [Envs -> EnvRecords] /\ \A e \in Envs : re[e].uid \in Nat /\ re[e].egress \in Egress \cup {NoEnv}
  BY <1>1, ConfigParts DEF EnvInit, NoRE, EnvRecords, Never
<1>3. ns \in [Envs -> Namespaces]
  BY DEF EnvInit, NoNamespace, Namespaces
<1>4. envSync \in [Envs -> EnvSyncs]
  BY BlankTypes DEF EnvInit
<1> QED BY <1>2, <1>3, <1>4 DEF EnvInit, EnvTyped, ConfigTypeOK

-----------------------------------------------------------------------------
(* The steps of the aliases *)

Events == [env : Envs, change : {"added", "activated", "ended", "reconciled"}]

LEMMA NotifyType ==
  ASSUME rdEvents \in Seq(Events), NEW e \in Envs,
         NEW change \in {"added", "activated", "ended", "reconciled"}, Notify(e, change)
  PROVE  rdEvents' \in Seq(Events)
<1>1. [env |-> e, change |-> change] \in Events
  BY DEF Events
<1> QED BY <1>1, AppendProperties DEF Notify

LEMMA DeployTypes ==
  ASSUME ConfigTypeOK, AliasTyped, SyncTargets, NEW e \in Envs, NEW spec \in Specs, Deploy(e, spec)
  PROVE  AliasTyped' /\ SyncTargets' /\ left' \in [Disturbances -> Nat]
<1>1. [spec |-> spec, cond |-> ""] \in RDs
  BY DEF RDs
<1>2. Append(rds[e], [spec |-> spec, cond |-> ""]) \in Seq(RDs)
  BY <1>1, AppendProperties DEF AliasTyped
<1>3. rds' \in [Envs -> Seq(RDs)]
  BY <1>2 DEF Deploy, AliasTyped
<1>4. rdEvents' \in Seq(Events)
  BY NotifyType DEF Deploy, AliasTyped, Events
<1>5. left' \in [Disturbances -> Nat]
  BY SpendType DEF Deploy, ConfigTypeOK, Disturbances
<1>6. rollout' \in [Envs -> {"done", "activate", "inactivate", "status"}]
  BY DEF Deploy, AliasTyped
<1>7. AliasTyped'
  BY <1>3, <1>4, <1>6 DEF Deploy, AliasTyped, routes, Events
<1>8. SyncTargets'
  BY DEF Deploy, SyncTargets
<1> QED BY <1>5, <1>7, <1>8

LEMMA RolloutTypes ==
  ASSUME AliasTyped, SyncTargets, NEW e \in Envs, Rollout(e)
  PROVE  AliasTyped' /\ SyncTargets'
<1> DEFINE latest == Len(rds[e])
           made == [rds[e] EXCEPT ![latest].cond = "Active"]
           ended == [i \in DOMAIN rds[e] |-> IF i = latest THEN rds[e][i] ELSE [rds[e][i] EXCEPT !.cond = "Inactive"]]
<1>0. rds[e] \in Seq(RDs) /\ latest \in Nat /\ DOMAIN rds[e] = 1..latest /\ \A i \in 1..latest : rds[e][i] \in RDs
  <2>1. rds[e] \in Seq(RDs)
    BY DEF AliasTyped
  <2> QED BY <2>1, LenProperties, ElementOfSeq
<1>1. made \in Seq(RDs)
  <2>1. DOMAIN made = 1..latest /\ \A i \in 1..latest : made[i] \in RDs
    BY <1>0 DEF RDs
  <2>2. made \in [1..latest -> RDs]
    BY <1>0, <2>1
  <2> QED BY <1>0, <2>2, SeqDef
<1>2. ended \in Seq(RDs)
  <2>1. \A i \in 1..latest : [rds[e][i] EXCEPT !.cond = "Inactive"] \in RDs
    BY <1>0 DEF RDs
  <2>2. ended \in [1..latest -> RDs]
    BY <1>0, <2>1
  <2> QED BY <1>0, <2>2, SeqDef
<1>3. rds' \in [Envs -> Seq(RDs)]
  <2>1. CASE rds' = [rds EXCEPT ![e] = made]
    BY <1>1, <2>1 DEF AliasTyped
  <2>2. CASE rds' = [rds EXCEPT ![e] = ended]
    BY <1>2, <2>2 DEF AliasTyped
  <2>3. CASE UNCHANGED rds
    BY <2>3 DEF AliasTyped
  <2>4. rds' = [rds EXCEPT ![e] = made] \/ rds' = [rds EXCEPT ![e] = ended] \/ UNCHANGED rds
    BY DEF Rollout
  <2> QED BY <2>1, <2>2, <2>3, <2>4
<1>4. rdEvents' \in Seq(Events)
  BY NotifyType DEF Rollout, AliasTyped, Events
<1>5. rollout' \in [Envs -> {"done", "activate", "inactivate", "status"}]
  BY DEF Rollout, AliasTyped
<1>6. AliasTyped'
  BY <1>3, <1>4, <1>5 DEF Rollout, AliasTyped, routes, Events
<1>7. SyncTargets'
  BY DEF Rollout, SyncTargets
<1> QED BY <1>6, <1>7

LEMMA LostEventTypes ==
  ASSUME AliasTyped, SyncTargets, left \in [Disturbances -> Nat], "error" \in Disturbances, LoseDeployment
  PROVE  AliasTyped' /\ SyncTargets' /\ left' \in [Disturbances -> Nat] /\ UNCHANGED aliasObjects
<1>1. rdEvents' \in Seq(Events)
  BY HeadTailProperties DEF LoseDeployment, AliasTyped, Events
<1>2. misrouted' \subseteq Aliases
  BY DEF LoseDeployment, AliasTyped
<1>3. left' \in [Disturbances -> Nat]
  BY SpendType DEF LoseDeployment
<1> QED BY <1>1, <1>2, <1>3 DEF LoseDeployment, AliasTyped, SyncTargets, routes, aliasObjects, Events

LEMMA AliasEventTypes ==
  ASSUME AliasObjectsTyped, AliasTyped, SyncTargets,
         DeliverDeployment \/ \E a \in Aliases : DeliverAlias(a)
  PROVE  AliasObjectsTyped' /\ AliasTyped' /\ SyncTargets' /\ UNCHANGED alias
<1>1. CASE DeliverDeployment
  <2>1. rdEvents' \in Seq(Events)
    BY <1>1, HeadTailProperties DEF DeliverDeployment, AliasTyped, Events
  <2> QED BY <1>1, <2>1 DEF DeliverDeployment, AliasTyped, AliasObjectsTyped, Own, SyncTargets, routes, Events
<1>2. CASE \E a \in Aliases : DeliverAlias(a)
  BY <1>2 DEF DeliverAlias, AliasTyped, AliasObjectsTyped, Own, SyncTargets, routes, deploys
<1> QED BY <1>1, <1>2

LEMMA RouteTypes ==
  ASSUME AliasTyped, SyncTargets, NEW a \in Aliases, NEW e \in Envs, DeliverRoute(a, e) \/ CollectRoute(a, e)
  PROVE  AliasTyped' /\ SyncTargets' /\ UNCHANGED aliasObjects
<1>1. CASE DeliverRoute(a, e)
  <2>1. routeSeen' \in [Aliases -> [Envs -> Routes]]
    BY <1>1 DEF DeliverRoute, AliasTyped
  <2> QED BY <1>1, <2>1 DEF DeliverRoute, AliasTyped, SyncTargets, aliasObjects, deploys
<1>2. CASE CollectRoute(a, e)
  <2>1. route' \in [Aliases -> [Envs -> Routes]]
    BY <1>2, BlankTypes DEF CollectRoute, AliasTyped
  <2> QED BY <1>2, <2>1 DEF CollectRoute, AliasTyped, SyncTargets, aliasObjects, deploys
<1> QED BY <1>1, <1>2

LEMMA RequeueTypes ==
  ASSUME AliasTyped, SyncTargets, NEW a \in Aliases, AliasRequeue(a)
  PROVE  aliasSync' \in [Aliases -> AliasSyncs] /\ aliasPending' \subseteq Aliases /\ SyncTargets'
<1>1. aliasSync' = [aliasSync EXCEPT ![a] = AliasIdle] /\ AliasIdle.pc = "idle"
  BY DEF AliasRequeue, AliasIdle
<1>2. aliasSync' \in [Aliases -> AliasSyncs] /\ aliasPending' \subseteq Aliases
  BY BlankTypes, <1>1 DEF AliasRequeue, AliasTyped
<1>3. SyncTargets'
  BY <1>1, <1>2 DEF SyncTargets, AliasTyped
<1> QED BY <1>2, <1>3

LEMMA SyncedParts ==
  ASSUME AliasTyped, SyncTargets, NEW a \in Aliases
  PROVE  /\ aliasSync[a].pc \in {"idle", "init", "route", "status"} /\ aliasSync[a].own \in AliasRecords
         /\ aliasSync[a].own.uid \in Nat /\ aliasSync[a].port \in Ports \cup {NoPort}
         /\ ~AliasAt(a, "idle") => /\ aliasSync[a].own.target.env \in Envs
                                   /\ aliasSync[a].own.target.component \in Components
<1>1. aliasSync[a] \in AliasSyncs
  BY DEF AliasTyped
<1>2. aliasSync[a].own \in AliasRecords
  BY <1>1 DEF AliasSyncs
<1>3. ~AliasAt(a, "idle") => aliasSync[a].own.target \in Targets
  BY DEF SyncTargets, AliasAt
<1>4. \A t \in Targets : t.env \in Envs /\ t.component \in Components
  BY DEF Targets
<1> QED BY <1>1, <1>2, <1>3, <1>4 DEF AliasSyncs, AliasRecords

(* A Sync goes on with the alias that it has. *)
LEMMA SyncMoves ==
  ASSUME AliasTyped, SyncTargets, NEW a \in Aliases, NEW pc \in {"init", "route", "status"}, ~AliasAt(a, "idle"),
         aliasSync' = [aliasSync EXCEPT ![a].pc = pc]
  PROVE  aliasSync' \in [Aliases -> AliasSyncs] /\ SyncTargets'
<1>1. aliasSync' \in [Aliases -> AliasSyncs]
  BY DEF AliasTyped, AliasSyncs
<1>2. \A b \in Aliases : aliasSync'[b].own = aliasSync[b].own /\ (b # a => aliasSync'[b] = aliasSync[b])
  BY DEF AliasTyped, AliasSyncs
<1>3. SyncTargets'
  BY <1>2 DEF SyncTargets, AliasAt
<1> QED BY <1>1, <1>3

LEMMA StartAliasSyncTypes ==
  ASSUME AliasObjectsTyped, AliasTyped, SyncTargets, NEW a \in Aliases, StartAliasSync(a)
  PROVE  AliasTyped' /\ SyncTargets' /\ UNCHANGED aliasObjects
<1> DEFINE moved == [aliasSync EXCEPT ![a].pc = "init"]
           taken == [moved EXCEPT ![a].own = alias[a]]
<1>1. moved \in [Aliases -> AliasSyncs] /\ \A b \in Aliases : b # a => moved[b] = aliasSync[b]
  BY DEF AliasTyped, AliasSyncs
<1>2. /\ taken \in [Aliases -> AliasSyncs] /\ taken[a].own = alias[a]
      /\ \A b \in Aliases : b # a => taken[b] = aliasSync[b]
  <2>1. alias[a] \in AliasRecords
    BY DEF AliasObjectsTyped
  <2> HIDE DEF moved
  <2>2. taken \in [Aliases -> AliasSyncs]
    BY <1>1, <2>1 DEF AliasSyncs
  <2>3. taken[a] = [moved[a] EXCEPT !.own = alias[a]] /\ moved[a] \in AliasSyncs
    BY <1>1
  <2>4. taken[a].own = alias[a]
    BY <2>3 DEF AliasSyncs
  <2> QED BY <1>1, <2>2, <2>4
<1> HIDE DEF moved
<1>3. aliasSync' = IF Own(a) THEN taken ELSE aliasSync
  BY DEF StartAliasSync, moved
<1>4. aliasSync' \in [Aliases -> AliasSyncs]
  BY <1>2, <1>3 DEF AliasTyped
<1> HIDE DEF taken
<1>5. SyncTargets'
  BY <1>2, <1>3 DEF SyncTargets, AliasObjectsTyped
<1>6. AliasTyped'
  BY <1>4 DEF StartAliasSync, AliasTyped, routes, deploys
<1> QED BY <1>5, <1>6 DEF StartAliasSync, aliasObjects

LEMMA FindPortTypes ==
  ASSUME AliasTyped, SyncTargets, NEW a \in Aliases, FindPort(a)
  PROVE  AliasTyped' /\ SyncTargets' /\ UNCHANGED aliasObjects
<1> DEFINE own == aliasSync[a].own
           deployed == rds[own.target.env]
           active == {i \in DOMAIN deployed : deployed[i].cond = "Active"}
           port(i) == deployed[i].spec[own.target.component]
           moved == [aliasSync EXCEPT ![a].pc = "route"]
<1>1. own.target.env \in Envs /\ own.target.component \in Components
  BY SyncedParts DEF FindPort, AliasAt
<1>2. \A i \in DOMAIN deployed : port(i) \in Ports \cup {NoPort}
  <2>1. deployed \in Seq(RDs)
    BY <1>1 DEF AliasTyped
  <2>2. \A i \in DOMAIN deployed : deployed[i] \in RDs
    BY <2>1, ElementOfSeq, LenProperties
  <2> QED BY <1>1, <2>2 DEF RDs, Specs
<1>3. PICK p \in IF active = {} THEN {NoPort} ELSE {port(i) : i \in active} :
        aliasSync' = [aliasSync EXCEPT ![a].pc = "route", ![a].port = p]
  BY DEF FindPort
<1>4. p \in Ports \cup {NoPort}
  BY <1>2
<1>5. moved \in [Aliases -> AliasSyncs] /\ moved[a].own = own /\ \A b \in Aliases : b # a => moved[b] = aliasSync[b]
  BY DEF AliasTyped, AliasSyncs
<1>6. aliasSync' = [moved EXCEPT ![a].port = p]
  BY <1>3
<1> HIDE DEF moved
<1>7. /\ aliasSync' \in [Aliases -> AliasSyncs]
      /\ aliasSync'[a].own = own /\ \A b \in Aliases : b # a => aliasSync'[b] = aliasSync[b]
  BY <1>4, <1>5, <1>6 DEF AliasSyncs
<1>8. SyncTargets'
  BY <1>7 DEF SyncTargets, FindPort, AliasAt
<1>9. AliasTyped'
  BY <1>7 DEF FindPort, AliasTyped, routes, deploys
<1> QED BY <1>8, <1>9 DEF FindPort, aliasObjects

LEMMA ReconcileTypes ==
  ASSUME AliasTyped, SyncTargets, NEW a \in Aliases, NEW active, ReconcileHTTPRoute(a, active)
  PROVE  AliasTyped' /\ SyncTargets' /\ UNCHANGED aliasObjects
<1> DEFINE own == aliasSync[a].own
           new == [owner |-> own.uid, component |-> own.target.component, port |-> aliasSync[a].port]
<1>1. own.target.env \in Envs /\ own.target.component \in Components /\ ~AliasAt(a, "idle")
  BY SyncedParts DEF ReconcileHTTPRoute, AliasAt
<1>2. new \in Routes /\ NoRoute \in Routes
  BY <1>1, SyncedParts, BlankTypes DEF Routes
<1> HIDE DEF new
<1>3. route' \in [Aliases -> [Envs -> Routes]] /\ misrouted' \subseteq Aliases
  <2>1. CASE DeleteRoute(a)
    BY <2>1, <1>1, <1>2 DEF DeleteRoute, AliasTyped
  <2>2. CASE PutRoute(a, active)
    <3>1. route' = [route EXCEPT ![a][own.target.env] = new] \/ UNCHANGED route
      BY <2>2 DEF PutRoute, new
    <3>2. misrouted' \subseteq Aliases
      BY <2>2 DEF PutRoute, AliasTyped
    <3>3. \A e \in Envs : [route EXCEPT ![a][e] = new] \in [Aliases -> [Envs -> Routes]]
      BY <1>2 DEF AliasTyped
    <3>4. [route EXCEPT ![a][own.target.env] = new] \in [Aliases -> [Envs -> Routes]]
      BY <3>3, <1>1
    <3>5. CASE UNCHANGED route
      BY <3>5, <3>2 DEF AliasTyped
    <3> QED BY <3>1, <3>2, <3>4, <3>5
  <2> QED BY <2>1, <2>2 DEF ReconcileHTTPRoute
<1>4. aliasSync' \in [Aliases -> AliasSyncs] /\ aliasPending' \subseteq Aliases /\ SyncTargets'
  <2>1. CASE AliasRequeue(a)
    BY <2>1, RequeueTypes
  <2>2. CASE aliasSync' = [aliasSync EXCEPT ![a].pc = "status"] /\ UNCHANGED aliasPending
    BY <2>2, <1>1, SyncMoves DEF AliasTyped
  <2>3. AliasRequeue(a) \/ (aliasSync' = [aliasSync EXCEPT ![a].pc = "status"] /\ UNCHANGED aliasPending)
    BY DEF ReconcileHTTPRoute, DeleteRoute, PutRoute
  <2> QED BY <2>1, <2>2, <2>3
<1>5. AliasTyped'
  BY <1>3, <1>4 DEF ReconcileHTTPRoute, AliasTyped, deploys
<1> QED BY <1>4, <1>5 DEF ReconcileHTTPRoute, aliasObjects

LEMMA AliasSyncEnds ==
  ASSUME AliasTyped, SyncTargets, NEW a \in Aliases, SyncAliasStatus(a) \/ AliasSyncFails(a)
  PROVE  AliasTyped' /\ SyncTargets' /\ UNCHANGED aliasObjects
<1>1. aliasSync' = [aliasSync EXCEPT ![a] = AliasIdle] /\ aliasPending' \subseteq Aliases /\ AliasIdle.pc = "idle"
  BY DEF SyncAliasStatus, AliasSyncFails, AliasRequeue, AliasTyped, AliasIdle
<1>2. aliasSync' \in [Aliases -> AliasSyncs]
  BY <1>1, BlankTypes DEF AliasTyped
<1>3. SyncTargets'
  BY <1>1, <1>2 DEF SyncTargets, AliasTyped
<1>4. UNCHANGED <<aliasObjects, routes, deploys, misrouted>>
  BY DEF SyncAliasStatus, AliasSyncFails, aliasObjects
<1>5. AliasTyped'
  BY <1>1, <1>2, <1>4 DEF AliasTyped, routes, deploys
<1> HIDE DEF aliasObjects
<1> QED BY <1>3, <1>4, <1>5

LEMMA EmptyTypes ==
  ASSUME AliasTyped, SyncTargets, NEW e \in Envs, EmptyOfRoutes(e)
  PROVE  AliasTyped' /\ SyncTargets' /\ UNCHANGED aliasObjects
<1>1. rds' \in [Envs -> Seq(RDs)]
  BY EmptySeq DEF EmptyOfRoutes, AliasTyped
<1>2. route' \in [Aliases -> [Envs -> Routes]]
  BY BlankTypes DEF EmptyOfRoutes, AliasTyped
<1>3. AliasTyped'
  BY <1>1, <1>2 DEF EmptyOfRoutes, AliasTyped
<1> QED BY <1>3 DEF EmptyOfRoutes, SyncTargets, aliasObjects

LEMMA AliasCrashTypes ==
  ASSUME AliasTyped, SyncTargets, AliasObjectsTyped, AliasCrash
  PROVE  AliasTyped' /\ SyncTargets' /\ AliasObjectsTyped'
<1>1. aliasSync' \in [Aliases -> AliasSyncs] /\ AliasIdle.pc = "idle"
  BY BlankTypes DEF AliasCrash, AliasIdle
<1>2. rdEvents' \in Seq(Events)
  BY EmptySeq DEF AliasCrash
<1>3. SyncTargets'
  BY <1>1 DEF SyncTargets, AliasCrash
<1> QED BY <1>1, <1>2, <1>3 DEF AliasCrash, AliasTyped, AliasObjectsTyped, Own, Events

LEMMA OtherTypes ==
  ASSUME ConfigTypeOK, AliasTyped, SyncTargets, AliasObjectsTyped, NEW a \in Aliases, OtherApplication(a)
  PROVE  /\ AliasTyped' /\ SyncTargets' /\ AliasObjectsTyped' /\ left' \in [Disturbances -> Nat]
         /\ \A b \in Aliases : Own(b) => Own(b)'
<1>1. left' \in [Disturbances -> Nat]
  BY SpendType DEF OtherApplication, ConfigTypeOK, Disturbances
<1>2. [NoAlias EXCEPT !.app = "other"] \in AliasRecords /\ NoAlias \in AliasRecords
  BY DEF NoAlias, AliasRecords
<1>3. [NoAlias EXCEPT !.app = "other"].app = "other" /\ NoAlias.app = ""
  BY DEF NoAlias
<1>4. alias' \in [Aliases -> AliasRecords] /\ alias'[a].app # "own" /\ \A b \in Aliases : b # a => alias'[b] = alias[b]
  BY <1>2, <1>3 DEF OtherApplication, AliasObjectsTyped
<1>5. AliasObjectsTyped'
  BY <1>4 DEF OtherApplication, AliasObjectsTyped, Own
<1>6. \A b \in Aliases : Own(b) => Own(b)'
  BY <1>4 DEF OtherApplication, Own
<1>7. AliasTyped' /\ SyncTargets'
  BY DEF OtherApplication, AliasTyped, SyncTargets, routes, deploys
<1> QED BY <1>1, <1>5, <1>6, <1>7

LEMMA AliasInitTypes ==
  ASSUME ConfigTypeOK, NEW spec \in Specs, AliasInit(spec)
  PROVE  AliasObjectsTyped /\ AliasTyped /\ SyncTargets
<1> DEFINE target(a) == ra.config.alias[a]
           port(a) == IF target(a) = NoTarget THEN NoPort ELSE spec[target(a).component]
<1>1. \A a \in Aliases : target(a) \in Targets \cup {NoTarget}
  BY ConfigParts DEF ConfigTypeOK, Applications
<1>2. \A a \in Aliases : port(a) \in Ports \cup {NoPort}
  BY <1>1 DEF Targets, Specs
<1>3. rds \in [Envs -> Seq(RDs)]
  <2>1. [spec |-> spec, cond |-> "Active"] \in RDs
    BY DEF RDs
  <2>2. <<[spec |-> spec, cond |-> "Active"]>> \in Seq(RDs) /\ <<>> \in Seq(RDs)
    BY <2>1
  <2> QED BY <2>2 DEF AliasInit
<1>4. route \in [Aliases -> [Envs -> Routes]]
  <2>1. ASSUME NEW a \in Aliases, NEW e \in Envs
        PROVE  (IF port(a) # NoPort /\ target(a).env = e
                  THEN [owner |-> 1, component |-> target(a).component, port |-> port(a)] ELSE NoRoute) \in Routes
    <3>1. CASE port(a) # NoPort
      <4>1. target(a) \in Targets /\ target(a).component \in Components
        BY <1>1, <3>1 DEF Targets
      <4> HIDE DEF port, target
      <4> QED BY <4>1, <1>2, BlankTypes DEF Routes
    <3>2. CASE port(a) = NoPort
      BY <3>2, BlankTypes
    <3> QED BY <3>1, <3>2
  <2> QED BY <2>1, Zenon DEF AliasInit
<1>5. alias \in [Aliases -> AliasRecords] /\ \A a \in Aliases : Own(a) => alias[a].target \in Targets
  <2>1. \A a \in Aliases : alias[a] = IF target(a) = NoTarget THEN NoAlias
                                        ELSE [uid |-> 1, app |-> "own", target |-> target(a)]
    BY DEF AliasInit
  <2>2. ASSUME NEW a \in Aliases PROVE alias[a] \in AliasRecords /\ (Own(a) => alias[a].target \in Targets)
    <3>1. CASE target(a) = NoTarget
      <4>1. alias[a] = NoAlias /\ NoAlias.app # "own"
        BY <3>1, <2>1 DEF NoAlias
      <4> QED BY <4>1, BlankTypes, Zenon DEF Own
    <3>2. CASE target(a) # NoTarget
      <4>1. target(a) \in Targets /\ alias[a] = [uid |-> 1, app |-> "own", target |-> target(a)]
        BY <3>2, <2>1, <1>1
      <4> HIDE DEF target
      <4> QED BY <4>1 DEF Own, AliasRecords
    <3> QED BY <3>1, <3>2
  <2> QED BY <2>2 DEF AliasInit
<1>6. named \in [Aliases -> Nat]
  BY <1>5 DEF AliasInit, AliasRecords
<1>7. aliasSync \in [Aliases -> AliasSyncs] /\ SyncTargets
  BY BlankTypes DEF AliasInit, SyncTargets, AliasIdle
<1>8. AliasTyped
  BY <1>3, <1>4, <1>7, EmptySeq DEF AliasInit, AliasTyped
<1> QED BY <1>5, <1>6, <1>7, <1>8 DEF AliasInit, AliasObjectsTyped

LEMMA AliasKept ==
  ASSUME AliasTyped, SyncTargets, AliasObjectsTyped,
         UNCHANGED <<routes, deploys, aliasPending, aliasSync, misrouted>>
  PROVE  /\ AliasTyped' /\ SyncTargets'
         /\ UNCHANGED aliasObjects => AliasObjectsTyped'
BY DEF AliasTyped, SyncTargets, AliasObjectsTyped, aliasObjects, Own, routes, deploys

-----------------------------------------------------------------------------
(* The steps of the Sync of the RadixApplication *)

LEMMA SyncParts ==
  ASSUME AppTyped
  PROVE  /\ appSync.envs \subseteq Envs /\ appSync.old \in EnvRecords /\ appSync.tries \in 0..MaxAttempts
         /\ appSync.config \in AppConfigs /\ appSync.listed \in [Aliases -> AliasRecords]
         /\ appSync.work.delete \subseteq Aliases /\ appSync.work.update \subseteq Aliases
         /\ appSync.work.create \subseteq Aliases
BY DEF AppTyped, AppSyncs, AppConfigs

LEMMA IdleTypes ==
  /\ AppIdle \in AppSyncs /\ AppIdle.work.delete = {} /\ AppIdle.work.update = {} /\ AppIdle.work.create = {}
BY BlankTypes DEF AppIdle, NoWork

(* Nothing is left to do about aliases when a Sync ends. *)
LEMMA IdleWork ==
  ASSUME AppTyped, appPending' \in BOOLEAN, lost' \subseteq Envs, appSync' = AppIdle
  PROVE  AppTyped' /\ WorkIsOwn'
BY IdleTypes DEF AppTyped, WorkIsOwn

(* The aliases of this application stay what they are, while the Sync is about its
   environments. *)
LEMMA SameWork ==
  ASSUME AppTyped, WorkIsOwn, lost' \subseteq Envs, UNCHANGED appPending, appSync' \in AppSyncs,
         appSync'.work = appSync.work, appSync'.config = appSync.config,
         \A b \in Aliases : Own(b) => Own(b)'
  PROVE  AppTyped' /\ WorkIsOwn'
BY DEF AppTyped, WorkIsOwn

LEMMA StartAppSyncTypes ==
  ASSUME ConfigTypeOK, AppTyped, StartAppSync
  PROVE  AppTyped' /\ WorkIsOwn'
<1> DEFINE began == [AppIdle EXCEPT !.pc = "get", !.config = ra.config, !.envs = {e \in Envs : Configured(e)}]
<1>1. ra.config \in AppConfigs
  BY Constants DEF ConfigTypeOK, Applications
<1>2. began \in AppSyncs
  BY <1>1, IdleTypes DEF AppSyncs, AppConfigs
<1>3. began.work = AppIdle.work
  BY DEF AppIdle
<1> HIDE DEF began
<1>4. appSync' \in AppSyncs /\ appSync'.work = AppIdle.work
  BY <1>2, <1>3, IdleTypes DEF StartAppSync, began
<1>5. WorkIsOwn'
  BY <1>4, IdleTypes DEF WorkIsOwn
<1> QED BY <1>4, <1>5 DEF StartAppSync, AppTyped, envObjects

(* The steps of syncEnvironment on the Sync itself. *)
LEMMA EnvironmentSteps ==
  ASSUME EnvTyped, AppTyped, NEW e \in Envs
  PROVE  /\ NextEnv(e) => /\ appSync' \in AppSyncs
                          /\ appSync'.work = appSync.work /\ appSync'.config = appSync.config
         /\ \A pc \in {"create", "reload"} :
              Continue(pc) => /\ appSync' \in AppSyncs
                              /\ appSync'.work = appSync.work /\ appSync'.config = appSync.config
         /\ \A n \in 0..MaxAttempts :
              LET s == [appSync EXCEPT !.pc = "update", !.old = re[e], !.tries = n] IN
              s \in AppSyncs /\ s.work = appSync.work /\ s.config = appSync.config
<1>1. re[e] \in EnvRecords /\ appSync \in AppSyncs
  BY DEF EnvTyped, AppTyped
<1>2. ASSUME NextEnv(e)
      PROVE  appSync' \in AppSyncs /\ appSync'.work = appSync.work /\ appSync'.config = appSync.config
  BY <1>1, <1>2 DEF NextEnv, AppSyncs
<1>3. ASSUME NEW pc \in {"create", "reload"}, Continue(pc)
      PROVE  appSync' \in AppSyncs /\ appSync'.work = appSync.work /\ appSync'.config = appSync.config
  BY <1>1, <1>3 DEF Continue, AppSyncs
<1>4. ASSUME NEW n \in 0..MaxAttempts
      PROVE  LET s == [appSync EXCEPT !.pc = "update", !.old = re[e], !.tries = n] IN
             s \in AppSyncs /\ s.work = appSync.work /\ s.config = appSync.config
  BY <1>1 DEF AppSyncs
<1> QED BY <1>2, <1>3, <1>4

LEMMA FirstIsEnv == ASSUME NEW envs PROVE First(envs) \subseteq Envs
BY DEF First, Envs

LEMMA RequeueApp == ASSUME AppTyped, AppRequeue, UNCHANGED lost \/ lost' \subseteq Envs PROVE AppTyped' /\ WorkIsOwn'
BY IdleWork DEF AppRequeue, AppTyped

LEMMA GetTypes ==
  ASSUME EnvTyped, AppTyped, TriesLeft, WorkIsOwn, NEW e \in Envs, UNCHANGED alias, GetEnvironment(e) \/ ReloadEnvironment(e)
  PROVE  AppTyped' /\ WorkIsOwn'
<1>1. UNCHANGED lost /\ lost' \subseteq Envs /\ \A b \in Aliases : Own(b) => Own(b)'
  BY DEF GetEnvironment, ReloadEnvironment, envObjects, AppTyped, Own
<1>2. appSync' \in AppSyncs /\ appSync'.work = appSync.work /\ appSync'.config = appSync.config /\ UNCHANGED appPending
  <2>1. ASSUME NextEnv(e) \/ Continue("create")
        PROVE  appSync' \in AppSyncs /\ appSync'.work = appSync.work /\ appSync'.config = appSync.config
               /\ UNCHANGED appPending
    BY <2>1, EnvironmentSteps DEF NextEnv, Continue
  <2>2. ASSUME NEW n \in 0..MaxAttempts, appSync' = [appSync EXCEPT !.pc = "update", !.old = re[e], !.tries = n]
        PROVE  appSync' \in AppSyncs /\ appSync'.work = appSync.work /\ appSync'.config = appSync.config
    BY <2>2, EnvironmentSteps
  <2>3. CASE GetEnvironment(e)
    <3>1. 1 \in 0..MaxAttempts
      BY Constants
    <3> QED BY <2>1, <2>2, <2>3, <3>1 DEF GetEnvironment
  <2>4. CASE ReloadEnvironment(e)
    <3>1. CASE NextEnv(e)
      BY <2>1, <3>1
    <3>2. CASE appSync' = [appSync EXCEPT !.pc = "update", !.old = re[e], !.tries = @ + 1] /\ UNCHANGED appPending
      <4>1. appSync.tries + 1 \in 0..MaxAttempts
        BY <2>4, SyncParts, Constants DEF TriesLeft, ReloadEnvironment, AppAt
      <4> QED BY <2>2, <3>2, <4>1
    <3> QED BY <2>4, <3>1, <3>2 DEF ReloadEnvironment
  <2> QED BY <2>3, <2>4
<1> QED BY <1>1, <1>2, SameWork

LEMMA CreateTypes ==
  ASSUME EnvTyped, AppTyped, WorkIsOwn, NEW e \in Envs, UNCHANGED <<alias, envOwn, misled>>,
         CreateEnvironment(e) \/ UpdateEnvironment(e)
  PROVE  EnvTyped' /\ AppTyped' /\ WorkIsOwn'
<1>1. appSync.config.env[e] \in Egress \cup {NoEnv} /\ \A b \in Aliases : Own(b) => Own(b)'
  BY SyncParts DEF AppConfigs, Own
<1>2. re' \in [Envs -> EnvRecords] /\ born' \in [Envs -> Nat] /\ lost' \subseteq Envs
  <2>1. CASE CreateEnvironment(e)
    <3>1. [NoRE EXCEPT !.uid = born[e] + 1, !.egress = Wanted(e)] \in EnvRecords
      <4>1. born[e] + 1 \in Nat /\ Wanted(e) \in Egress \cup {NoEnv} /\ NoRE \in EnvRecords
        BY <1>1, BlankTypes DEF EnvTyped, Wanted
      <4> HIDE DEF Wanted
      <4> QED BY <4>1 DEF EnvRecords
    <3> QED BY <2>1, <3>1 DEF CreateEnvironment, EnvTyped, AppTyped, envObjects
  <2>2. CASE UpdateEnvironment(e)
    <3>1. [re EXCEPT ![e].egress = Wanted(e)] \in [Envs -> EnvRecords]
      BY ZenonT(30), <1>1 DEF EnvTyped, EnvRecords, Wanted
    <3> QED BY <2>2, <3>1 DEF UpdateEnvironment, EnvTyped, AppTyped
  <2> QED BY <2>1, <2>2
<1>3. AppTyped' /\ WorkIsOwn'
  <2>1. CASE AppRequeue
    BY <2>1, <1>2, IdleWork DEF AppRequeue
  <2>2. CASE NextEnv(e) \/ Continue("reload")
    <3>1. appSync' \in AppSyncs /\ appSync'.work = appSync.work /\ appSync'.config = appSync.config /\ UNCHANGED appPending
      BY <2>2, EnvironmentSteps DEF NextEnv, Continue
    <3> QED BY <3>1, <1>1, <1>2, SameWork
  <2> QED BY <2>1, <2>2 DEF CreateEnvironment, UpdateEnvironment
<1>4. reEdited' \subseteq Envs
  BY DEF CreateEnvironment, UpdateEnvironment, EnvTyped, envObjects
<1>5. EnvTyped'
  BY <1>2, <1>4 DEF EnvTyped, envOwn, kube, caches
<1> QED BY <1>3, <1>5

LEMMA SyncEnvironmentsTypes ==
  ASSUME EnvTyped, AppTyped, TriesLeft, WorkIsOwn, UNCHANGED <<envOwn, misled>>, SyncEnvironments
  PROVE  EnvTyped' /\ AppTyped' /\ WorkIsOwn' /\ UNCHANGED aliasObjects
<1>1. PICK e \in Envs : GetEnvironment(e) \/ CreateEnvironment(e) \/ UpdateEnvironment(e) \/ ReloadEnvironment(e)
  BY FirstIsEnv DEF SyncEnvironments
<1>2. UNCHANGED aliasObjects
  BY <1>1 DEF GetEnvironment, CreateEnvironment, UpdateEnvironment, ReloadEnvironment
<1>3. UNCHANGED alias
  BY <1>2 DEF aliasObjects
<1>4. CASE GetEnvironment(e) \/ ReloadEnvironment(e)
  <2>1. UNCHANGED envObjects
    BY <1>4 DEF GetEnvironment, ReloadEnvironment
  <2>2. EnvTyped'
    BY <2>1 DEF EnvTyped, envObjects, envOwn, kube, caches
  <2> QED BY <1>2, <1>3, <1>4, <2>2, GetTypes
<1>5. CASE CreateEnvironment(e) \/ UpdateEnvironment(e)
  BY <1>2, <1>3, <1>5, CreateTypes
<1> QED BY <1>1, <1>4, <1>5

(* No step leaves an update to be tried more often than it may be. *)
LEMMA TriesKept ==
  ASSUME AppTyped, TriesLeft, StartAppSync \/ SyncEnvironments \/ SyncDNSAliases \/ SyncAppStatus \/ AppRequeue
  PROVE  TriesLeft'
<1>0. appSync \in AppSyncs
  BY DEF AppTyped
<1>1. CASE appSync' = AppIdle
  BY <1>1 DEF TriesLeft, AppIdle
<1>9. CASE StartAppSync
  <2>1. AppIdle.pc = "idle" /\ AppIdle \in AppSyncs
    BY IdleTypes DEF AppIdle
  <2>2. appSync'.pc \in {"idle", "get"}
    BY <1>9, <2>1 DEF StartAppSync, AppSyncs
  <2> QED BY <2>2 DEF TriesLeft
<1>2. CASE SyncEnvironments
  <2>1. PICK e \in First(appSync.envs) :
          GetEnvironment(e) \/ CreateEnvironment(e) \/ UpdateEnvironment(e) \/ ReloadEnvironment(e)
    BY <1>2 DEF SyncEnvironments
  <2>2. \/ NextEnv(e) \/ Continue("create") \/ AppRequeue
        \/ Continue("reload") /\ appSync.tries < MaxAttempts
        \/ \E n \in Int : appSync' = [appSync EXCEPT !.pc = "update", !.old = re[e], !.tries = n]
    <3>1. appSync.tries + 1 \in Int
      BY SyncParts
    <3>2. CASE GetEnvironment(e)
      BY <3>2, 1 \in Int, Zenon DEF GetEnvironment
    <3>3. CASE CreateEnvironment(e)
      BY <3>3 DEF CreateEnvironment
    <3>4. CASE UpdateEnvironment(e)
      BY <3>4, Zenon DEF UpdateEnvironment
    <3>5. CASE ReloadEnvironment(e)
      BY <3>1, <3>5 DEF ReloadEnvironment
    <3> QED BY <2>1, <3>2, <3>3, <3>4, <3>5
  <2>3. CASE NextEnv(e)
    BY <2>3, <1>0 DEF NextEnv, AppSyncs, TriesLeft
  <2>4. CASE Continue("create") \/ (Continue("reload") /\ appSync.tries < MaxAttempts)
    BY <2>4, <1>0 DEF Continue, AppSyncs, TriesLeft
  <2>5. ASSUME NEW n \in Int, appSync' = [appSync EXCEPT !.pc = "update", !.old = re[e], !.tries = n]
        PROVE  TriesLeft'
    BY <2>5, <1>0 DEF AppSyncs, TriesLeft
  <2> QED BY <1>1, <2>2, <2>3, <2>4, <2>5 DEF AppRequeue
<1>3. CASE SyncDNSAliases
  BY ZenonT(30), <1>0, <1>1, <1>3 DEF SyncDNSAliases, ListAliases, DeleteAlias, UpdateAlias, CreateAlias, AppRequeue, TriesLeft, AppSyncs, AppAt
<1> QED BY <1>1, <1>9, <1>2, <1>3 DEF SyncAppStatus, AppRequeue, AppDone

LEMMA SyncAliasKeeps ==
  ASSUME AppTyped, AliasObjectsTyped, WorkIsOwn, UNCHANGED lost, SyncDNSAliases
  PROVE  AppTyped' /\ AliasObjectsTyped' /\ WorkIsOwn'
<1>0. /\ appSync \in AppSyncs /\ UNCHANGED lost /\ lost' \subseteq Envs /\ alias \in [Aliases -> AliasRecords]
      /\ \A b \in Aliases : appSync.config.alias[b] \in Targets \cup {NoTarget}
  BY SyncParts DEF AppTyped, AliasObjectsTyped, AppConfigs
<1>1. CASE AppRequeue /\ UNCHANGED aliasObjects
  BY <1>1, RequeueApp DEF AliasObjectsTyped, aliasObjects, Own
<1>2. CASE ListAliases /\ ~AppRequeue
  <2>1. appSync' = [appSync EXCEPT !.pc = "aliases", !.listed = alias, !.work = Work(appSync.config, alias)]
        /\ UNCHANGED <<appPending, aliasObjects>>
    BY <1>2 DEF ListAliases
  <2> DEFINE work == Work(appSync.config, alias)
  <2>2. work \in [delete : SUBSET Aliases, update : SUBSET Aliases, create : SUBSET Aliases]
    BY DEF Work
  <2>3. \A b \in Aliases : /\ b \in work.delete \cup work.update => Own(b)
                           /\ b \in work.update \cup work.create => appSync.config.alias[b] \in Targets
                           /\ b \notin work.delete \cap work.update
    BY <1>0 DEF Work, Own
  <2> HIDE DEF work
  <2>4. appSync' \in AppSyncs /\ appSync'.work = work /\ appSync'.config = appSync.config
    BY <1>0, <2>1, <2>2 DEF AppSyncs, work
  <2>5. UNCHANGED alias
    BY <2>1 DEF aliasObjects
  <2>6. WorkIsOwn'
    BY <2>3, <2>4, <2>5 DEF WorkIsOwn, Own
  <2> QED BY <1>0, <2>1, <2>4, <2>6 DEF AppTyped, AliasObjectsTyped, aliasObjects, Own
<1>3. ASSUME NEW a \in Aliases, DeleteAlias(a) PROVE AppTyped' /\ AliasObjectsTyped' /\ WorkIsOwn'
  <2>1. /\ alias' = [alias EXCEPT ![a] = NoAlias] /\ UNCHANGED <<named, aliasEdited>>
        /\ AppRequeue \/ (appSync' = [appSync EXCEPT !.work.delete = @ \ {a}] /\ UNCHANGED appPending)
    BY <1>3 DEF DeleteAlias
  <2>2. NoAlias \in AliasRecords /\ NoAlias.app # "own"
    BY BlankTypes DEF NoAlias
  <2>3. alias' \in [Aliases -> AliasRecords] /\ alias'[a] = NoAlias /\ \A b \in Aliases : b # a => alias'[b] = alias[b]
    BY <1>0, <2>1, <2>2
  <2>4. AliasObjectsTyped'
    BY <2>1, <2>2, <2>3 DEF AliasObjectsTyped, Own
  <2>5. CASE AppRequeue
    BY <2>4, <2>5, RequeueApp, <1>0
  <2>6. CASE appSync' = [appSync EXCEPT !.work.delete = @ \ {a}] /\ UNCHANGED appPending
    <3>1. /\ appSync' \in AppSyncs /\ appSync'.config = appSync.config
          /\ appSync'.work.delete = appSync.work.delete \ {a}
          /\ appSync'.work.update = appSync.work.update /\ appSync'.work.create = appSync.work.create
      BY <1>0, <2>6 DEF AppSyncs
    <3>2. a \notin appSync.work.update
      BY <1>3 DEF DeleteAlias, WorkIsOwn
    <3>3. WorkIsOwn'
      BY <3>1, <3>2, <2>3 DEF WorkIsOwn, Own
    <3> QED BY <1>0, <2>4, <2>6, <3>1, <3>3 DEF AppTyped
  <2> QED BY <2>1, <2>5, <2>6

<1>4. ASSUME NEW a \in Aliases, UpdateAlias(a) PROVE AppTyped' /\ AliasObjectsTyped' /\ WorkIsOwn'
  <2>1. /\ alias' = [alias EXCEPT ![a].target.component = appSync.config.alias[a].component]
        /\ UNCHANGED <<named, appPending>> /\ aliasEdited' = aliasEdited \cup {a}
        /\ appSync' = [appSync EXCEPT !.work.update = @ \ {a}]
    BY <1>4 DEF UpdateAlias
  <2>2. Own(a) /\ alias[a].target \in Targets /\ appSync.config.alias[a].component \in Components
    BY <1>4 DEF UpdateAlias, WorkIsOwn, AliasObjectsTyped, Targets
  <2>3. [alias[a].target EXCEPT !.component = appSync.config.alias[a].component] \in Targets
    BY <2>2 DEF Targets
  <2>4. /\ alias' \in [Aliases -> AliasRecords] /\ alias'[a].target \in Targets /\ alias'[a].app = alias[a].app
        /\ \A b \in Aliases : b # a => alias'[b] = alias[b]
    <3>1. alias[a] \in AliasRecords
      BY <1>0
    <3> DEFINE t == [alias[a].target EXCEPT !.component = appSync.config.alias[a].component]
    <3> HIDE DEF t
    <3>3. alias' = [alias EXCEPT ![a] = [alias[a] EXCEPT !.target = t]] /\ t \in Targets
      BY <2>1, <2>3, <1>0 DEF t
    <3>4. /\ [alias[a] EXCEPT !.target = t] \in AliasRecords
          /\ [alias[a] EXCEPT !.target = t].target = t /\ [alias[a] EXCEPT !.target = t].app = alias[a].app
      BY <3>1, <3>3 DEF AliasRecords
    <3> QED BY <3>3, <3>4, <1>0
  <2>5. AliasObjectsTyped'
    BY <2>1, <2>4 DEF AliasObjectsTyped, Own
  <2>6. /\ appSync' \in AppSyncs /\ appSync'.config = appSync.config
        /\ appSync'.work.delete = appSync.work.delete
        /\ appSync'.work.update = appSync.work.update \ {a} /\ appSync'.work.create = appSync.work.create
    BY <1>0, <2>1 DEF AppSyncs
  <2>7. WorkIsOwn'
    BY <2>4, <2>6 DEF WorkIsOwn, Own
  <2> QED BY <1>0, <2>1, <2>5, <2>6, <2>7 DEF AppTyped
<1>5. ASSUME NEW a \in Aliases, CreateAlias(a) PROVE AppTyped' /\ AliasObjectsTyped' /\ WorkIsOwn'
  <2>1. CASE AppRequeue /\ UNCHANGED aliasObjects
    BY <1>1, <2>1
  <2>2. CASE ~(AppRequeue /\ UNCHANGED aliasObjects)
    <3>1. /\ alias' = [alias EXCEPT ![a] = [uid |-> named[a] + 1, app |-> "own", target |-> appSync.config.alias[a]]]
          /\ named' = [named EXCEPT ![a] = @ + 1] /\ aliasEdited' = aliasEdited \cup {a}
          /\ appSync' = [appSync EXCEPT !.work.create = @ \ {a}] /\ UNCHANGED appPending
      BY <1>5, <2>2 DEF CreateAlias
    <3>2. appSync.config.alias[a] \in Targets /\ named[a] + 1 \in Nat
      BY <1>5 DEF CreateAlias, WorkIsOwn, AliasObjectsTyped
    <3> DEFINE new == [uid |-> named[a] + 1, app |-> "own", target |-> appSync.config.alias[a]]
    <3>3. new \in AliasRecords /\ new.app = "own" /\ new.target \in Targets
      BY <3>2 DEF AliasRecords
    <3>4. alias' = [alias EXCEPT ![a] = new]
      BY <3>1
    <3> HIDE DEF new
    <3>5. alias' \in [Aliases -> AliasRecords] /\ alias'[a] = new /\ \A b \in Aliases : b # a => alias'[b] = alias[b]
      BY <3>3, <3>4, <1>0
    <3>6. AliasObjectsTyped'
      BY <3>1, <3>3, <3>5 DEF AliasObjectsTyped, Own
    <3>7. /\ appSync' \in AppSyncs /\ appSync'.config = appSync.config
          /\ appSync'.work.delete = appSync.work.delete
          /\ appSync'.work.update = appSync.work.update /\ appSync'.work.create = appSync.work.create \ {a}
      BY <1>0, <3>1 DEF AppSyncs
    <3>8. WorkIsOwn'
      BY <3>3, <3>5, <3>7 DEF WorkIsOwn, Own
    <3> QED BY <1>0, <3>1, <3>6, <3>7, <3>8 DEF AppTyped
  <2> QED BY <2>1, <2>2
<1>6. ListAliases /\ AppRequeue => UNCHANGED aliasObjects
  BY DEF ListAliases
<1> QED BY <1>1, <1>2, <1>3, <1>4, <1>5, <1>6 DEF SyncDNSAliases

-----------------------------------------------------------------------------
(* The whole *)

LEMMA TellTypes ==
  ASSUME ConfigTypeOK, NEW new \in Applications, Tell(new)
  PROVE  ra' \in Applications /\ raStream' \in Seq(Applications)
BY AppendProperties DEF ConfigTypeOK, Tell

LEMMA ConfigSteps ==
  ASSUME ConfigTypeOK, DeleteApplication \/ \E config \in Configs : Apply(config)
  PROVE  ConfigTypeOK'
<1>1. left \in [Disturbances -> Nat] /\ {"config", "delete"} \subseteq Disturbances
  BY DEF ConfigTypeOK, Disturbances
<1>2. CASE DeleteApplication
  <2>1. [ra EXCEPT !.exists = FALSE] \in Applications
    BY DEF ConfigTypeOK, Applications
  <2> QED BY <1>1, <1>2, <2>1, TellTypes, SpendType DEF DeleteApplication, ConfigTypeOK
<1>3. ASSUME NEW config \in Configs, Apply(config) PROVE ConfigTypeOK'
  <2>1. [exists |-> TRUE, config |-> config] \in Applications
    BY DEF Applications
  <2> QED BY <1>1, <1>3, <2>1, TellTypes, SpendType DEF Apply, ConfigTypeOK
<1> QED BY <1>2, <1>3

LEMMA AppKept ==
  ASSUME AppTyped, TriesLeft, WorkIsOwn, UNCHANGED appCtl, lost' \subseteq Envs, \A b \in Aliases : Own(b) => Own(b)'
  PROVE  AppTyped' /\ TriesLeft' /\ WorkIsOwn'
BY DEF AppTyped, TriesLeft, WorkIsOwn, appCtl

(* The steps that leave the aliases and the Sync of the RadixApplication alone. *)
LEMMA EnvironmentsOnly ==
  ASSUME IInv, ConfigTypeOK', EnvTyped', lost' \subseteq Envs, UNCHANGED <<aliasVars, appCtl>>
  PROVE  IInv'
<1>1. UNCHANGED <<aliasObjects, alias, routes, deploys, aliasPending, aliasSync, misrouted>>
  BY DEF aliasVars, aliasObjects
<1>2. AliasTyped' /\ SyncTargets' /\ AliasObjectsTyped'
  BY <1>1, AliasKept DEF IInv
<1>3. AppTyped' /\ TriesLeft' /\ WorkIsOwn'
  BY <1>1, AppKept DEF IInv, Own
<1> QED BY <1>2, <1>3 DEF IInv

(* The steps that leave the RadixApplication, its Sync and the environments alone. *)
LEMMA AliasesOnly ==
  ASSUME IInv, AliasTyped', SyncTargets', AliasObjectsTyped', left' \in [Disturbances -> Nat],
         \A b \in Aliases : Own(b) => Own(b)',
         UNCHANGED aliasRest
  PROVE  IInv'
<1>1. UNCHANGED <<ra, raStream, raEdited, envVars, appCtl, lost>>
  BY DEF aliasRest
<1>2. ConfigTypeOK' /\ lost' \subseteq Envs
  BY <1>1 DEF IInv, ConfigTypeOK, AppTyped
<1>3. EnvTyped'
  BY <1>1, EnvKept DEF IInv
<1>4. AppTyped' /\ TriesLeft' /\ WorkIsOwn'
  BY <1>1, <1>2, AppKept DEF IInv
<1> QED BY <1>2, <1>3, <1>4 DEF IInv

LEMMA ObjectsKept ==
  ASSUME AliasObjectsTyped, UNCHANGED aliasObjects
  PROVE  AliasObjectsTyped' /\ \A b \in Aliases : Own(b) => Own(b)'
BY DEF AliasObjectsTyped, aliasObjects, Own

LEMMA RestKept ==
  ASSUME IInv, UNCHANGED appRest
  PROVE  /\ AliasTyped' /\ SyncTargets' /\ ra' \in Applications /\ raStream' \in Seq(Applications)
         /\ UNCHANGED <<envOwn, misled>>
<1>1. UNCHANGED <<routes, deploys, aliasPending, aliasSync, misrouted, ra, raStream, envOwn, misled>>
  BY DEF appRest
<1> QED BY <1>1, AliasKept DEF IInv, ConfigTypeOK

LEMMA ApplicationSteps ==
  ASSUME IInv, AppEvent \/ AppSyncStep \/ AppFault
  PROVE  IInv'
<1>1. AliasTyped' /\ SyncTargets' /\ ra' \in Applications /\ raStream' \in Seq(Applications) /\ UNCHANGED <<envOwn, misled>>
  BY RestKept DEF AppEvent, AppSyncStep, AppFault
<1>2. ConfigTypeOK'
  <2>1. left' \in [Disturbances -> Nat]
    BY SpendType DEF AppEvent, AppSyncStep, AppFault, AppSyncFails, IInv, ConfigTypeOK, Disturbances
  <2>2. raEdited' \in BOOLEAN
    BY DEF AppEvent, DeliverEdit, AppSyncStep, AppFault, IInv, ConfigTypeOK
  <2> QED BY <1>1, <2>1, <2>2 DEF ConfigTypeOK
<1>3. ASSUME UNCHANGED <<envObjects, aliasObjects>>
      PROVE  EnvTyped' /\ AliasObjectsTyped' /\ UNCHANGED lost /\ \A b \in Aliases : Own(b) => Own(b)'
  <2>1. EnvTyped'
    BY <1>1, <1>3 DEF IInv, EnvTyped, envObjects, envOwn, kube, caches
  <2> QED BY <1>3, <2>1, ObjectsKept DEF IInv, envObjects
<1>4. CASE DeliverEdit
  <2>1. UNCHANGED <<appSync, envObjects, aliasObjects>> /\ appPending' = TRUE
    BY <1>4 DEF DeliverEdit
  <2>2. AppTyped' /\ TriesLeft' /\ WorkIsOwn'
    BY <2>1, <1>3 DEF IInv, AppTyped, TriesLeft, WorkIsOwn
  <2> QED BY <1>3, <2>1, <2>2, <1>1, <1>2 DEF IInv
<1>5. CASE StartAppSync
  <2>1. UNCHANGED <<envObjects, aliasObjects>>
    BY <1>5 DEF StartAppSync
  <2> QED BY <1>1, <1>2, <1>3, <1>5, <2>1, StartAppSyncTypes, TriesKept DEF IInv
<1>6. CASE SyncEnvironments
  <2>1. EnvTyped' /\ AppTyped' /\ WorkIsOwn' /\ UNCHANGED aliasObjects
    BY <1>1, <1>6, SyncEnvironmentsTypes DEF IInv
  <2> QED BY <1>1, <1>2, <1>6, <2>1, ObjectsKept, TriesKept DEF IInv
<1>7. CASE SyncDNSAliases
  <2>1. UNCHANGED envObjects
    BY <1>7 DEF SyncDNSAliases, ListAliases, DeleteAlias, UpdateAlias, CreateAlias
  <2>2. EnvTyped' /\ UNCHANGED lost
    BY <1>1, <2>1 DEF IInv, EnvTyped, envObjects, envOwn, kube, caches
  <2> QED BY <1>1, <1>2, <1>7, <2>2, SyncAliasKeeps, TriesKept DEF IInv
<1>8. CASE SyncAppStatus \/ AppSyncFails
  <2>1. UNCHANGED <<envObjects, aliasObjects>> /\ appSync' = AppIdle /\ appPending' \in BOOLEAN
    BY <1>8 DEF SyncAppStatus, AppSyncFails, AppDone, AppRequeue, IInv, AppTyped
  <2>2. AppTyped' /\ WorkIsOwn'
    BY <1>3, <2>1, IdleWork DEF IInv, AppTyped
  <2>3. TriesLeft'
    BY <2>1 DEF TriesLeft, AppIdle
  <2> QED BY <1>1, <1>2, <1>3, <2>1, <2>2, <2>3 DEF IInv
<1> QED BY <1>4, <1>5, <1>6, <1>7, <1>8 DEF AppEvent, AppSyncStep, AppFault

LEMMA ConfigurationSteps ==
  ASSUME IInv, ApplyConfig \/ RemoveConfig
  PROVE  IInv'
<1>1. ConfigTypeOK'
  BY ConfigSteps DEF IInv, ApplyConfig, RemoveConfig
<1>2. UNCHANGED <<envOwn, envObjects, aliasVars, appCtl>> /\ misled' \subseteq Envs
  BY DEF ApplyConfig, RemoveConfig, IInv, EnvTyped
<1>3. EnvTyped' /\ lost' \subseteq Envs
  BY <1>2 DEF IInv, EnvTyped, AppTyped, envObjects, envOwn, kube, caches
<1> QED BY <1>1, <1>2, <1>3, EnvironmentsOnly

LEMMA EnvironmentsStep ==
  ASSUME IInv, EnvTyped', raStream' \in Seq(Applications), left' \in [Disturbances -> Nat],
         lost' \subseteq Envs, UNCHANGED envRest
  PROVE  IInv'
<1>1. UNCHANGED <<ra, raEdited, aliasVars, appCtl>>
  BY DEF envRest
<1>2. ConfigTypeOK'
  BY <1>1 DEF IInv, ConfigTypeOK
<1> QED BY <1>1, <1>2, EnvironmentsOnly

LEMMA EnvironmentControllers ==
  ASSUME IInv, NEW e \in Envs,
         \/ ApplicationEvent \/ CleanUpRun \/ Clock \/ EnvEvent(e) \/ EnvSyncStep(e) \/ EnvFault(e)
         \/ Deletion("cron", e) \/ Deletion("user", e)
  PROVE  IInv'
<1>0. /\ ConfigTypeOK /\ EnvTyped /\ lost \subseteq Envs
      /\ raStream \in Seq(Applications) /\ left \in [Disturbances -> Nat]
  BY DEF IInv, ConfigTypeOK, AppTyped
<1>1. /\ EnvTyped' /\ raStream' \in Seq(Applications) /\ left' \in [Disturbances -> Nat]
  <2>1. CASE ApplicationEvent
    BY <1>0, <2>1, DeliverApplicationType DEF ApplicationEvent
  <2>2. CASE CleanUpRun \/ Clock
    BY <1>0, <2>2, CleanUpTypes DEF CleanUpRun, Clock
  <2>3. CASE EnvEvent(e)
    BY <1>0, <2>3, EventTypes DEF EnvEvent
  <2>4. CASE EnvSyncStep(e)
    BY <1>0, <2>4, SyncStepTypes DEF EnvSyncStep
  <2>5. CASE EnvFault(e)
    BY <1>0, <2>5, FaultTypes DEF EnvFault
  <2>6. CASE Deletion("cron", e) \/ Deletion("user", e)
    BY <1>0, <2>6, DeletionTypes DEF Deletion
  <2> QED BY <2>1, <2>2, <2>3, <2>4, <2>5, <2>6
<1>2. lost' \subseteq Envs /\ UNCHANGED envRest
  BY <1>0 DEF ApplicationEvent, CleanUpRun, Clock, EnvEvent, EnvSyncStep, EnvFault, Deletion
<1> QED BY <1>1, <1>2, EnvironmentsStep

LEMMA KubernetesSteps ==
  ASSUME IInv, NEW e \in Envs, Kubernetes(e)
  PROVE  IInv'
<1>0. lost \subseteq Envs /\ raStream \in Seq(Applications) /\ left \in [Disturbances -> Nat]
  BY DEF IInv, ConfigTypeOK, AppTyped
<1>1. EnvTyped' /\ UNCHANGED <<raStream, left>>
  BY KubernetesTypes DEF IInv, Kubernetes
<1>2. CASE UNCHANGED <<envRest, lost>>
  BY <1>0, <1>1, <1>2, EnvironmentsStep
<1>3. CASE EmptyOfRoutes(e) /\ UNCHANGED <<ra, raEdited, appCtl, lost>>
  <2>1. ConfigTypeOK'
    BY <1>1, <1>3 DEF IInv, ConfigTypeOK
  <2>2. AliasTyped' /\ SyncTargets' /\ UNCHANGED aliasObjects
    BY <1>3, EmptyTypes DEF IInv
  <2>3. AliasObjectsTyped' /\ \A b \in Aliases : Own(b) => Own(b)'
    BY <2>2, ObjectsKept DEF IInv
  <2>4. AppTyped' /\ TriesLeft' /\ WorkIsOwn'
    BY <1>0, <1>3, <2>3, AppKept DEF IInv
  <2> QED BY <1>1, <2>1, <2>2, <2>3, <2>4 DEF IInv
<1> QED BY <1>2, <1>3 DEF Kubernetes

LEMMA AliasSteps ==
  ASSUME IInv,
         \/ AliasEvent \/ AliasEventLost \/ RouteEvent
         \/ \E e \in Envs : Deployments(e) \/ Pipelines(e)
         \/ \E a \in Aliases : AliasSyncStep(a) \/ AliasFault(a)
  PROVE  IInv'
<1>0. /\ ConfigTypeOK /\ left \in [Disturbances -> Nat] /\ "error" \in Disturbances
      /\ AliasTyped /\ SyncTargets /\ AliasObjectsTyped
  BY DEF IInv, ConfigTypeOK, Disturbances
<1>1. ASSUME UNCHANGED aliasObjects PROVE AliasObjectsTyped' /\ \A b \in Aliases : Own(b) => Own(b)'
  BY <1>0, <1>1, ObjectsKept
<1>2. ASSUME NEW e \in Envs, Deployments(e) \/ Pipelines(e) PROVE IInv'
  <2>1. AliasTyped' /\ SyncTargets' /\ left' \in [Disturbances -> Nat]
    BY <1>0, <1>2, DeployTypes, RolloutTypes DEF Deployments, Pipelines
  <2>2. UNCHANGED aliasObjects
    BY <1>2 DEF Deployments, Pipelines, Rollout, Deploy, aliasObjects
  <2> QED BY <1>1, <1>2, <2>1, <2>2, AliasesOnly DEF Deployments, Pipelines
<1>3. CASE AliasEvent
  <2>1. AliasTyped' /\ SyncTargets' /\ AliasObjectsTyped' /\ UNCHANGED alias
    BY <1>0, <1>3, AliasEventTypes DEF AliasEvent
  <2>2. \A b \in Aliases : Own(b) => Own(b)'
    BY <2>1 DEF Own
  <2> QED BY <1>0, <1>3, <2>1, <2>2, AliasesOnly DEF AliasEvent
<1>4. CASE RouteEvent
  <2>1. AliasTyped' /\ SyncTargets' /\ UNCHANGED aliasObjects
    BY <1>0, <1>4, RouteTypes DEF RouteEvent
  <2> QED BY <1>0, <1>1, <1>4, <2>1, AliasesOnly DEF RouteEvent
<1>5. ASSUME NEW a \in Aliases, AliasSyncStep(a) PROVE IInv'
  <2>1. AliasTyped' /\ SyncTargets' /\ UNCHANGED aliasObjects
    BY <1>0, <1>5, StartAliasSyncTypes, FindPortTypes, ReconcileTypes, AliasSyncEnds DEF AliasSyncStep
  <2> QED BY <1>0, <1>1, <1>5, <2>1, AliasesOnly DEF AliasSyncStep
<1>6. ASSUME NEW a \in Aliases, AliasFault(a) PROVE IInv'
  <2>1. UNCHANGED aliasRest
    BY <1>6 DEF AliasFault
  <2>2. CASE AliasSyncFails(a)
    <3>1. AliasTyped' /\ SyncTargets' /\ UNCHANGED aliasObjects
      BY <1>0, <2>2, AliasSyncEnds
    <3>2. left' \in [Disturbances -> Nat]
      BY <1>0, <2>2, SpendType DEF AliasSyncFails
    <3> QED BY <1>1, <2>1, <3>1, <3>2, AliasesOnly
  <2>3. CASE OtherApplication(a)
    BY <1>0, <2>1, <2>3, OtherTypes, AliasesOnly
  <2> QED BY <1>6, <2>2, <2>3 DEF AliasFault
<1>7. CASE AliasEventLost
  <2>1. AliasTyped' /\ SyncTargets' /\ left' \in [Disturbances -> Nat] /\ UNCHANGED aliasObjects
    BY <1>0, <1>7, LostEventTypes DEF AliasEventLost
  <2> QED BY <1>1, <1>7, <2>1, AliasesOnly DEF AliasEventLost
<1> QED BY <1>2, <1>3, <1>4, <1>5, <1>6, <1>7

LEMMA CrashStep == ASSUME IInv, Crash PROVE IInv'
<1>1. EnvTyped' /\ raStream' \in Seq(Applications)
  BY EnvCrashTypes DEF IInv, Crash
<1>2. AliasTyped' /\ SyncTargets' /\ AliasObjectsTyped'
  BY AliasCrashTypes DEF IInv, Crash
<1>3. ConfigTypeOK'
  <2>1. left' \in [Disturbances -> Nat]
    BY SpendType DEF Crash, IInv, ConfigTypeOK, Disturbances
  <2> QED BY <1>1, <2>1 DEF Crash, IInv, ConfigTypeOK
<1>4. appSync' = AppIdle /\ appPending' \in BOOLEAN /\ lost' \subseteq Envs
  BY DEF Crash, IInv, ConfigTypeOK, Applications, AppTyped
<1>5. AppTyped' /\ WorkIsOwn'
  BY <1>4, IdleWork DEF IInv
<1>6. TriesLeft'
  BY <1>4 DEF TriesLeft, AppIdle
<1> QED BY <1>1, <1>2, <1>3, <1>5, <1>6 DEF IInv

LEMMA InitTypes == Init => IInv
<1> SUFFICES ASSUME Init PROVE IInv
  OBVIOUS
<1>1. PICK start \in Starts : ConfigInit(start) /\ EnvInit /\ AliasInit(start.spec)
  BY DEF Init
<1>2. start.config \in Configs /\ start.spec \in Specs /\ start.left \in [Disturbances -> Nat]
  BY Constants
<1>3. ConfigTypeOK
  BY <1>1, <1>2, EmptySeq DEF ConfigInit, ConfigTypeOK, Applications
<1>4. EnvTyped /\ AliasTyped /\ AliasObjectsTyped /\ SyncTargets
  BY <1>1, <1>2, <1>3, EnvInitTypes, AliasInitTypes
<1>5. AppTyped /\ TriesLeft /\ WorkIsOwn
  <2>1. appSync = AppIdle /\ appPending = FALSE /\ lost = {}
    BY DEF Init
  <2>2. AppIdle.pc = "idle"
    BY DEF AppIdle
  <2> QED BY <2>1, <2>2, IdleTypes DEF AppTyped, TriesLeft, WorkIsOwn
<1> QED BY <1>3, <1>4, <1>5 DEF IInv

LEMMA Stutter == IInv /\ UNCHANGED vars => IInv'
<1> SUFFICES ASSUME IInv, UNCHANGED vars PROVE IInv'
  OBVIOUS
<1>1. UNCHANGED <<ra, raStream, raEdited, left>> /\ UNCHANGED <<envVars, aliasVars, appPending, appSync, lost>>
  BY DEF vars, appVars
<1>2. ConfigTypeOK' /\ lost' \subseteq Envs /\ UNCHANGED <<aliasVars, appCtl>>
  BY <1>1 DEF IInv, ConfigTypeOK, AppTyped, appCtl
<1>3. EnvTyped'
  BY <1>1, EnvKept DEF IInv
<1> QED BY <1>2, <1>3, EnvironmentsOnly

LEMMA Step == IInv /\ Next => IInv'
<1> SUFFICES ASSUME IInv, Next PROVE IInv'
  OBVIOUS
<1>0. PICK e \in Envs : TRUE
  BY AppConfigAssumption DEF Envs
<1>1. CASE ApplyConfig \/ RemoveConfig
  BY <1>1, ConfigurationSteps
<1>2. CASE AppEvent \/ AppSyncStep \/ AppFault
  BY <1>2, ApplicationSteps
<1>3. CASE ApplicationEvent \/ CleanUpRun \/ Clock
  BY <1>0, <1>3, EnvironmentControllers
<1>4. ASSUME NEW f \in Envs, EnvEvent(f) \/ EnvSyncStep(f) \/ EnvFault(f) \/ Deletion("cron", f) \/ Deletion("user", f)
      PROVE  IInv'
  BY <1>4, EnvironmentControllers
<1>5. ASSUME NEW f \in Envs, Kubernetes(f) PROVE IInv'
  BY <1>5, KubernetesSteps
<1>6. CASE \/ AliasEvent \/ AliasEventLost \/ RouteEvent
            \/ \E f \in Envs : Deployments(f) \/ Pipelines(f)
            \/ \E a \in Aliases : AliasSyncStep(a) \/ AliasFault(a)
  BY <1>6, AliasSteps
<1>7. CASE Crash
  BY <1>7, CrashStep
<1> QED BY <1>1, <1>2, <1>3, <1>4, <1>5, <1>6, <1>7 DEF Next

-----------------------------------------------------------------------------
(* The theorems *)

LEMMA Inductive == Spec => []IInv
<1>1. Init => IInv
  BY InitTypes
<1>2. IInv /\ [Next]_vars => IInv'
  BY Step, Stutter
<1> QED BY <1>1, <1>2, PTL DEF Spec

(* Every variable has its type, in every state that the controllers of any
   environments and aliases can reach.  RadixApplication.tla. *)
THEOREM TypeCorrect == Spec => []TypeOK
<1>1. IInv => TypeOK
  BY TypeParts
<1> QED BY <1>1, Inductive, PTL

(* The Sync of a RadixApplication never deletes, updates or takes over the RadixDNSAlias
   of another application: what it has to delete or update was this application's own
   when it listed them, still is, and a name that another one took meanwhile is an error.
   applicationconfig/dns_alias.go. *)
THEOREM AliasesAreNotStolen == Spec => NoAliasStolen
<1> DEFINE Safe == \A a \in Aliases : alias[a].app = "other" /\ appSync' # appSync => alias'[a] = alias[a]
<1>1. ASSUME IInv, [Next]_vars PROVE Safe
  <2>0. alias \in [Aliases -> AliasRecords] /\ NoAlias.app = ""
    BY <1>1 DEF IInv, AliasObjectsTyped, NoAlias
  <2>1. CASE UNCHANGED appSync \/ UNCHANGED alias
    BY <2>1
  <2>2. CASE SyncDNSAliases
    <3>1. ASSUME NEW a \in Aliases, DeleteAlias(a) \/ UpdateAlias(a) \/ CreateAlias(a) PROVE Safe
      <4>1. \A b \in Aliases : b # a => alias'[b] = alias[b]
        BY <2>0, <3>1 DEF DeleteAlias, UpdateAlias, CreateAlias, aliasObjects
      <4>2. CASE Own(a)
        BY <4>1, <4>2 DEF Own
      <4>3. CASE alias[a] = NoAlias \/ UNCHANGED alias
        BY <2>0, <4>1, <4>3
      <4>4. Own(a) \/ alias[a] = NoAlias \/ UNCHANGED alias
        BY <1>1, <3>1 DEF DeleteAlias, UpdateAlias, CreateAlias, aliasObjects, IInv, WorkIsOwn
      <4> QED BY <4>2, <4>3, <4>4
    <3>2. ListAliases => UNCHANGED alias
      BY DEF ListAliases, aliasObjects
    <3> QED BY <2>1, <2>2, <3>1, <3>2 DEF SyncDNSAliases
  <2>3. CASE AppEvent \/ AppFault \/ (AppSyncStep /\ ~SyncDNSAliases)
    <3>1. UNCHANGED alias
      BY <2>3 DEF AppEvent, AppFault, AppSyncStep, DeliverEdit, AppSyncFails, StartAppSync, SyncEnvironments,
        GetEnvironment, CreateEnvironment, UpdateEnvironment, ReloadEnvironment, SyncAppStatus, aliasObjects
    <3> QED BY <2>1, <3>1
  <2>4. CASE Crash
    BY <2>1, <2>4 DEF Crash, AliasCrash
  <2>5. CASE UNCHANGED appCtl
    BY <2>1, <2>5 DEF appCtl
  <2>6. CASE UNCHANGED vars
    BY <2>1, <2>6 DEF vars
  <2>7. CASE \/ ApplyConfig \/ RemoveConfig \/ ApplicationEvent \/ CleanUpRun \/ Clock
             \/ AliasEvent \/ AliasEventLost \/ RouteEvent
             \/ \E e \in Envs : \/ EnvEvent(e) \/ EnvSyncStep(e) \/ EnvFault(e) \/ Kubernetes(e)
                                \/ Deletion("cron", e) \/ Deletion("user", e)
                                \/ Deployments(e) \/ Pipelines(e)
             \/ \E a \in Aliases : AliasSyncStep(a) \/ AliasFault(a)
    <3>1. UNCHANGED appCtl
      BY <2>7 DEF ApplyConfig, RemoveConfig, ApplicationEvent, CleanUpRun, Clock, AliasEvent, AliasEventLost, RouteEvent, EnvEvent,
        EnvSyncStep, EnvFault, Kubernetes, Deletion, Deployments, Pipelines, AliasSyncStep, AliasFault, envRest, aliasRest
    <3> QED BY <2>5, <3>1
  <2> QED BY <1>1, <2>2, <2>3, <2>4, <2>6, <2>7 DEF Next, AppSyncStep
<1>2. Spec => [][Safe]_vars
  BY <1>1, Inductive, PTL DEF Spec
<1> QED BY <1>2 DEF NoAliasStolen

-----------------------------------------------------------------------------
(* The flag of an orphaned environment *)

(* What was told before the k-th entry of a stream that follows `first'. *)
Prev(first, s, k) == IF k = 1 THEN first ELSE s[k - 1]

(* The stream has news of e. *)
News(e, first, s) == \E k \in DOMAIN s : e \in Affected(Prev(first, s, k), s[k])

(* What the controller has been told, and is yet to be told, ends with what there is. *)
ChainInv == IF raStream = <<>> THEN raSeen = ra ELSE raStream[Len(raStream)] = ra

UidInv == \A e \in Envs : re[e].uid <= born[e] /\ reSeen[e].uid <= born[e]

(* The flag is true, or the Sync in progress makes it so, or fails. *)
Flagged(e) ==
  CASE At(e, "idle") -> re[e].orphaned = ~Configured(e) /\ (re[e].since # Never) = re[e].orphaned
    [] At(e, "lookup") -> TRUE
    [] OTHER -> envSync[e].failed \/ envSync[e].found = Configured(e)

(* A flag that is not is one for which a Sync is queued, or an event is on its way. *)
FlagAt(e) ==
  Exists(e) /\ e \notin misled =>
    News(e, raSeen, raStream) \/ e \in envPending \/ reSeen[e].uid # re[e].uid \/ Flagged(e)

FlagInv == \A e \in Envs : FlagAt(e)

(* What the flag of e depends on is as it was. *)
KeptFor(e) ==
  /\ UNCHANGED <<ra, raStream, raSeen>>
  /\ re'[e] = re[e] /\ reSeen'[e] = reSeen[e] /\ envSync'[e] = envSync[e]
  /\ e \in envPending => e \in envPending'
  /\ e \in misled => e \in misled'

LEMMA FlagKept == ASSUME NEW e \in Envs, FlagAt(e), KeptFor(e) PROVE FlagAt(e)'
<1>1. UNCHANGED <<ra, raStream, raSeen>> /\ re'[e] = re[e] /\ reSeen'[e] = reSeen[e] /\ envSync'[e] = envSync[e]
  BY DEF KeptFor
<1>2. Exists(e)' = Exists(e) /\ Flagged(e)' = Flagged(e) /\ News(e, raSeen, raStream)' = News(e, raSeen, raStream)
  BY <1>1, Zenon DEF Exists, Flagged, At, Configured
<1> QED BY <1>1, <1>2 DEF FlagAt, KeptFor

LEMMA NewsOfMore ==
  ASSUME NEW e, NEW first, NEW S, NEW s \in Seq(S), NEW x \in S
  PROVE  /\ News(e, first, s) => News(e, first, Append(s, x))
         /\ e \in Affected(IF s = <<>> THEN first ELSE s[Len(s)], x) => News(e, first, Append(s, x))
<1> DEFINE t == Append(s, x)
<1>1. /\ Len(s) \in Nat /\ DOMAIN s = 1..Len(s) /\ DOMAIN t = 1..(Len(s) + 1)
      /\ t[Len(s) + 1] = x /\ \A k \in 1..Len(s) : t[k] = s[k]
  BY AppendProperties, LenProperties
<1>2. \A k \in DOMAIN s : k \in DOMAIN t /\ t[k] = s[k] /\ Prev(first, t, k) = Prev(first, s, k)
  BY <1>1 DEF Prev
<1>3. News(e, first, s) => News(e, first, t)
  BY <1>2 DEF News
<1>4. Len(s) + 1 \in DOMAIN t /\ Prev(first, t, Len(s) + 1) = IF s = <<>> THEN first ELSE s[Len(s)]
  <2>1. s = <<>> <=> Len(s) = 0
    BY EmptySeq, LenProperties
  <2>2. CASE s = <<>>
    BY <1>1, <2>1, <2>2 DEF Prev
  <2>3. CASE s # <<>>
    <3>1. Len(s) \in 1..Len(s) /\ Len(s) + 1 # 1 /\ (Len(s) + 1) - 1 = Len(s)
      BY <1>1, <2>1, <2>3
    <3> QED BY <1>1, <2>3, <3>1 DEF Prev
  <2> QED BY <2>2, <2>3
<1>5. e \in Affected(IF s = <<>> THEN first ELSE s[Len(s)], x) => News(e, first, t)
  BY <1>1, <1>4 DEF News
<1> QED BY <1>3, <1>5

LEMMA NewsOfLess ==
  ASSUME NEW e, NEW first, NEW S, NEW s \in Seq(S), s # <<>>, News(e, first, s)
  PROVE  e \in Affected(first, Head(s)) \/ News(e, Head(s), Tail(s))
<1>1. /\ Len(s) \in Nat \ {0} /\ DOMAIN s = 1..Len(s) /\ Head(s) = s[1]
      /\ DOMAIN Tail(s) = 1..(Len(s) - 1) /\ \A i \in 1..(Len(s) - 1) : Tail(s)[i] = s[i + 1]
  BY HeadTailProperties, EmptySeq, LenProperties
<1>2. PICK k \in 1..Len(s) : e \in Affected(Prev(first, s, k), s[k])
  BY <1>1 DEF News
<1>3. CASE k = 1
  BY <1>1, <1>2, <1>3 DEF Prev
<1>4. CASE k # 1
  <2>1. k - 1 \in DOMAIN Tail(s) /\ Tail(s)[k - 1] = s[k]
    BY <1>1, <1>4
  <2>2. Prev(Head(s), Tail(s), k - 1) = Prev(first, s, k)
    <3>1. CASE k = 2
      BY <1>1, <3>1 DEF Prev
    <3>2. CASE k # 2
      <4>1. k - 2 \in 1..(Len(s) - 1) /\ (k - 2) + 1 = k - 1 /\ (k - 1) - 1 = k - 2
        BY <1>1, <1>4, <3>2
      <4> QED BY <1>1, <1>4, <3>2, <4>1 DEF Prev
    <3> QED BY <3>1, <3>2
  <2> QED BY <1>2, <2>1, <2>2 DEF News
<1> QED BY <1>3, <1>4

(* A change of the RadixApplication is news wherever it turns the flag. *)
LEMMA ConfigFlag ==
  ASSUME IInv, ChainInv, FlagInv, ApplyConfig \/ RemoveConfig
  PROVE  ChainInv' /\ FlagInv'
<1>0. raStream \in Seq(Applications) /\ ra \in Applications /\ misled \subseteq Envs
  BY DEF IInv, ConfigTypeOK, EnvTyped
<1>1. PICK new \in Applications :
        /\ ra' = new /\ raStream' = Append(raStream, new)
        /\ ra.exists \/ misled' = Envs
        /\ misled' \in {misled, Envs}
  <2>1. CASE ApplyConfig
    <3>1. PICK config \in Configs : Apply(config)
      BY <2>1 DEF ApplyConfig
    <3>2. [exists |-> TRUE, config |-> config] \in Applications
      BY DEF Applications
    <3> QED BY <2>1, <3>1, <3>2 DEF ApplyConfig, Apply, Tell
  <2>2. CASE RemoveConfig
    <3>1. [ra EXCEPT !.exists = FALSE] \in Applications
      BY <1>0 DEF Applications
    <3> QED BY <2>2, <3>1 DEF RemoveConfig, DeleteApplication, Tell
  <2> QED BY <2>1, <2>2
<1>2. UNCHANGED <<raSeen, re, reSeen, envSync, envPending>>
  BY DEF ApplyConfig, RemoveConfig, envOwn, envObjects, caches
<1>3. ChainInv'
  <2>1. raStream' # <<>> /\ raStream'[Len(raStream')] = new
    BY <1>0, <1>1, AppendProperties, EmptySeq
  <2> QED BY <1>1, <2>1 DEF ChainInv
<1>4. ASSUME NEW e \in Envs PROVE FlagAt(e)'
  <2> SUFFICES ASSUME Exists(e)', e \notin misled',
                      ~News(e, raSeen', raStream'), e \notin envPending', reSeen'[e].uid = re'[e].uid
               PROVE  Flagged(e)'
    BY DEF FlagAt
  <2>1. ra.exists /\ misled' = misled
    BY <1>1
  <2>2. Flagged(e)
    <3>1. ~News(e, raSeen, raStream)
      BY <1>0, <1>1, <1>2, NewsOfMore
    <3> QED BY <1>2, <2>1, <3>1 DEF FlagInv, FlagAt, Exists
  <2>3. e \notin Affected(ra, new)
    <3>1. ra = IF raStream = <<>> THEN raSeen ELSE raStream[Len(raStream)]
      BY DEF ChainInv
    <3> QED BY <1>0, <1>1, <1>2, <3>1, NewsOfMore
  <2>4. Configured(e)' = Configured(e)
    <3>0. ra.exists \in BOOLEAN /\ new.exists \in BOOLEAN
      BY <1>0 DEF Applications
    <3>1. CASE new.exists
      <4>1. (ra.config.env[e] = NoEnv) = (new.config.env[e] = NoEnv)
        BY <2>1, <2>3, <3>1 DEF Affected, AddedOrDropped
      <4> QED BY <1>1, <2>1, <3>1, <4>1 DEF Configured
    <3>2. CASE ~new.exists
      <4>1. ra.config.env[e] = NoEnv
        BY <2>1, <2>3, <3>2 DEF Affected
      <4> QED BY <1>1, <3>2, <4>1 DEF Configured
    <3> QED BY <3>1, <3>2
  <2> QED BY <1>2, <2>2, <2>4 DEF Flagged, At
<1> QED BY <1>3, <1>4 DEF FlagInv

(* When it is told of, the environments that it turns are enqueued. *)
LEMMA DeliveryFlag ==
  ASSUME IInv, ChainInv, FlagInv, ApplicationEvent
  PROVE  ChainInv' /\ FlagInv'
<1>0. raStream \in Seq(Applications) /\ raStream # <<>>
  BY DEF IInv, ConfigTypeOK, ApplicationEvent, DeliverApplication
<1>1. raSeen' = Head(raStream) /\ raStream' = Tail(raStream) /\ UNCHANGED <<ra, re, reSeen, envSync>>
  BY DEF ApplicationEvent, DeliverApplication, envRest, caches
<1>2. ChainInv'
  <2>1. /\ Len(raStream) \in Nat \ {0} /\ Head(raStream) = raStream[1]
        /\ Tail(raStream) \in Seq(Applications) /\ Len(Tail(raStream)) = Len(raStream) - 1
        /\ \A i \in 1..(Len(raStream) - 1) : Tail(raStream)[i] = raStream[i + 1]
    BY <1>0, HeadTailProperties, EmptySeq, LenProperties
  <2>e. Tail(raStream) = <<>> <=> Len(Tail(raStream)) = 0
    BY <2>1, EmptySeq, LenProperties
  <2>2. raStream[Len(raStream)] = ra
    BY <1>0 DEF ChainInv
  <2>3. CASE Len(raStream) = 1
    <3>1. Tail(raStream) = <<>>
      BY <2>1, <2>3, <2>e
    <3> QED BY <1>1, <2>1, <2>2, <2>3, <3>1 DEF ChainInv
  <2>4. CASE Len(raStream) # 1
    <3>1. Tail(raStream) # <<>> /\ Len(Tail(raStream)) \in 1..(Len(raStream) - 1)
      BY <2>1, <2>4, <2>e
    <3>2. Tail(raStream)[Len(Tail(raStream))] = raStream[Len(raStream)]
      BY <2>1, <3>1
    <3> QED BY <1>1, <2>2, <3>1, <3>2 DEF ChainInv
  <2> QED BY <2>3, <2>4
<1>3. /\ envPending \subseteq envPending' /\ misled \subseteq misled'
      /\ \A e \in Affected(raSeen, Head(raStream)) : Exists(e) => e \in envPending' \cup misled'
  BY DEF ApplicationEvent, DeliverApplication, Affected, AddedOrDropped
<1>4. ASSUME NEW e \in Envs PROVE FlagAt(e)'
  <2> SUFFICES ASSUME Exists(e)', e \notin misled', e \notin envPending',
                      ~News(e, raSeen', raStream'), reSeen'[e].uid = re'[e].uid
               PROVE  Flagged(e)'
    BY DEF FlagAt
  <2>1. ~News(e, raSeen, raStream)
    <3>1. e \notin Affected(raSeen, Head(raStream))
      BY <1>1, <1>3 DEF Exists
    <3> QED BY <1>0, <1>1, <3>1, NewsOfLess
  <2>2. Flagged(e)
    BY <1>1, <1>3, <2>1 DEF FlagInv, FlagAt, Exists
  <2> QED BY <1>1, <2>2, Zenon DEF Flagged, At, Configured
<1> QED BY <1>2, <1>4 DEF FlagInv

(* The steps of the RadixApplication's own controller: a RadixEnvironment that it creates
   is one that the cache has not seen. *)
LEMMA AppFlagSteps ==
  ASSUME IInv, ChainInv, UidInv, FlagInv, AppEvent \/ AppSyncStep \/ AppFault
  PROVE  ChainInv' /\ UidInv' /\ FlagInv'
<1>0. re \in [Envs -> EnvRecords] /\ reSeen \in [Envs -> EnvRecords] /\ born \in [Envs -> Nat]
  BY DEF IInv, EnvTyped
<1>n. \A e \in Envs : re[e].uid \in Nat /\ reSeen[e].uid \in Nat /\ born[e] \in Nat
  BY <1>0 DEF EnvRecords
<1>1. UNCHANGED <<ra, raStream, raSeen, reSeen, envSync, envPending, misled>>
  BY DEF AppEvent, AppSyncStep, AppFault, appRest, envOwn, caches
<1>2. ChainInv'
  BY <1>1 DEF ChainInv
<1>3. CASE UNCHANGED <<re, born>>
  <2>1. \A e \in Envs : FlagAt(e)'
    BY <1>1, <1>3, FlagKept DEF FlagInv, KeptFor
  <2> QED BY <1>1, <1>2, <1>3, <2>1 DEF FlagInv, UidInv
<1>4. ASSUME NEW f \in Envs, CreateEnvironment(f), ~Exists(f)
      PROVE  UidInv' /\ FlagInv'
  <2>1. /\ \A e \in Envs \ {f} : re'[e] = re[e] /\ born'[e] = born[e]
        /\ re'[f].uid = born[f] + 1 /\ born'[f] = born[f] + 1
    BY <1>0, <1>4 DEF CreateEnvironment, NoRE
  <2>2. UidInv'
    BY <1>n, <1>1, <2>1 DEF UidInv
  <2>3. \A e \in Envs \ {f} : FlagAt(e)'
    BY <1>1, <2>1, FlagKept DEF FlagInv, KeptFor
  <2>4. reSeen'[f].uid # re'[f].uid
    BY <1>n, <1>1, <2>1 DEF UidInv
  <2>5. FlagAt(f)'
    BY <2>4 DEF FlagAt
  <2> QED BY <2>2, <2>3, <2>5 DEF FlagInv
<1>5. ASSUME NEW f \in Envs, re' = [re EXCEPT ![f].egress = Wanted(f)], UNCHANGED born
      PROVE  UidInv' /\ FlagInv'
  <2>1. /\ \A e \in Envs \ {f} : re'[e] = re[e]
        /\ re'[f].uid = re[f].uid /\ re'[f].orphaned = re[f].orphaned /\ re'[f].since = re[f].since
    BY <1>0, <1>5 DEF EnvRecords
  <2>2. UidInv'
    BY <1>1, <1>5, <2>1 DEF UidInv
  <2>3. \A e \in Envs \ {f} : FlagAt(e)'
    BY <1>1, <2>1, FlagKept DEF FlagInv, KeptFor
  <2>4. FlagAt(f)'
    <3>1. Exists(f)' = Exists(f) /\ News(f, raSeen, raStream)' = News(f, raSeen, raStream)
      BY <1>1, <2>1 DEF Exists
    <3>2. Flagged(f)' = Flagged(f)
      BY <1>1, <2>1, Zenon DEF Flagged, At, Configured
    <3> QED BY <1>1, <2>1, <3>1, <3>2 DEF FlagInv, FlagAt
  <2> QED BY <2>2, <2>3, <2>4 DEF FlagInv
<1>6. CASE SyncEnvironments
  <2>1. PICK f \in Envs : GetEnvironment(f) \/ CreateEnvironment(f) \/ UpdateEnvironment(f) \/ ReloadEnvironment(f)
    BY <1>6 DEF SyncEnvironments, First, Envs
  <2>2. \/ UNCHANGED <<re, born>>
        \/ CreateEnvironment(f) /\ ~Exists(f)
        \/ re' = [re EXCEPT ![f].egress = Wanted(f)] /\ UNCHANGED born
    BY <2>1 DEF GetEnvironment, CreateEnvironment, UpdateEnvironment, ReloadEnvironment, envObjects
  <2> QED BY <1>2, <1>3, <1>4, <1>5, <2>2
<1>7. CASE AppEvent \/ AppFault \/ (AppSyncStep /\ ~SyncEnvironments)
  <2>1. UNCHANGED <<re, born>>
    BY <1>7 DEF AppEvent, DeliverEdit, AppFault, AppSyncFails, AppSyncStep, StartAppSync, SyncDNSAliases, ListAliases,
      DeleteAlias, UpdateAlias, CreateAlias, SyncAppStatus, envObjects
  <2> QED BY <1>3, <2>1, <1>2
<1> QED BY <1>6, <1>7

(* The steps of one environment. *)
OfEnvironment(f) ==
  \/ EnvEvent(f) \/ EnvSyncStep(f) \/ EnvFault(f) \/ Kubernetes(f)
  \/ Deletion("cron", f) \/ Deletion("user", f)

(* Which are its Sync, the events that it gets, and its deletion. *)
LEMMA EnvCases ==
  ASSUME NEW f \in Envs, OfEnvironment(f)
  PROVE  /\ UNCHANGED <<ra, raStream, raSeen, born>>
         /\ \/ /\ UNCHANGED <<re, reSeen, envSync>>
               /\ envPending \subseteq envPending' /\ misled \subseteq misled'
            \/ DeliverEnvironment(f)
            \/ StartEnvSync(f) \/ LookUpApplication(f) \/ SyncEnvStatus(f) \/ EnvSyncFails(f)
            \/ PutNamespace(f) \/ ApplyRoles(f) \/ ApplyEgress(f)
            \/ \E who \in {"cron", "user"} : DeleteEnvironment(who, f)
<1>1. CASE EnvEvent(f)
  BY <1>1 DEF EnvEvent, DeliverEnvironment, DeliverRoles, DeliverNamespaceGone, told, caches, envRest
<1>2. CASE EnvSyncStep(f)
  BY <1>2 DEF EnvSyncStep, StartEnvSync, LookUpApplication, PutNamespace, ApplyRoles, ApplyEgress, SyncEnvStatus,
    told, envRest
<1>3. CASE EnvFault(f)
  BY <1>3 DEF EnvFault, EnvSyncFails, UserDeletes, DeleteNamespace, Terminate, told, caches, envRest
<1>4. CASE Kubernetes(f)
  <2>1. /\ CollectNamespace(f) \/ CollectRoles(f) \/ RemoveNamespace(f) \/ EmptyNamespace(f)
        /\ UNCHANGED ra
    BY <1>4 DEF Kubernetes, envRest
  <2> QED BY <2>1 DEF CollectNamespace, CollectRoles, RemoveNamespace, EmptyNamespace, Terminate, told, caches
<1>5. CASE Deletion("cron", f) \/ Deletion("user", f)
  BY <1>5 DEF Deletion, DeleteEnvironment, told, envRest
<1> QED BY <1>1, <1>2, <1>3, <1>4, <1>5 DEF OfEnvironment

LEMMA Failed ==
  ASSUME envSync \in [Envs -> EnvSyncs], NEW f \in Envs, Fail(f)
  PROVE  envSync'[f].pc = "status" /\ envSync'[f].failed = TRUE /\ envSync'[f].found = envSync[f].found
<1> DEFINE moved == [envSync EXCEPT ![f].pc = "status"]
<1>1. moved \in [Envs -> EnvSyncs] /\ moved[f].pc = "status" /\ moved[f].found = envSync[f].found
  BY DEF EnvSyncs
<1>2. envSync' = [moved EXCEPT ![f].failed = TRUE]
  BY DEF Fail
<1> HIDE DEF moved
<1> QED BY <1>1, <1>2 DEF EnvSyncs

LEMMA EnvFlagSteps ==
  ASSUME IInv, ChainInv, UidInv, FlagInv, NEW f \in Envs, OfEnvironment(f)
  PROVE  ChainInv' /\ UidInv' /\ FlagInv'
<1>0. /\ re \in [Envs -> EnvRecords] /\ reSeen \in [Envs -> EnvRecords] /\ born \in [Envs -> Nat]
      /\ envSync \in [Envs -> EnvSyncs] /\ clock \in Nat
  BY DEF IInv, EnvTyped
<1>1. UNCHANGED <<ra, raStream, raSeen, born>>
  BY EnvCases
<1>2. ChainInv'
  BY <1>1 DEF ChainInv
<1>3. ASSUME UNCHANGED <<re, reSeen, envSync>>, envPending \subseteq envPending', misled \subseteq misled'
      PROVE  UidInv' /\ FlagInv'
  <2>1. \A e \in Envs : FlagAt(e)'
    BY <1>1, <1>3, FlagKept DEF FlagInv, KeptFor
  <2> QED BY <1>1, <1>3, <2>1 DEF FlagInv, UidInv
<1>4. ASSUME \A e \in Envs \ {f} : KeptFor(e),
             re'[f].uid <= born[f], reSeen'[f].uid <= born[f], FlagAt(f)'
      PROVE  UidInv' /\ FlagInv'
  <2>1. \A e \in Envs \ {f} : FlagAt(e)'
    BY <1>4, FlagKept DEF FlagInv
  <2>2. \A e \in Envs : re'[e].uid <= born[e] /\ reSeen'[e].uid <= born[e]
    BY <1>4 DEF UidInv, KeptFor
  <2> QED BY <1>1, <1>4, <2>1, <2>2 DEF FlagInv, UidInv
<1>5. CASE DeliverEnvironment(f)
  <2>1. \A e \in Envs \ {f} : KeptFor(e)
    BY <1>0, <1>1, <1>5 DEF DeliverEnvironment, KeptFor
  <2>2. /\ reSeen'[f] = re[f] /\ re' = re
        /\ re[f].uid # reSeen[f].uid /\ re[f].uid # 0 => f \in envPending'
    BY <1>0, <1>5 DEF DeliverEnvironment, NotifiedOfEnvironment
  <2>3. FlagAt(f)'
    <3>1. CASE re[f].uid # reSeen[f].uid
      BY <2>2, <3>1 DEF FlagAt, Exists
    <3>2. CASE re[f].uid = reSeen[f].uid
      <4>1. UNCHANGED <<envSync, misled>> /\ envPending \subseteq envPending' /\ UNCHANGED <<re, raSeen, raStream, ra>>
        BY <1>1, <1>5 DEF DeliverEnvironment
      <4>2. Flagged(f)' = Flagged(f) /\ Exists(f)' = Exists(f) /\ News(f, raSeen, raStream)' = News(f, raSeen, raStream)
        BY <4>1, Zenon DEF Flagged, At, Configured, Exists
      <4> QED BY <3>2, <4>1, <4>2 DEF FlagInv, FlagAt
    <3> QED BY <3>1, <3>2
  <2> QED BY <1>2, <1>4, <2>1, <2>2, <2>3 DEF UidInv
<1>6. ASSUME UNCHANGED <<re, reSeen>>, \A e \in Envs \ {f} : KeptFor(e), FlagAt(f)'
      PROVE  UidInv' /\ FlagInv'
  BY <1>4, <1>6 DEF UidInv
<1>7. CASE StartEnvSync(f)
  <2>1. UNCHANGED <<re, reSeen>> /\ \A e \in Envs \ {f} : KeptFor(e)
    BY <1>0, <1>1, <1>7 DEF StartEnvSync, caches, KeptFor
  <2>2. Exists(f) => envSync'[f].pc = "lookup"
    BY <1>0, <1>7 DEF StartEnvSync, EnvSyncs
  <2>3. FlagAt(f)'
    BY <2>1, <2>2 DEF FlagAt, Exists, Flagged, At
  <2> QED BY <1>2, <1>6, <2>1, <2>3
<1>8. CASE LookUpApplication(f)
  <2>1. UNCHANGED <<re, reSeen>> /\ \A e \in Envs \ {f} : KeptFor(e)
    BY <1>0, <1>1, <1>8 DEF LookUpApplication, Goto, caches, KeptFor
  <2>2. f \in misled' \/ (envSync'[f].pc = "namespace" /\ envSync'[f].found = Configured(f))
    BY <1>0, <1>8 DEF LookUpApplication, EnvSyncs
  <2>3. Configured(f)' = Configured(f)
    BY <1>1 DEF Configured
  <2>4. FlagAt(f)'
    BY <2>2, <2>3 DEF FlagAt, Flagged, At
  <2> QED BY <1>2, <1>6, <2>1, <2>4
<1>9. CASE PutNamespace(f) \/ ApplyRoles(f) \/ ApplyEgress(f)
  <2>1. UNCHANGED <<re, reSeen, misled, envPending>>
    BY <1>9 DEF PutNamespace, ApplyRoles, ApplyEgress, caches
  <2>2. \A e \in Envs \ {f} : KeptFor(e)
    BY <1>0, <1>1, <1>9, <2>1 DEF PutNamespace, ApplyRoles, ApplyEgress, Goto, Fail, KeptFor
  <2>3. /\ ~At(f, "idle") /\ ~At(f, "lookup") /\ envSync'[f].pc \notin {"idle", "lookup"}
        /\ envSync'[f].found = envSync[f].found /\ envSync'[f].failed \in {envSync[f].failed, TRUE}
    <3>1. \/ \E pc \in {"roles", "egress", "status"} : Goto(f, pc)
          \/ Fail(f)
      BY <1>9 DEF PutNamespace, ApplyRoles, ApplyEgress
    <3>2. ~At(f, "idle") /\ ~At(f, "lookup")
      BY <1>9 DEF PutNamespace, ApplyRoles, ApplyEgress, At
    <3>3. CASE Fail(f)
      BY <1>0, <3>2, <3>3, Failed
    <3>4. ASSUME NEW pc \in {"roles", "egress", "status"}, Goto(f, pc)
          PROVE  /\ envSync'[f].pc = pc /\ envSync'[f].found = envSync[f].found
                 /\ envSync'[f].failed = envSync[f].failed
      BY <1>0, <3>4 DEF Goto, EnvSyncs
    <3> QED BY <3>1, <3>2, <3>3, <3>4
  <2>4. Flagged(f) => Flagged(f)'
    <3>1. Configured(f)' = Configured(f)
      BY <1>1 DEF Configured
    <3> QED BY <2>3, <3>1 DEF Flagged, At
  <2>5. Exists(f)' = Exists(f) /\ News(f, raSeen, raStream)' = News(f, raSeen, raStream)
    BY <1>1, <2>1 DEF Exists
  <2>6. FlagAt(f)'
    BY <2>1, <2>4, <2>5 DEF FlagInv, FlagAt
  <2> QED BY <1>2, <1>6, <2>1, <2>2, <2>6
<1>10. CASE EnvSyncFails(f)
  <2>1. UNCHANGED <<re, reSeen>>
    BY <1>10 DEF EnvSyncFails, caches
  <2>2. \A e \in Envs \ {f} : KeptFor(e)
    BY <1>0, <1>1, <1>10 DEF EnvSyncFails, Fail, EnvRequeue, caches, KeptFor
  <2>3. f \in envPending' \/ (envSync'[f].pc = "status" /\ envSync'[f].failed)
    <3>1. CASE Fail(f)
      BY <1>0, <3>1, Failed
    <3>2. CASE EnvRequeue(f)
      BY <3>2 DEF EnvRequeue
    <3> QED BY <1>10, <3>1, <3>2 DEF EnvSyncFails
  <2>4. FlagAt(f)'
    BY <2>3 DEF FlagAt, Flagged, At
  <2> QED BY <1>2, <1>6, <2>1, <2>2, <2>4
<1>11. CASE SyncEnvStatus(f)
  <2> DEFINE own == envSync[f].own
  <2>0. own \in EnvRecords /\ Status(own, envSync[f].found).uid = own.uid
    BY <1>0 DEF EnvSyncs, EnvRecords, Status
  <2>1. UNCHANGED reSeen /\ \A e \in Envs \ {f} : KeptFor(e)
    BY <1>0, <1>1, <1>11 DEF SyncEnvStatus, EnvRequeue, caches, KeptFor
  <2>2. re'[f].uid = re[f].uid
    BY <1>0, <1>11, <2>0 DEF SyncEnvStatus
  <2>3. FlagAt(f)'
    <3>1. CASE f \in envPending'
      BY <3>1 DEF FlagAt
    <3>2. CASE f \notin envPending'
      <4>1. /\ re[f] = own /\ re'[f] = Status(own, envSync[f].found) /\ ~envSync[f].failed
            /\ envSync'[f] = EnvIdle /\ UNCHANGED <<envPending, misled>>
        BY <1>0, <1>11, <3>2 DEF SyncEnvStatus, EnvRequeue
      <4>2. Exists(f)' = Exists(f) /\ News(f, raSeen, raStream)' = News(f, raSeen, raStream)
        BY <1>1, <2>2 DEF Exists
      <4>3. Configured(f)' = Configured(f) /\ At(f, "status")
        BY <1>1, <1>11 DEF Configured, SyncEnvStatus
      <4>4. Flagged(f) => Flagged(f)'
        <5> SUFFICES ASSUME Flagged(f) PROVE Flagged(f)'
          OBVIOUS
        <5>1. envSync[f].found = Configured(f)
          BY <4>1, <4>3 DEF Flagged, At
        <5>2. /\ re'[f].orphaned = ~envSync[f].found
              /\ (re'[f].since # Never) = ~envSync[f].found
          BY <1>0, <2>0, <4>1 DEF Status, EnvRecords, EnvSyncs, Never
        <5>3. envSync'[f].pc = "idle"
          BY <4>1 DEF EnvIdle
        <5> QED BY <4>3, <5>1, <5>2, <5>3 DEF Flagged, At
      <4> QED BY <2>1, <2>2, <3>2, <4>1, <4>2, <4>4 DEF FlagInv, FlagAt
    <3> QED BY <3>1, <3>2
  <2> QED BY <1>2, <1>4, <2>1, <2>2, <2>3 DEF UidInv
<1>12. ASSUME NEW who \in {"cron", "user"}, DeleteEnvironment(who, f) PROVE UidInv' /\ FlagInv'
  <2>1. UNCHANGED <<reSeen, envSync, envPending, misled>> /\ (re' = [re EXCEPT ![f] = NoRE] \/ UNCHANGED re)
    BY <1>12 DEF DeleteEnvironment, caches
  <2>2. CASE UNCHANGED re
    BY <1>3, <2>1, <2>2
  <2>3. CASE re' = [re EXCEPT ![f] = NoRE]
    <3>1. re'[f].uid = 0 /\ \A e \in Envs \ {f} : KeptFor(e)
      BY <1>0, <1>1, <2>1, <2>3 DEF NoRE, KeptFor
    <3>2. FlagAt(f)'
      BY <3>1 DEF FlagAt, Exists
    <3> QED BY <1>0, <1>4, <2>1, <3>1, <3>2 DEF UidInv
  <2> QED BY <2>1, <2>2, <2>3
<1> QED BY <1>2, <1>3, <1>5, <1>7, <1>8, <1>9, <1>10, <1>11, <1>12, EnvCases

AppFlagInv == ChainInv /\ UidInv /\ FlagInv

(* The steps of the aliases and of the clean-up, and time. *)
LEMMA OtherFlagSteps ==
  ASSUME AppFlagInv, UNCHANGED <<ra, raStream, raSeen, re, reSeen, born, envSync, envPending, misled>>
  PROVE  AppFlagInv'
<1>1. \A e \in Envs : FlagAt(e)'
  BY FlagKept DEF AppFlagInv, FlagInv, KeptFor
<1> QED BY <1>1 DEF AppFlagInv, ChainInv, UidInv, FlagInv

LEMMA FlagStep == IInv /\ AppFlagInv /\ Next => AppFlagInv'
<1> SUFFICES ASSUME IInv, AppFlagInv, Next PROVE AppFlagInv'
  OBVIOUS
<1>0. ChainInv /\ UidInv /\ FlagInv
  BY DEF AppFlagInv
<1>1. CASE ApplyConfig \/ RemoveConfig
  <2>1. UidInv'
    BY <1>0, <1>1 DEF UidInv, ApplyConfig, RemoveConfig, envObjects, envOwn, caches
  <2> QED BY <1>0, <1>1, <2>1, ConfigFlag DEF AppFlagInv
<1>2. CASE AppEvent \/ AppSyncStep \/ AppFault
  BY <1>0, <1>2, AppFlagSteps DEF AppFlagInv
<1>3. CASE ApplicationEvent
  <2>1. UidInv'
    BY <1>0, <1>3 DEF UidInv, ApplicationEvent, DeliverApplication, caches
  <2> QED BY <1>0, <1>3, <2>1, DeliveryFlag DEF AppFlagInv
<1>4. ASSUME NEW f \in Envs, OfEnvironment(f) PROVE AppFlagInv'
  BY <1>0, <1>4, EnvFlagSteps DEF AppFlagInv
<1>5. CASE CleanUpRun \/ Clock
  <2>1. UNCHANGED <<ra, raStream, raSeen, re, reSeen, born, envSync, envPending, misled>>
    BY <1>5 DEF CleanUpRun, Clock, CleanUp, Tick, envRest, told, caches
  <2> QED BY <2>1, OtherFlagSteps
<1>6. CASE \/ AliasEvent \/ AliasEventLost \/ RouteEvent
           \/ \E f \in Envs : Deployments(f) \/ Pipelines(f)
           \/ \E a \in Aliases : AliasSyncStep(a) \/ AliasFault(a)
  <2>1. UNCHANGED aliasRest
    BY <1>6 DEF AliasEvent, AliasEventLost, RouteEvent, Deployments, Pipelines, AliasSyncStep, AliasFault
  <2>2. UNCHANGED <<ra, raStream, raSeen, re, reSeen, born, envSync, envPending, misled>>
    BY <2>1 DEF aliasRest, envVars, told, caches
  <2> QED BY <2>2, OtherFlagSteps
<1>7. CASE Crash
  <2>1. /\ UNCHANGED <<ra, re, born, misled>> /\ reSeen' = re /\ raSeen' = ra /\ raStream' = <<>>
        /\ envPending' = {e \in Envs : Exists(e)}
    BY <1>7 DEF Crash, EnvCrash
  <2>2. \A e \in Envs : FlagAt(e)'
    BY <2>1 DEF FlagAt, Exists
  <2> QED BY <1>0, <2>1, <2>2 DEF AppFlagInv, ChainInv, UidInv, FlagInv
<1> QED BY <1>1, <1>2, <1>3, <1>4, <1>5, <1>6, <1>7 DEF Next, OfEnvironment

LEMMA FlagStutter == AppFlagInv /\ UNCHANGED vars => AppFlagInv'
<1> SUFFICES ASSUME AppFlagInv, UNCHANGED vars PROVE AppFlagInv'
  OBVIOUS
<1>1. UNCHANGED <<ra, raStream, raSeen, re, reSeen, born, envSync, envPending, misled>>
  BY DEF vars, appVars, envVars, told, caches
<1> QED BY <1>1, OtherFlagSteps

LEMMA FlagStart == Init => AppFlagInv
<1> SUFFICES ASSUME Init PROVE AppFlagInv
  OBVIOUS
<1>1. PICK start \in Starts : ConfigInit(start) /\ EnvInit
  BY DEF Init
<1>2. IInv
  BY InitTypes
<1>3. ChainInv
  BY <1>1 DEF ConfigInit, EnvInit, ChainInv
<1>4. UidInv
  <2>1. \A e \in Envs : re[e].uid \in Nat /\ reSeen = re /\ born[e] = re[e].uid
    BY <1>1, <1>2 DEF EnvInit, IInv, EnvTyped, EnvRecords
  <2> QED BY <2>1 DEF UidInv
<1>5. ASSUME NEW e \in Envs, Exists(e) PROVE Flagged(e)
  <2>1. Configured(e) /\ re[e].orphaned = FALSE /\ re[e].since = Never
    BY <1>1, <1>5 DEF EnvInit, Exists, NoRE
  <2>2. At(e, "idle")
    BY <1>1 DEF EnvInit, EnvIdle, At
  <2> QED BY <2>1, <2>2 DEF Flagged
<1> QED BY <1>3, <1>4, <1>5 DEF AppFlagInv, FlagInv, FlagAt

LEMMA FlagsFollow == Spec => []AppFlagInv
<1>1. Init => AppFlagInv
  BY FlagStart
<1>2. IInv /\ AppFlagInv /\ [Next]_vars => AppFlagInv'
  BY FlagStep, FlagStutter
<1> QED BY <1>1, <1>2, Inductive, PTL DEF Spec

(* Once its Sync is done, and with no event on its way, a RadixEnvironment is flagged as
   orphaned exactly when the RadixApplication does not have it, whatever edits, deletions,
   failures and restarts came before.  environment/status.go, the UpdateFunc and the
   DeleteFunc of operator/environment/controller.go. *)
THEOREM FlagsAreTrue == Spec => []FlagIsTrue
<1>1. AppFlagInv => FlagIsTrue
  <2> SUFFICES ASSUME AppFlagInv, NEW e \in Envs, Exists(e), EnvQuiet(e), e \notin misled
               PROVE  /\ re[e].orphaned = ~Configured(e)
                      /\ (re[e].since # Never) = re[e].orphaned
    BY DEF FlagIsTrue
  <2>1. raStream = <<>> /\ reSeen[e] = re[e] /\ e \notin envPending /\ At(e, "idle")
    BY DEF EnvQuiet
  <2>2. ~News(e, raSeen, raStream)
    BY <2>1 DEF News
  <2>3. Flagged(e)
    BY <2>1, <2>2 DEF AppFlagInv, FlagInv, FlagAt
  <2> QED BY <2>1, <2>3 DEF Flagged, At
<1> QED BY <1>1, FlagsFollow, PTL

-----------------------------------------------------------------------------
(* The RadixApplication is what the cluster has *)

(* The RadixApplication's own controller has something to hear of, or nothing to do. *)
Awaited == raEdited \/ appPending \/ ~ra.exists

EnvApplied(e) == Configured(e) /\ e \notin lost => re[e].egress = ra.config.env[e]

AliasApplied(a) ==
  /\ Own(a) => alias[a].target = ra.config.alias[a]
  /\ ~Own(a) => ra.config.alias[a] = NoTarget

(* An alias is as the Sync wants it, or the Sync has it on its list. *)
AliasDone(a) ==
  LET wanted == appSync.config.alias[a]
      work == appSync.work IN
  /\ Own(a) => alias[a].target = wanted \/ a \in work.delete \cup work.update
  /\ ~Own(a) => wanted = NoTarget \/ a \in work.create
  /\ a \in work.update => alias[a].target.env = wanted.env
  /\ a \in work.delete => wanted = NoTarget \/ a \in work.create

WorkInv ==
  /\ \A e \in appSync.envs : appSync.config.env[e] # NoEnv
  /\ AppAt("aliases") => appSync.envs = {} /\ \A a \in Aliases : AliasDone(a)

(* The environments that the Sync is done with are as the RadixApplication has them, and
   the one that it is about to update is there, or was deleted under way. *)
EnvsDone ==
  /\ \A e \in Envs \ appSync.envs : EnvApplied(e)
  /\ appSync.pc \in {"update", "reload"} => \A e \in First(appSync.envs) : Exists(e) \/ e \in lost

Applied == (\A e \in Envs : EnvApplied(e)) /\ (\A a \in Aliases : AliasApplied(a))

ApplyInv ==
  \/ Awaited
  \/ AppAt("idle") /\ Applied
  \/ ~AppAt("idle") /\ (appSync.config = ra.config => EnvsDone)

ConfigInv == WorkInv /\ ApplyInv

(* Nothing happens to e that the Sync would have to make good. *)
SpecKept(e) ==
  \/ re'[e].egress = re[e].egress /\ re'[e].uid = re[e].uid /\ (e \in lost => e \in lost')
  \/ Configured(e) => e \in lost'

LEMMA FirstOfAll ==
  ASSUME NEW envs, NEW e \in First(envs)
  PROVE  e \in envs /\ \A f \in First(envs) : f = e
<1>0. EnvSeq \in Seq(Envs)
  BY AppConfigAssumption
<1>1. Len(EnvSeq) \in Nat /\ DOMAIN EnvSeq = 1..Len(EnvSeq)
  BY <1>0, LenProperties
<1>2. PICK i \in DOMAIN EnvSeq : e = EnvSeq[i] /\ EnvSeq[i] \in envs /\ \A n \in 1..(i - 1) : EnvSeq[n] \notin envs
  BY DEF First
<1>3. ASSUME NEW f \in First(envs) PROVE f = e
  <2>1. PICK k \in DOMAIN EnvSeq : f = EnvSeq[k] /\ EnvSeq[k] \in envs /\ \A n \in 1..(k - 1) : EnvSeq[n] \notin envs
    BY DEF First
  <2>2. ~(i < k) /\ ~(k < i)
    BY <1>1, <1>2, <2>1
  <2> QED BY <1>1, <1>2, <2>1, <2>2
<1> QED BY <1>2, <1>3

LEMMA BlankWork == ASSUME appSync' = AppIdle PROVE WorkInv' /\ AppAt("idle")'
BY DEF AppIdle, WorkInv, AppAt

LEMMA ApplyKept ==
  ASSUME IInv, ConfigInv, UNCHANGED <<ra, raEdited, appCtl>>, \A e \in Envs : SpecKept(e),
         \A a \in Aliases : alias'[a] = alias[a] \/ (~Own(a) /\ ~Own(a)')
  PROVE  ConfigInv'
<1>1. UNCHANGED <<ra, raEdited, appPending, appSync>>
  BY DEF appCtl
<1>2. \A e \in Envs : Configured(e)' = Configured(e) /\ (EnvApplied(e) => EnvApplied(e)')
  <2>1. \A e \in Envs : Configured(e)' = Configured(e)
    BY <1>1 DEF Configured
  <2> QED BY <1>1, <2>1 DEF EnvApplied, SpecKept
<1>3. ASSUME NEW a \in Aliases
      PROVE  (AliasDone(a) => AliasDone(a)') /\ (AliasApplied(a) => AliasApplied(a)')
  <2>1. a \in appSync.work.delete \cup appSync.work.update => Own(a)
    BY DEF IInv, WorkIsOwn
  <2>2. CASE alias'[a] = alias[a]
    BY <1>1, <2>2 DEF AliasDone, AliasApplied, Own
  <2>3. CASE ~Own(a) /\ ~Own(a)'
    BY <1>1, <2>1, <2>3 DEF AliasDone, AliasApplied
  <2> QED BY <2>2, <2>3
<1>4. WorkInv'
  BY <1>1, <1>3 DEF ConfigInv, WorkInv, AppAt
<1>5. ASSUME ~Awaited, EnvsDone, appSync.config = ra.config PROVE EnvsDone'
  <2>1. ASSUME NEW e \in First(appSync.envs), Exists(e) \/ e \in lost PROVE Exists(e)' \/ e \in lost'
    <3>1. e \in Envs /\ e \in appSync.envs
      BY FirstOfAll, FirstIsEnv
    <3>2. Configured(e)
      BY <1>5, <3>1 DEF Awaited, Configured, ConfigInv, WorkInv
    <3> QED BY <2>1, <3>1, <3>2 DEF SpecKept, Exists
  <2> QED BY <1>1, <1>2, <1>5, <2>1 DEF EnvsDone
<1>6. ApplyInv'
  <2>1. CASE Awaited
    BY <1>1, <2>1 DEF ApplyInv, Awaited
  <2>2. CASE AppAt("idle") /\ Applied
    BY <1>1, <1>2, <1>3, <2>2 DEF ApplyInv, Applied, AppAt
  <2>3. CASE ~Awaited /\ ~AppAt("idle") /\ (appSync.config = ra.config => EnvsDone)
    BY <1>1, <1>5, <2>3 DEF ApplyInv, AppAt
  <2> QED BY <2>1, <2>2, <2>3 DEF ConfigInv, ApplyInv
<1> QED BY <1>4, <1>6 DEF ConfigInv

(* The Sync moves on among the environments. *)
LEMMA SyncMovesOn ==
  ASSUME EnvTyped, AppTyped, NEW e \in Envs
  PROVE  /\ NextEnv(e) => /\ appSync'.pc = "get" /\ appSync'.envs = appSync.envs \ {e}
                          /\ appSync'.config = appSync.config
         /\ \A pc \in {"create", "reload"} :
              Continue(pc) => /\ appSync'.pc = pc /\ appSync'.envs = appSync.envs
                              /\ appSync'.config = appSync.config
         /\ \A n \in 0..MaxAttempts :
              LET s == [appSync EXCEPT !.pc = "update", !.old = re[e], !.tries = n] IN
              s.pc = "update" /\ s.envs = appSync.envs /\ s.config = appSync.config
<1>1. re[e] \in EnvRecords /\ appSync \in AppSyncs
  BY DEF EnvTyped, AppTyped
<1>2. ASSUME NextEnv(e)
      PROVE  appSync'.pc = "get" /\ appSync'.envs = appSync.envs \ {e} /\ appSync'.config = appSync.config
  BY <1>1, <1>2 DEF NextEnv, AppSyncs
<1>3. ASSUME NEW pc \in {"create", "reload"}, Continue(pc)
      PROVE  appSync'.pc = pc /\ appSync'.envs = appSync.envs /\ appSync'.config = appSync.config
  BY <1>1, <1>3 DEF Continue, AppSyncs
<1>4. ASSUME NEW n \in 0..MaxAttempts
      PROVE  LET s == [appSync EXCEPT !.pc = "update", !.old = re[e], !.tries = n] IN
             s.pc = "update" /\ s.envs = appSync.envs /\ s.config = appSync.config
  BY <1>1 DEF AppSyncs
<1> QED BY <1>2, <1>3, <1>4

(* What syncEnvironment leads to. *)
LEMMA EnvironmentOutcome ==
  ASSUME IInv, NEW e \in Envs, e \in First(appSync.envs), UNCHANGED <<ra, raEdited>>,
         GetEnvironment(e) \/ CreateEnvironment(e) \/ UpdateEnvironment(e) \/ ReloadEnvironment(e)
  PROVE  \/ AppRequeue
         \/ /\ appSync'.pc = "get" /\ appSync'.envs = appSync.envs \ {e} /\ appSync'.config = appSync.config
            /\ UNCHANGED appPending
            /\ re'[e].egress = Wanted(e) \/ (~Exists(e) /\ AppAt("reload") /\ UNCHANGED <<re, lost>>)
            /\ \A f \in Envs \ {e} : re'[f] = re[f] /\ (f \in lost' <=> f \in lost)
         \/ /\ appSync'.pc \in {"create", "update", "reload"} /\ appSync'.envs = appSync.envs
            /\ appSync'.config = appSync.config
            /\ UNCHANGED <<appPending, re, lost>>
            /\ appSync'.pc = "create" \/ Exists(e)
<1>0. re \in [Envs -> EnvRecords] /\ EnvTyped /\ AppTyped /\ TriesLeft
  BY DEF IInv, EnvTyped
<1>1. CASE GetEnvironment(e)
  <2>1. UNCHANGED <<re, lost>>
    BY <1>1 DEF GetEnvironment, envObjects
  <2>2. 1 \in 0..MaxAttempts
    BY Constants
  <2>3. CASE Continue("create")
    BY <2>1, <2>3, <1>0, SyncMovesOn DEF Continue
  <2>4. CASE NextEnv(e) /\ re[e].egress = Wanted(e)
    BY <2>1, <2>4, <1>0, SyncMovesOn DEF NextEnv
  <2>5. CASE Exists(e) /\ appSync' = [appSync EXCEPT !.pc = "update", !.old = re[e], !.tries = 1] /\ UNCHANGED appPending
    BY <2>1, <2>2, <2>5, <1>0, SyncMovesOn
  <2> QED BY <1>1, <2>3, <2>4, <2>5 DEF GetEnvironment
<1>2. CASE CreateEnvironment(e)
  <2>1. CASE AppRequeue
    BY <2>1
  <2>2. CASE ~Exists(e)
    <3>1. /\ re' = [re EXCEPT ![e] = [NoRE EXCEPT !.uid = born[e] + 1, !.egress = Wanted(e)]]
          /\ lost' = lost \ {e} /\ NextEnv(e)
      BY <1>2, <2>2 DEF CreateEnvironment
    <3>2. re'[e].egress = Wanted(e) /\ \A f \in Envs \ {e} : re'[f] = re[f]
      BY <1>0, <3>1 DEF NoRE
    <3> QED BY <3>1, <3>2, <1>0, SyncMovesOn DEF NextEnv
  <2> QED BY <1>2, <2>1, <2>2 DEF CreateEnvironment
<1>3. CASE UpdateEnvironment(e)
  <2>1. CASE re[e] = appSync.old
    <3>1. re' = [re EXCEPT ![e].egress = Wanted(e)] /\ NextEnv(e) /\ UNCHANGED lost
      BY <1>3, <2>1 DEF UpdateEnvironment
    <3>2. re'[e].egress = Wanted(e) /\ \A f \in Envs \ {e} : re'[f] = re[f]
      BY <1>0, <3>1 DEF EnvRecords
    <3> QED BY <3>1, <3>2, <1>0, SyncMovesOn DEF NextEnv
  <2>2. CASE Exists(e) /\ Continue("reload") /\ UNCHANGED <<re, lost>>
    BY <2>2, <1>0, SyncMovesOn DEF Continue
  <2>3. CASE AppRequeue
    BY <2>3
  <2> QED BY <1>3, <2>1, <2>2, <2>3 DEF UpdateEnvironment
<1>4. CASE ReloadEnvironment(e)
  <2>1. UNCHANGED <<re, lost>> /\ AppAt("reload")
    BY <1>4 DEF ReloadEnvironment, envObjects
  <2>2. CASE NextEnv(e) /\ (~Exists(e) \/ re[e].egress = Wanted(e))
    BY <2>1, <2>2, <1>0, SyncMovesOn DEF NextEnv
  <2>3. CASE /\ Exists(e) /\ UNCHANGED appPending
             /\ appSync' = [appSync EXCEPT !.pc = "update", !.old = re[e], !.tries = @ + 1]
    <3>1. appSync.tries + 1 \in 0..MaxAttempts
      BY <1>0, <2>1, SyncParts, Constants DEF TriesLeft, AppAt
    <3> QED BY <2>1, <2>3, <3>1, <1>0, SyncMovesOn
  <2> QED BY <1>4, <2>2, <2>3 DEF ReloadEnvironment
<1> QED BY <1>1, <1>2, <1>3, <1>4

LEMMA RequeueApplied == ASSUME AppRequeue PROVE ConfigInv'
<1>1. WorkInv'
  BY BlankWork DEF AppRequeue
<1>2. Awaited'
  BY DEF AppRequeue, Awaited
<1> QED BY <1>1, <1>2 DEF ConfigInv, ApplyInv

LEMMA EnvironmentsApplied ==
  ASSUME IInv, ConfigInv, SyncEnvironments, UNCHANGED <<ra, raEdited>>
  PROVE  ConfigInv'
<1>0. PICK e \in First(appSync.envs) :
        GetEnvironment(e) \/ CreateEnvironment(e) \/ UpdateEnvironment(e) \/ ReloadEnvironment(e)
  BY DEF SyncEnvironments
<1>1. /\ e \in Envs /\ e \in appSync.envs /\ \A f \in First(appSync.envs) : f = e
      /\ ~AppAt("idle")
  BY <1>0, FirstOfAll, FirstIsEnv DEF GetEnvironment, CreateEnvironment, UpdateEnvironment, ReloadEnvironment, AppAt
<1>2. ASSUME ~AppRequeue PROVE WorkInv' /\ ~AppAt("idle")'
  <2>1. appSync'.pc \in {"get", "create", "update", "reload"} /\ appSync'.envs \subseteq appSync.envs
        /\ appSync'.config = appSync.config
    BY <1>0, <1>1, <1>2, EnvironmentOutcome
  <2> QED BY <2>1 DEF ConfigInv, WorkInv, AppAt
<1>3. ASSUME ~AppRequeue, ~Awaited', appSync'.config = ra'.config PROVE EnvsDone'
  <2>1. appSync.config = ra.config /\ UNCHANGED <<ra, raEdited, appPending>>
    BY <1>0, <1>1, <1>3, EnvironmentOutcome
  <2>2. EnvsDone /\ ra.exists
    BY <1>1, <1>3, <2>1 DEF Awaited, ConfigInv, ApplyInv
  <2>3. \A f \in Envs : Configured(f)' = Configured(f)
    BY <2>1 DEF Configured
  <2>4. CASE /\ appSync'.pc = "get" /\ appSync'.envs = appSync.envs \ {e}
             /\ re'[e].egress = Wanted(e) \/ (~Exists(e) /\ AppAt("reload") /\ UNCHANGED <<re, lost>>)
             /\ \A f \in Envs \ {e} : re'[f] = re[f] /\ (f \in lost' <=> f \in lost)
    <3>1. EnvApplied(e)'
      <4>1. CASE re'[e].egress = Wanted(e)
        BY <2>1, <4>1 DEF EnvApplied, Wanted
      <4>2. CASE ~Exists(e) /\ AppAt("reload") /\ UNCHANGED <<re, lost>>
        <5>1. e \in lost
          BY <1>0, <2>2, <4>2 DEF EnvsDone, AppAt
        <5> QED BY <4>2, <5>1 DEF EnvApplied
      <4> QED BY <2>4, <4>1, <4>2
    <3>2. \A f \in Envs \ {e} : EnvApplied(f) => EnvApplied(f)'
      BY <2>1, <2>3, <2>4 DEF EnvApplied
    <3> QED BY <1>1, <2>2, <2>4, <3>1, <3>2 DEF EnvsDone
  <2>5. CASE /\ appSync'.pc \in {"create", "update", "reload"} /\ appSync'.envs = appSync.envs
             /\ UNCHANGED <<re, lost>>
             /\ appSync'.pc = "create" \/ Exists(e)
    <3>1. \A f \in Envs : EnvApplied(f) => EnvApplied(f)'
      BY <2>1, <2>3, <2>5 DEF EnvApplied
    <3>2. Exists(e)' = Exists(e)
      BY <2>5 DEF Exists
    <3> QED BY <1>1, <2>2, <2>5, <3>1, <3>2 DEF EnvsDone
  <2> QED BY <1>0, <1>1, <1>3, <2>4, <2>5, EnvironmentOutcome
<1> QED BY <1>2, <1>3, RequeueApplied DEF ConfigInv, ApplyInv

LEMMA StartApplied ==
  ASSUME IInv, ConfigInv, StartAppSync, UNCHANGED <<ra, raEdited, re>>
  PROVE  ConfigInv'
<1> DEFINE began == [AppIdle EXCEPT !.pc = "get", !.config = ra.config, !.envs = {e \in Envs : Configured(e)}]
<1>1. began.pc = "get" /\ began.config = ra.config /\ began.envs = {e \in Envs : Configured(e)}
  BY DEF AppIdle
<1> HIDE DEF began
<1>2. CASE ra.exists
  <2>1. appSync' = began
    BY <1>2 DEF StartAppSync, began
  <2>2. WorkInv'
    BY <1>1, <2>1 DEF WorkInv, AppAt, Configured
  <2>3. \A e \in Envs \ appSync'.envs : EnvApplied(e)'
    BY <1>1, <2>1 DEF EnvApplied, Configured
  <2>4. ApplyInv'
    BY <1>1, <2>1, <2>3 DEF ApplyInv, AppAt, EnvsDone
  <2> QED BY <2>2, <2>4 DEF ConfigInv
<1>3. CASE ~ra.exists
  <2>1. appSync' = AppIdle
    BY <1>3 DEF StartAppSync
  <2>2. Awaited'
    BY <1>3 DEF Awaited
  <2> QED BY <2>1, <2>2, BlankWork DEF ConfigInv, ApplyInv
<1> QED BY <1>2, <1>3

(* The Sync does not touch the environments when it is about the aliases. *)
LEMMA EnvsStayDone ==
  ASSUME ConfigInv, appSync.envs = {}, ~AppAt("idle"), appSync'.pc = "aliases",
         appSync'.envs = {}, appSync'.config = appSync.config,
         UNCHANGED <<ra, raEdited, appPending, re, lost>>
  PROVE  ApplyInv'
<1>1. CASE Awaited
  BY <1>1 DEF Awaited, ApplyInv
<1>2. CASE appSync.config = ra.config => EnvsDone
  <2>1. \A e \in Envs : EnvApplied(e) => EnvApplied(e)'
    BY DEF EnvApplied, Configured
  <2> QED BY <1>2, <2>1 DEF ApplyInv, EnvsDone, AppAt
<1> QED BY <1>1, <1>2 DEF ConfigInv, ApplyInv

LEMMA AliasesApplied ==
  ASSUME IInv, ConfigInv, SyncDNSAliases, UNCHANGED <<ra, raEdited, re, lost>>
  PROVE  ConfigInv'
<1>0. /\ appSync \in AppSyncs /\ alias \in [Aliases -> AliasRecords]
      /\ \A b \in Aliases : appSync.config.alias[b] \in Targets \cup {NoTarget}
  BY SyncParts DEF IInv, AppTyped, AliasObjectsTyped, AppConfigs
<1>1. NoAlias.app # "own"
  BY DEF NoAlias
<1>2. CASE AppRequeue
  BY <1>2, RequeueApplied
<1>3. CASE ListAliases /\ ~AppRequeue
  <2> DEFINE work == Work(appSync.config, alias)
  <2>1. /\ appSync' = [appSync EXCEPT !.pc = "aliases", !.listed = alias, !.work = work]
        /\ UNCHANGED <<appPending, alias>> /\ appSync.envs = {} /\ AppAt("get")
    BY <1>3 DEF ListAliases, aliasObjects
  <2>2. /\ appSync'.pc = "aliases" /\ appSync'.envs = {} /\ appSync'.config = appSync.config
        /\ appSync'.work = work
    BY <1>0, <2>1 DEF AppSyncs
  <2>3. ASSUME NEW a \in Aliases PROVE AliasDone(a)'
    <3> DEFINE target == appSync.config.alias[a]
               stays == target # NoTarget /\ Own(a) /\ alias[a].target.env = target.env
    <3>1. /\ a \in work.delete <=> Own(a) /\ ~stays
          /\ a \in work.update <=> stays /\ alias[a].target # target
          /\ a \in work.create <=> target # NoTarget /\ ~stays
      BY DEF Work, Own
    <3> HIDE DEF work
    <3>2. AliasDone(a)' = /\ Own(a) => alias[a].target = target \/ a \in work.delete \cup work.update
                          /\ ~Own(a) => target = NoTarget \/ a \in work.create
                          /\ a \in work.update => alias[a].target.env = target.env
                          /\ a \in work.delete => target = NoTarget \/ a \in work.create
      BY <2>1, <2>2 DEF AliasDone, Own
    <3> QED BY <3>1, <3>2
  <2>4. WorkInv'
    BY <2>2, <2>3 DEF WorkInv, AppAt
  <2>5. ApplyInv'
    BY <2>1, <2>2, EnvsStayDone DEF AppAt
  <2> QED BY <2>4, <2>5 DEF ConfigInv
<1>4. ASSUME NEW a \in Aliases, AppAt("aliases"), appSync'.pc = "aliases", UNCHANGED appPending,
             appSync'.envs = appSync.envs, appSync'.config = appSync.config,
             \A b \in Aliases \ {a} : /\ alias'[b] = alias[b]
                                      /\ b \in appSync'.work.delete <=> b \in appSync.work.delete
                                      /\ b \in appSync'.work.update <=> b \in appSync.work.update
                                      /\ b \in appSync'.work.create <=> b \in appSync.work.create,
             AliasDone(a)'
      PROVE  ConfigInv'
  <2>1. appSync.envs = {} /\ \A b \in Aliases : AliasDone(b)
    BY <1>4 DEF ConfigInv, WorkInv
  <2>2. ASSUME NEW b \in Aliases \ {a} PROVE AliasDone(b)'
    BY <1>4, <2>1 DEF AliasDone, Own
  <2>3. WorkInv'
    BY <1>4, <2>1, <2>2 DEF WorkInv
  <2>4. ApplyInv'
    BY <1>4, <2>1, EnvsStayDone DEF AppAt
  <2> QED BY <2>3, <2>4 DEF ConfigInv
<1>5. ASSUME NEW a \in Aliases, DeleteAlias(a), ~AppRequeue PROVE ConfigInv'
  <2>1. /\ AppAt("aliases") /\ a \in appSync.work.delete
        /\ alias' = [alias EXCEPT ![a] = NoAlias]
        /\ appSync' = [appSync EXCEPT !.work.delete = @ \ {a}] /\ UNCHANGED appPending
    BY <1>5 DEF DeleteAlias
  <2>2. /\ appSync'.pc = "aliases" /\ appSync'.envs = appSync.envs /\ appSync'.config = appSync.config
        /\ appSync'.work.delete = appSync.work.delete \ {a}
        /\ appSync'.work.update = appSync.work.update /\ appSync'.work.create = appSync.work.create
    BY <1>0, <2>1 DEF AppSyncs, AppAt
  <2>3. ~Own(a)' /\ \A b \in Aliases \ {a} : alias'[b] = alias[b]
    BY <1>0, <1>1, <2>1 DEF Own
  <2>4. AliasDone(a)'
    <3>1. a \notin appSync.work.update
      BY <2>1 DEF IInv, WorkIsOwn
    <3>2. appSync.config.alias[a] = NoTarget \/ a \in appSync.work.create
      BY <2>1 DEF ConfigInv, WorkInv, AliasDone
    <3> QED BY <2>2, <2>3, <3>1, <3>2 DEF AliasDone
  <2> QED BY <1>4, <2>1, <2>2, <2>3, <2>4
<1>6. ASSUME NEW a \in Aliases, UpdateAlias(a) PROVE ConfigInv'
  <2> DEFINE wanted == appSync.config.alias[a]
             new == [alias[a].target EXCEPT !.component = wanted.component]
  <2>1. /\ AppAt("aliases") /\ a \in appSync.work.update
        /\ alias' = [alias EXCEPT ![a].target.component = wanted.component]
        /\ appSync' = [appSync EXCEPT !.work.update = @ \ {a}] /\ UNCHANGED appPending
    BY <1>6 DEF UpdateAlias
  <2>2. /\ appSync'.pc = "aliases" /\ appSync'.envs = appSync.envs /\ appSync'.config = appSync.config
        /\ appSync'.work.delete = appSync.work.delete
        /\ appSync'.work.update = appSync.work.update \ {a} /\ appSync'.work.create = appSync.work.create
    BY <1>0, <2>1 DEF AppSyncs, AppAt
  <2>3. /\ Own(a) /\ alias[a].target \in Targets /\ wanted \in Targets /\ a \notin appSync.work.delete
        /\ alias[a].target.env = wanted.env
    BY <2>1 DEF IInv, WorkIsOwn, AliasObjectsTyped, ConfigInv, WorkInv, AliasDone
  <2>4. new = wanted
    BY <2>3 DEF Targets
  <2>5. alias'[a].target = wanted /\ alias'[a].app = alias[a].app /\ \A b \in Aliases \ {a} : alias'[b] = alias[b]
    <3>1. alias[a] \in AliasRecords
      BY <1>0
    <3>2. alias' = [alias EXCEPT ![a] = [alias[a] EXCEPT !.target = new]]
      BY <1>0, <2>1
    <3> HIDE DEF new, wanted
    <3> QED BY <1>0, <2>4, <3>1, <3>2 DEF AliasRecords
  <2>6. AliasDone(a)'
    BY <2>2, <2>3, <2>5 DEF AliasDone, Own
  <2> QED BY <1>4, <2>1, <2>2, <2>5, <2>6
<1>7. ASSUME NEW a \in Aliases, CreateAlias(a), ~AppRequeue PROVE ConfigInv'
  <2> DEFINE new == [uid |-> named[a] + 1, app |-> "own", target |-> appSync.config.alias[a]]
  <2>1. /\ AppAt("aliases") /\ a \in appSync.work.create
        /\ appSync.work.delete = {} /\ appSync.work.update = {}
        /\ alias' = [alias EXCEPT ![a] = new]
        /\ appSync' = [appSync EXCEPT !.work.create = @ \ {a}] /\ UNCHANGED appPending
    BY <1>7 DEF CreateAlias
  <2>2. /\ appSync'.pc = "aliases" /\ appSync'.envs = appSync.envs /\ appSync'.config = appSync.config
        /\ appSync'.work.delete = {}
        /\ appSync'.work.update = {} /\ appSync'.work.create = appSync.work.create \ {a}
    BY <1>0, <2>1 DEF AppSyncs, AppAt
  <2>3. /\ alias'[a].target = appSync.config.alias[a] /\ alias'[a].app = "own"
        /\ \A b \in Aliases \ {a} : alias'[b] = alias[b]
    BY <1>0, <2>1
  <2>4. AliasDone(a)'
    BY <2>2, <2>3 DEF AliasDone, Own
  <2> QED BY <1>4, <2>1, <2>2, <2>3, <2>4
<1> QED BY <1>2, <1>3, <1>5, <1>6, <1>7 DEF SyncDNSAliases

(* The Sync is over when the RadixApplication is still the one that it has. *)
LEMMA StatusApplied ==
  ASSUME IInv, ConfigInv, SyncAppStatus, UNCHANGED <<ra, raEdited, re, lost>>
  PROVE  ConfigInv'
<1>1. CASE AppRequeue
  BY <1>1, RequeueApplied
<1>2. CASE AppDone /\ ra = [exists |-> TRUE, config |-> appSync.config]
  <2>1. /\ appSync' = AppIdle /\ UNCHANGED <<appPending, alias>> /\ AppAt("aliases")
        /\ appSync.work = NoWork /\ ra.config = appSync.config
    BY <1>2 DEF AppDone, SyncAppStatus, aliasObjects
  <2>2. WorkInv' /\ AppAt("idle")'
    BY <2>1, BlankWork
  <2>3. CASE Awaited
    BY <2>1, <2>2, <2>3 DEF ConfigInv, ApplyInv, Awaited
  <2>4. CASE ~Awaited
    <3>1. EnvsDone /\ appSync.envs = {} /\ \A a \in Aliases : AliasDone(a)
      BY <2>1, <2>4 DEF ConfigInv, WorkInv, ApplyInv, AppAt
    <3>2. \A e \in Envs : EnvApplied(e)'
      BY <3>1 DEF EnvsDone, EnvApplied, Configured
    <3>3. ASSUME NEW a \in Aliases PROVE AliasApplied(a)'
      <4>1. a \notin appSync.work.delete \cup appSync.work.update \cup appSync.work.create
        BY <2>1 DEF NoWork
      <4>2. AliasApplied(a)
        BY <2>1, <3>1, <4>1 DEF AliasDone, AliasApplied
      <4> QED BY <2>1, <4>2 DEF AliasApplied, Own
    <3> QED BY <2>2, <3>2, <3>3 DEF ConfigInv, ApplyInv, Applied
  <2> QED BY <2>3, <2>4
<1> QED BY <1>1, <1>2 DEF SyncAppStatus

(* The other controllers leave the specs of the RadixEnvironments alone; what they delete
   although it is configured is lost. *)
LEMMA OthersApplied ==
  ASSUME IInv, ConfigInv,
         \/ ApplicationEvent \/ CleanUpRun \/ Clock \/ AliasEvent \/ AliasEventLost \/ RouteEvent
         \/ \E e \in Envs : \/ EnvEvent(e) \/ EnvSyncStep(e) \/ EnvFault(e) \/ Kubernetes(e)
                            \/ Deletion("cron", e) \/ Deletion("user", e)
                            \/ Deployments(e) \/ Pipelines(e)
         \/ \E a \in Aliases : AliasSyncStep(a) \/ AliasFault(a)
         \/ UNCHANGED vars
  PROVE  ConfigInv'
<1>0. re \in [Envs -> EnvRecords] /\ envSync \in [Envs -> EnvSyncs] /\ alias \in [Aliases -> AliasRecords]
  BY DEF IInv, EnvTyped, AliasObjectsTyped
<1>1. ASSUME UNCHANGED <<ra, raEdited, appCtl, re, lost, alias>> PROVE ConfigInv'
  BY <1>1, ApplyKept DEF SpecKept
<1>2. CASE UNCHANGED vars
  BY <1>1, <1>2 DEF vars, appVars, envVars, aliasVars, appCtl
<1>3. CASE ApplicationEvent \/ CleanUpRun \/ Clock
  <2>1. UNCHANGED <<ra, raEdited, appCtl, re, lost, alias>>
    BY <1>3 DEF ApplicationEvent, DeliverApplication, CleanUpRun, CleanUp, Clock, Tick, envRest, aliasVars
  <2> QED BY <1>1, <2>1
<1>4. ASSUME NEW e \in Envs, EnvEvent(e) \/ EnvFault(e) \/ Kubernetes(e) PROVE ConfigInv'
  <2>1. UNCHANGED <<ra, raEdited, appCtl, re, lost, alias>>
    BY <1>4 DEF EnvEvent, DeliverEnvironment, DeliverRoles, DeliverNamespaceGone, EnvFault, EnvSyncFails,
      UserDeletes, DeleteNamespace, Terminate, Kubernetes, CollectNamespace, CollectRoles, RemoveNamespace,
      EmptyNamespace, EmptyOfRoutes, envRest, aliasVars
  <2> QED BY <1>1, <2>1
<1>5. ASSUME NEW e \in Envs, EnvSyncStep(e) PROVE ConfigInv'
  <2>1. UNCHANGED <<ra, raEdited, appCtl, lost, alias>>
    BY <1>5 DEF EnvSyncStep, envRest, aliasVars
  <2>2. CASE UNCHANGED re
    BY <1>1, <2>1, <2>2
  <2>3. CASE SyncEnvStatus(e) /\ re[e] = envSync[e].own
    <3>1. re' = [re EXCEPT ![e] = Status(envSync[e].own, envSync[e].found)]
      BY <2>3 DEF SyncEnvStatus
    <3>2. Status(re[e], envSync[e].found).uid = re[e].uid /\ Status(re[e], envSync[e].found).egress = re[e].egress
      BY <1>0 DEF Status, EnvRecords
    <3>3. re'[e].uid = re[e].uid /\ re'[e].egress = re[e].egress /\ \A f \in Envs \ {e} : re'[f] = re[f]
      BY <1>0, <2>3, <3>1, <3>2
    <3>4. \A f \in Envs : SpecKept(f)
      BY <2>1, <3>3 DEF SpecKept
    <3> QED BY <2>1, <3>4, ApplyKept
  <2>4. UNCHANGED re \/ (SyncEnvStatus(e) /\ re[e] = envSync[e].own)
    BY <1>5 DEF EnvSyncStep, StartEnvSync, LookUpApplication, PutNamespace, ApplyRoles, ApplyEgress, SyncEnvStatus
  <2> QED BY <2>2, <2>3, <2>4
<1>6. ASSUME NEW who \in {"cron", "user"}, NEW e \in Envs, Deletion(who, e) PROVE ConfigInv'
  <2>1. UNCHANGED <<ra, raEdited, appCtl, alias>>
    BY <1>6 DEF Deletion, envRest, aliasVars
  <2>2. re' = [re EXCEPT ![e] = NoRE] \/ UNCHANGED re
    BY <1>6 DEF Deletion, DeleteEnvironment
  <2>3. \A f \in Envs \ {e} : re'[f] = re[f]
    BY <1>0, <2>2
  <2>4. lost \subseteq lost' /\ (Configured(e) /\ ~Exists(e)' => e \in lost')
    BY <1>6 DEF Deletion
  <2>5. UNCHANGED re \/ ~Exists(e)'
    BY <1>0, <2>2 DEF Exists, NoRE
  <2>6. \A f \in Envs : SpecKept(f)
    BY <2>3, <2>4, <2>5 DEF SpecKept
  <2> QED BY <2>1, <2>6, ApplyKept
<1>7. CASE \/ AliasEvent \/ AliasEventLost \/ RouteEvent
           \/ \E e \in Envs : Deployments(e) \/ Pipelines(e)
           \/ \E a \in Aliases : AliasSyncStep(a) \/ AliasFault(a)
  <2>1. UNCHANGED aliasRest
    BY <1>7 DEF AliasEvent, AliasEventLost, RouteEvent, Deployments, Pipelines, AliasSyncStep, AliasFault
  <2>2. UNCHANGED <<ra, raEdited, appCtl, re, lost>>
    BY <2>1 DEF aliasRest, envVars
  <2>3. CASE UNCHANGED alias
    BY <1>1, <2>2, <2>3
  <2>4. ASSUME NEW a \in Aliases, OtherApplication(a) PROVE ConfigInv'
    <3>1. ~Own(a) /\ alias' = [alias EXCEPT ![a] = IF alias[a] = NoAlias THEN [NoAlias EXCEPT !.app = "other"] ELSE NoAlias]
      BY <2>4 DEF OtherApplication
    <3>2. alias'[a].app # "own" /\ \A b \in Aliases \ {a} : alias'[b] = alias[b]
      BY <1>0, <3>1 DEF NoAlias
    <3>3. \A b \in Aliases : alias'[b] = alias[b] \/ (~Own(b) /\ ~Own(b)')
      BY <3>1, <3>2 DEF Own
    <3>4. \A f \in Envs : SpecKept(f)
      BY <2>2 DEF SpecKept
    <3> QED BY <2>2, <3>3, <3>4, ApplyKept
  <2>5. UNCHANGED alias \/ \E a \in Aliases : OtherApplication(a)
    BY <1>7 DEF AliasEvent, DeliverDeployment, DeliverAlias, AliasEventLost, LoseDeployment, RouteEvent,
      DeliverRoute, CollectRoute, Deployments, Rollout, Pipelines, Deploy, AliasSyncStep, StartAliasSync, FindPort, SyncAliasStatus, ReconcileHTTPRoute,
      AliasFault, AliasSyncFails
  <2> QED BY <2>3, <2>4, <2>5
<1> QED BY <1>2, <1>3, <1>4, <1>5, <1>6, <1>7

LEMMA AppliedStep == IInv /\ ConfigInv /\ [Next]_vars => ConfigInv'
<1> SUFFICES ASSUME IInv, ConfigInv, [Next]_vars PROVE ConfigInv'
  OBVIOUS
<1>1. CASE ApplyConfig \/ RemoveConfig
  <2>1. UNCHANGED <<appSync, alias>>
    BY <1>1 DEF ApplyConfig, RemoveConfig, appCtl, aliasVars
  <2>2. WorkInv'
    BY <2>1 DEF ConfigInv, WorkInv, AppAt, AliasDone, Own
  <2>3. ra \in Applications
    BY DEF IInv, ConfigTypeOK
  <2>4. Awaited'
    BY <1>1, <2>3 DEF ApplyConfig, Apply, RemoveConfig, DeleteApplication, Tell, Awaited, Applications
  <2> QED BY <2>2, <2>4 DEF ConfigInv, ApplyInv
<1>2. CASE AppEvent
  <2>1. UNCHANGED <<appSync, alias>> /\ appPending'
    BY <1>2 DEF AppEvent, DeliverEdit, aliasObjects
  <2>2. WorkInv'
    BY <2>1 DEF ConfigInv, WorkInv, AppAt, AliasDone, Own
  <2> QED BY <2>1, <2>2 DEF ConfigInv, ApplyInv, Awaited
<1>3. CASE AppFault
  BY <1>3, RequeueApplied DEF AppFault, AppSyncFails
<1>4. CASE AppSyncStep
  <2>1. UNCHANGED <<ra, raEdited>>
    BY <1>4 DEF AppSyncStep, appRest
  <2>2. CASE SyncEnvironments
    BY <2>1, <2>2, EnvironmentsApplied
  <2>3. CASE StartAppSync
    BY <2>1, <2>3, StartApplied DEF StartAppSync, envObjects
  <2>4. CASE SyncDNSAliases
    <3>1. UNCHANGED <<re, lost>>
      BY <2>4 DEF SyncDNSAliases, ListAliases, DeleteAlias, UpdateAlias, CreateAlias, envObjects
    <3> QED BY <2>1, <2>4, <3>1, AliasesApplied
  <2>5. CASE SyncAppStatus
    BY <2>1, <2>5, StatusApplied DEF SyncAppStatus, envObjects
  <2> QED BY <1>4, <2>2, <2>3, <2>4, <2>5 DEF AppSyncStep
<1>5. CASE Crash
  <2>1. appSync' = AppIdle /\ appPending' = ra.exists /\ UNCHANGED ra /\ ra \in Applications
    BY <1>5 DEF Crash, IInv, ConfigTypeOK
  <2>2. Awaited'
    BY <2>1 DEF Awaited, Applications
  <2> QED BY <2>1, <2>2, BlankWork DEF ConfigInv, ApplyInv
<1> QED BY <1>1, <1>2, <1>3, <1>4, <1>5, OthersApplied DEF Next

LEMMA AppliedStart == Init => ConfigInv
<1> SUFFICES ASSUME Init PROVE ConfigInv
  OBVIOUS
<1>1. PICK start \in Starts : ConfigInit(start) /\ EnvInit /\ AliasInit(start.spec)
  BY DEF Init
<1>2. appSync = AppIdle
  BY DEF Init
<1>3. WorkInv /\ AppAt("idle")
  BY <1>2 DEF AppIdle, WorkInv, AppAt
<1>4. \A e \in Envs : EnvApplied(e)
  BY <1>1 DEF EnvInit, EnvApplied, NoRE
<1>5. ASSUME NEW a \in Aliases PROVE AliasApplied(a)
  <2>1. alias[a] = IF ra.config.alias[a] = NoTarget THEN NoAlias
                   ELSE [uid |-> 1, app |-> "own", target |-> ra.config.alias[a]]
    BY <1>1 DEF AliasInit
  <2>2. NoAlias.app # "own"
    BY DEF NoAlias
  <2>3. CASE ra.config.alias[a] = NoTarget
    BY <2>1, <2>2, <2>3 DEF AliasApplied, Own
  <2>4. CASE ra.config.alias[a] # NoTarget
    BY <2>1, <2>4 DEF AliasApplied, Own
  <2> QED BY <2>3, <2>4
<1> QED BY <1>3, <1>4, <1>5 DEF ConfigInv, ApplyInv, Applied

(* Once its Sync is done, with no change of it on its way, the RadixApplication is what the
   cluster has, whatever edits, conflicts, deletions, failures and restarts came before,
   and whatever other applications did with the names of its aliases meanwhile.
   applicationconfig/environment.go, dns_alias.go and syncStatus. *)
THEOREM ConfigurationIsApplied == Spec => []ConfigIsApplied
<1>1. IInv /\ ConfigInv => ConfigIsApplied
  <2> SUFFICES ASSUME IInv, ConfigInv, AppQuiet, ra.exists PROVE Applied
    BY DEF ConfigIsApplied, Applied, EnvApplied, AliasApplied
  <2>1. ~Awaited /\ AppAt("idle")
    BY DEF AppQuiet, Awaited
  <2> QED BY <2>1 DEF ConfigInv, ApplyInv
<1>2. Spec => []ConfigInv
  BY AppliedStart, AppliedStep, Inductive, PTL DEF Spec
<1> QED BY <1>1, <1>2, Inductive, PTL

-----------------------------------------------------------------------------
(* An alias leads to its component *)

TargetEnv(a) == alias[a].target.env

(* An update of a RadixDeployment of e that enqueues its aliases is on its way. *)
RdNews(e) == \E k \in DOMAIN rdEvents : rdEvents[k].env = e /\ Heard(rdEvents[k].change)

(* A Sync of the alias is queued, or something on its way will queue one. *)
RouteDue(a) ==
  a \in aliasEdited \cup aliasPending \/ RdNews(TargetEnv(a)) \/ rollout[TargetEnv(a)] # "done"

PublicPorts(a) ==
  {rds[TargetEnv(a)][i].spec[alias[a].target.component] :
     i \in {k \in DOMAIN rds[TargetEnv(a)] : rds[TargetEnv(a)][k].cond = "Active"}} \ {NoPort}

RouteTo(a, port) == [owner |-> alias[a].uid, component |-> alias[a].target.component, port |-> port]

Routed(a) ==
  LET r == route[a][TargetEnv(a)] IN
  IF PublicPorts(a) = {} THEN r = NoRoute ELSE \E port \in PublicPorts(a) : r = RouteTo(a, port)

(* The port that the Sync has found is the one there is, and its route is put. *)
RouteAt(a) ==
  /\ AliasAt(a, "route") =>
       IF aliasSync[a].port = NoPort THEN PublicPorts(a) = {} ELSE aliasSync[a].port \in PublicPorts(a)
  /\ AliasAt(a, "idle") \/ AliasAt(a, "status") => Routed(a)

RouteOf(a) == Own(a) /\ a \notin misrouted => RouteDue(a) \/ RouteAt(a)

(* A Sync has the alias as it is, unless another one is due. *)
SyncedOf(a) ==
  Own(a) /\ ~AliasAt(a, "idle") => aliasSync[a].own = alias[a] \/ a \in aliasEdited \cup aliasPending

(* A rollout leaves one RadixDeployment active. *)
OneActive(e) ==
  rollout[e] \in {"done", "status"} =>
    \A i, k \in DOMAIN rds[e] : rds[e][i].cond = "Active" /\ rds[e][k].cond = "Active" => i = k

RouteInv ==
  /\ \A a \in Aliases : RouteOf(a) /\ SyncedOf(a)
  /\ \A e \in Envs : OneActive(e)

(* Nothing that the route of a depends on is other than it was. *)
RouteKeptFor(a) ==
  /\ alias'[a] = alias[a] /\ aliasSync'[a] = aliasSync[a]
  /\ a \in aliasEdited \cup aliasPending => a \in aliasEdited' \cup aliasPending'
  /\ a \in misrouted => a \in misrouted'
  /\ Own(a) => LET e == TargetEnv(a) IN
       /\ route'[a][e] = route[a][e] /\ rds'[e] = rds[e] /\ rollout'[e] = rollout[e]
       /\ RdNews(e) => RdNews(e)' \/ a \in aliasPending'

LEMMA RouteKept ==
  ASSUME NEW a \in Aliases, RouteOf(a), SyncedOf(a), RouteKeptFor(a)
  PROVE  RouteOf(a)' /\ SyncedOf(a)'
<1>1. /\ Own(a)' = Own(a) /\ TargetEnv(a)' = TargetEnv(a)
      /\ \A pc \in {"idle", "route", "status"} : AliasAt(a, pc)' = AliasAt(a, pc)
      /\ \A port : RouteTo(a, port)' = RouteTo(a, port)
  BY DEF RouteKeptFor, Own, TargetEnv, AliasAt, RouteTo
<1>2. SyncedOf(a)'
  BY <1>1 DEF SyncedOf, RouteKeptFor
<1>3. Own(a) => PublicPorts(a)' = PublicPorts(a)
  BY <1>1 DEF RouteKeptFor, PublicPorts
<1>4. Own(a) => Routed(a)' = Routed(a)
  BY <1>1, <1>3 DEF RouteKeptFor, Routed, RouteTo
<1>5. Own(a) /\ RouteAt(a) => RouteAt(a)'
  BY <1>1, <1>3, <1>4 DEF RouteAt, RouteKeptFor
<1>6. Own(a) /\ RouteDue(a) => RouteDue(a)'
  BY <1>1 DEF RouteDue, RouteKeptFor
<1> QED BY <1>1, <1>2, <1>5, <1>6 DEF RouteOf, RouteKeptFor

LEMMA RouteSame ==
  ASSUME NEW a \in Aliases, UNCHANGED rdEvents,
         alias'[a] = alias[a], aliasSync'[a] = aliasSync[a],
         a \in aliasEdited \cup aliasPending => a \in aliasEdited' \cup aliasPending',
         a \in misrouted => a \in misrouted',
         Own(a) => LET e == TargetEnv(a) IN
           route'[a][e] = route[a][e] /\ rds'[e] = rds[e] /\ rollout'[e] = rollout[e]
  PROVE  RouteKeptFor(a)
<1>1. TargetEnv(a)' = TargetEnv(a)
  BY DEF TargetEnv
<1>2. RdNews(TargetEnv(a)) => RdNews(TargetEnv(a))'
  BY <1>1 DEF RdNews
<1> QED BY <1>2 DEF RouteKeptFor

(* An alias for which a Sync is queued needs nothing else. *)
LEMMA RouteAwaited ==
  ASSUME NEW a \in Aliases, ~Own(a)' \/ a \in aliasEdited' \cup aliasPending'
  PROVE  RouteOf(a)' /\ SyncedOf(a)'
BY DEF RouteOf, SyncedOf, RouteDue

LEMMA RdNewsOfMore ==
  ASSUME rdEvents \in Seq(Events), NEW f \in Envs,
         NEW change \in {"added", "activated", "ended", "reconciled"}, Notify(f, change)
  PROVE  /\ \A e : RdNews(e) => RdNews(e)'
         /\ Heard(change) => RdNews(f)'
<1>0. [env |-> f, change |-> change] \in Events
  BY DEF Events
<1>1. /\ Len(rdEvents) \in Nat /\ DOMAIN rdEvents = 1..Len(rdEvents) /\ DOMAIN rdEvents' = 1..(Len(rdEvents) + 1)
      /\ rdEvents'[Len(rdEvents) + 1] = [env |-> f, change |-> change]
      /\ \A k \in 1..Len(rdEvents) : rdEvents'[k] = rdEvents[k]
  BY <1>0, AppendProperties, LenProperties DEF Notify
<1>2. \A e : RdNews(e) => RdNews(e)'
  BY <1>1 DEF RdNews
<1>3. Heard(change) => RdNews(f)'
  <2>1. Len(rdEvents) + 1 \in DOMAIN rdEvents'
    BY <1>1
  <2>2. rdEvents'[Len(rdEvents) + 1].env = f /\ rdEvents'[Len(rdEvents) + 1].change = change
    BY <1>1
  <2> QED BY <2>1, <2>2 DEF RdNews
<1> QED BY <1>2, <1>3

LEMMA RdNewsOfLess ==
  ASSUME rdEvents \in Seq(Events), rdEvents # <<>>, rdEvents' = Tail(rdEvents), NEW e, RdNews(e)
  PROVE  (Head(rdEvents).env = e /\ Heard(Head(rdEvents).change)) \/ RdNews(e)'
<1>1. /\ Len(rdEvents) \in Nat \ {0} /\ DOMAIN rdEvents = 1..Len(rdEvents) /\ Head(rdEvents) = rdEvents[1]
      /\ DOMAIN rdEvents' = 1..(Len(rdEvents) - 1)
      /\ \A i \in 1..(Len(rdEvents) - 1) : rdEvents'[i] = rdEvents[i + 1]
  BY HeadTailProperties, EmptySeq, LenProperties
<1>2. PICK k \in 1..Len(rdEvents) : rdEvents[k].env = e /\ Heard(rdEvents[k].change)
  BY <1>1 DEF RdNews
<1>3. CASE k = 1
  BY <1>1, <1>2, <1>3
<1>4. CASE k # 1
  <2>1. k - 1 \in DOMAIN rdEvents' /\ rdEvents'[k - 1] = rdEvents[k]
    BY <1>1, <1>4
  <2> QED BY <1>2, <2>1 DEF RdNews
<1> QED BY <1>3, <1>4

(* The steps that concern one alias only. *)
LEMMA OneAlias ==
  ASSUME RouteInv, NEW a \in Aliases, UNCHANGED <<rds, rollout>>,
         \A b \in Aliases \ {a} : RouteKeptFor(b), RouteOf(a)' /\ SyncedOf(a)'
  PROVE  RouteInv'
<1>1. \A b \in Aliases : RouteOf(b)' /\ SyncedOf(b)'
  BY RouteKept DEF RouteInv
<1>2. \A e \in Envs : OneActive(e)'
  BY DEF RouteInv, OneActive
<1> QED BY <1>1, <1>2 DEF RouteInv

LEMMA TargetIsEnv ==
  ASSUME IInv, NEW a \in Aliases, Own(a)
  PROVE  TargetEnv(a) \in Envs /\ alias[a].target.component \in Components
BY DEF IInv, AliasObjectsTyped, Targets, TargetEnv

LEMMA RolloutRoutes ==
  ASSUME IInv, RouteInv, NEW f \in Envs, Rollout(f) \/ \E spec \in Specs : Deploy(f, spec)
  PROVE  RouteInv'
<1>0. /\ rdEvents \in Seq(Events) /\ rds \in [Envs -> Seq(RDs)]
      /\ rollout \in [Envs -> {"done", "activate", "inactivate", "status"}]
  BY DEF IInv, AliasTyped, Events
<1>1. /\ UNCHANGED <<alias, aliasSync, aliasEdited, aliasPending, misrouted, route>>
      /\ \A e \in Envs \ {f} : rds'[e] = rds[e] /\ rollout'[e] = rollout[e]
  BY <1>0 DEF Rollout, Deploy, routes
<1>2. \A e : RdNews(e) => RdNews(e)'
  BY <1>0, RdNewsOfMore DEF Rollout, Deploy
<1>3. rollout'[f] # "done" \/ RdNews(f)'
  <2>1. CASE \E spec \in Specs : Deploy(f, spec)
    BY <1>0, <2>1 DEF Deploy
  <2>2. CASE Rollout(f) /\ rollout[f] = "status"
    BY <1>0, <2>2, RdNewsOfMore DEF Rollout, Heard
  <2>3. CASE Rollout(f) /\ rollout[f] # "status"
    BY <1>0, <2>3 DEF Rollout
  <2> QED BY <2>1, <2>2, <2>3
<1>4. ASSUME NEW a \in Aliases PROVE RouteOf(a)' /\ SyncedOf(a)'
  <2>1. CASE Own(a) /\ TargetEnv(a) = f
    <3>1. SyncedOf(a)'
      BY <1>1 DEF RouteInv, SyncedOf, Own, AliasAt
    <3>2. RouteDue(a)'
      BY <1>1, <1>3, <2>1 DEF RouteDue, TargetEnv
    <3> QED BY <3>1, <3>2 DEF RouteOf
  <2>2. CASE ~(Own(a) /\ TargetEnv(a) = f)
    <3>1. TargetEnv(a)' = TargetEnv(a) /\ (Own(a) => TargetEnv(a) \in Envs \ {f})
      BY <1>1, <2>2, TargetIsEnv DEF TargetEnv
    <3>2. Own(a) => /\ route'[a][TargetEnv(a)] = route[a][TargetEnv(a)]
                    /\ rds'[TargetEnv(a)] = rds[TargetEnv(a)] /\ rollout'[TargetEnv(a)] = rollout[TargetEnv(a)]
                    /\ RdNews(TargetEnv(a)) => RdNews(TargetEnv(a))'
      BY <1>1, <1>2, <3>1
    <3>3. RouteKeptFor(a)
      BY <1>1, <3>2 DEF RouteKeptFor
    <3> QED BY <3>3, RouteKept DEF RouteInv
  <2> QED BY <2>1, <2>2
<1>5. ASSUME NEW e \in Envs PROVE OneActive(e)'
  <2>1. CASE e # f
    BY <1>1, <2>1 DEF RouteInv, OneActive
  <2>2. CASE e = f /\ rollout'[f] \notin {"done", "status"}
    BY <2>2 DEF OneActive
  <2>3. CASE Rollout(f) /\ rollout[f] = "status"
    BY <1>0, <1>1, <2>3 DEF RouteInv, OneActive, Rollout
  <2>4. CASE e = f /\ Rollout(f) /\ rollout[f] = "inactivate"
    <3> DEFINE latest == Len(rds[f])
               ended == [i \in DOMAIN rds[f] |-> IF i = latest THEN rds[f][i] ELSE [rds[f][i] EXCEPT !.cond = "Inactive"]]
    <3>1. rds'[f] = ended
      BY <1>0, <2>4 DEF Rollout
    <3>2. \A i \in DOMAIN rds[f] : rds[f][i] \in RDs
      BY <1>0, ElementOfSeq, LenProperties
    <3>3. DOMAIN ended = DOMAIN rds[f] /\ \A i \in DOMAIN ended : ended[i].cond = "Active" => i = latest
      BY <3>2 DEF RDs
    <3> HIDE DEF ended, latest
    <3> QED BY <2>4, <3>1, <3>3 DEF OneActive
  <2>5. rollout'[f] \notin {"done", "status"} \/ (Rollout(f) /\ rollout[f] \in {"status", "inactivate"})
    BY <1>0 DEF Rollout, Deploy
  <2> QED BY <2>1, <2>2, <2>3, <2>4, <2>5
<1> QED BY <1>4, <1>5 DEF RouteInv

LEMMA EventRoutes ==
  ASSUME IInv, RouteInv, AliasEvent \/ AliasEventLost \/ RouteEvent
  PROVE  RouteInv'
<1>0. rdEvents \in Seq(Events) /\ route \in [Aliases -> [Envs -> Routes]]
  BY DEF IInv, AliasTyped, Events
<1>1. CASE DeliverDeployment
  <2>1. /\ UNCHANGED <<alias, aliasEdited, route, rds, rollout, aliasSync, misrouted>>
        /\ rdEvents # <<>> /\ rdEvents' = Tail(rdEvents) /\ aliasPending \subseteq aliasPending'
        /\ Heard(Head(rdEvents).change) =>
             \A a \in Aliases : Own(a) /\ TargetEnv(a) = Head(rdEvents).env => a \in aliasPending'
    BY <1>1 DEF DeliverDeployment, routes, TargetEnv
  <2>2. ASSUME NEW a \in Aliases PROVE RouteKeptFor(a)
    <3>1. TargetEnv(a)' = TargetEnv(a)
      BY <2>1 DEF TargetEnv
    <3>2. Own(a) /\ RdNews(TargetEnv(a)) => RdNews(TargetEnv(a))' \/ a \in aliasPending'
      BY <1>0, <2>1, <3>1, RdNewsOfLess
    <3> QED BY <2>1, <3>2 DEF RouteKeptFor
  <2>3. \A a \in Aliases : RouteOf(a)' /\ SyncedOf(a)'
    BY <2>2, RouteKept DEF RouteInv
  <2> QED BY <2>1, <2>3 DEF RouteInv, OneActive
<1>5. CASE LoseDeployment
  <2>1. /\ UNCHANGED <<alias, aliasEdited, aliasPending, route, rds, rollout, aliasSync>>
        /\ rdEvents # <<>> /\ rdEvents' = Tail(rdEvents) /\ misrouted \subseteq misrouted'
        /\ \A a \in Aliases : Own(a) /\ TargetEnv(a) = Head(rdEvents).env => a \in misrouted'
    BY <1>5 DEF LoseDeployment, routes, TargetEnv
  <2>2. ASSUME NEW a \in Aliases PROVE RouteOf(a)' /\ SyncedOf(a)'
    <3>1. Own(a)' = Own(a) /\ TargetEnv(a)' = TargetEnv(a)
      BY <2>1 DEF Own, TargetEnv
    <3>2. CASE Own(a) /\ TargetEnv(a) = Head(rdEvents).env
      BY <2>1, <3>1, <3>2 DEF RouteInv, RouteOf, SyncedOf, AliasAt
    <3>3. CASE ~(Own(a) /\ TargetEnv(a) = Head(rdEvents).env)
      <4>1. Own(a) /\ RdNews(TargetEnv(a)) => RdNews(TargetEnv(a))'
        BY <1>0, <2>1, <3>1, <3>3, RdNewsOfLess
      <4>2. RouteKeptFor(a)
        BY <2>1, <3>1, <4>1 DEF RouteKeptFor
      <4> QED BY <4>2, RouteKept DEF RouteInv
    <3> QED BY <3>2, <3>3
  <2> QED BY <2>1, <2>2 DEF RouteInv, OneActive
<1>2. ASSUME NEW a \in Aliases, DeliverAlias(a) PROVE RouteInv'
  <2>1. UNCHANGED <<alias, route, rds, rollout, rdEvents, aliasSync, misrouted>>
        /\ aliasEdited' = aliasEdited \ {a} /\ aliasPending' = aliasPending \cup {a}
    BY <1>2 DEF DeliverAlias, routes, deploys
  <2>2. \A b \in Aliases \ {a} : RouteKeptFor(b)
    BY <2>1, RouteSame
  <2>3. RouteOf(a)' /\ SyncedOf(a)'
    BY <2>1, RouteAwaited
  <2> QED BY <2>1, <2>2, <2>3, OneAlias
<1>3. ASSUME NEW a \in Aliases, NEW f \in Envs, DeliverRoute(a, f) PROVE RouteInv'
  <2>1. UNCHANGED <<alias, aliasEdited, aliasPending, route, rds, rollout, rdEvents, aliasSync, misrouted>>
    BY <1>3 DEF DeliverRoute, deploys
  <2>2. \A b \in Aliases : RouteKeptFor(b)
    BY <2>1, RouteSame
  <2> QED BY <2>1, <2>2, OneAlias, RouteKept DEF RouteInv
<1>4. ASSUME NEW a \in Aliases, NEW f \in Envs, CollectRoute(a, f) PROVE RouteInv'
  <2>1. /\ UNCHANGED <<alias, aliasEdited, aliasPending, rds, rollout, rdEvents, aliasSync, misrouted>>
        /\ route[a][f] # NoRoute /\ route[a][f].owner # alias[a].uid
        /\ route' = [route EXCEPT ![a][f] = NoRoute]
    BY <1>4 DEF CollectRoute, deploys
  <2>2. \A b \in Aliases, e \in Envs : b # a \/ e # f => route'[b][e] = route[b][e]
    BY <1>0, <2>1
  <2>3. \A b \in Aliases : Own(b) /\ b # a => route'[b][TargetEnv(b)] = route[b][TargetEnv(b)]
    BY <2>2, TargetIsEnv
  <2>4. \A b \in Aliases \ {a} : RouteKeptFor(b)
    BY <2>1, <2>3, RouteSame
  <2>5. CASE ~Own(a) \/ TargetEnv(a) # f
    <3>1. Own(a) => route'[a][TargetEnv(a)] = route[a][TargetEnv(a)]
      BY <2>2, <2>5, TargetIsEnv
    <3>2. RouteKeptFor(a)
      BY <2>1, <3>1, RouteSame
    <3> QED BY <2>1, <2>4, <3>2, OneAlias, RouteKept DEF RouteInv
  <2>6. CASE Own(a) /\ TargetEnv(a) = f
    <3>1. ~Routed(a)
      <4>1. CASE PublicPorts(a) = {}
        BY <2>1, <2>6, <4>1 DEF Routed
      <4>2. CASE PublicPorts(a) # {}
        <5>1. \A port : RouteTo(a, port).owner = alias[a].uid
          BY DEF RouteTo
        <5> QED BY <2>1, <2>6, <4>2, <5>1 DEF Routed
      <4> QED BY <4>1, <4>2
    <3>2. SyncedOf(a)'
      BY <2>1 DEF RouteInv, SyncedOf, Own, AliasAt
    <3>3. TargetEnv(a)' = TargetEnv(a) /\ Own(a)' = Own(a) /\ PublicPorts(a)' = PublicPorts(a)
          /\ \A e : RdNews(e)' = RdNews(e)
      BY <2>1 DEF TargetEnv, Own, PublicPorts, RdNews
    <3>4. RouteAt(a) => RouteAt(a)'
      BY <2>1, <3>1, <3>3 DEF RouteAt, AliasAt
    <3>5. RouteDue(a) => RouteDue(a)'
      BY <2>1, <3>3 DEF RouteDue
    <3>6. RouteOf(a)'
      BY <2>1, <3>3, <3>4, <3>5 DEF RouteInv, RouteOf
    <3> QED BY <2>1, <2>4, <3>2, <3>6, OneAlias
  <2> QED BY <2>5, <2>6
<1> QED BY <1>1, <1>2, <1>3, <1>4, <1>5 DEF AliasEvent, AliasEventLost, RouteEvent

(* The steps of the Sync of an alias. *)
LEMMA SyncRoutes ==
  ASSUME IInv, RouteInv, NEW a \in Aliases, AliasSyncStep(a) \/ AliasSyncFails(a)
  PROVE  RouteInv'
<1> DEFINE own == aliasSync[a].own
           e == TargetEnv(a)
<1>0. /\ aliasSync \in [Aliases -> AliasSyncs] /\ alias \in [Aliases -> AliasRecords]
      /\ route \in [Aliases -> [Envs -> Routes]] /\ aliasSync[a] \in AliasSyncs
      /\ rds \in [Envs -> Seq(RDs)]
  BY DEF IInv, AliasTyped, AliasObjectsTyped
<1>1. /\ UNCHANGED <<alias, aliasEdited, rds, rollout, rdEvents>>
      /\ \A b \in Aliases \ {a} : aliasSync'[b] = aliasSync[b] /\ route'[b] = route[b]
                                  /\ (b \in aliasPending' <=> b \in aliasPending) /\ (b \in misrouted' <=> b \in misrouted)
  <2>1. UNCHANGED <<alias, aliasEdited, rds, rollout, rdEvents>>
    BY DEF AliasSyncStep, AliasSyncFails, StartAliasSync, FindPort, SyncAliasStatus, ReconcileHTTPRoute, deploys
  <2>2. \A b \in Aliases \ {a} : /\ aliasSync'[b] = aliasSync[b]
                                 /\ (b \in aliasPending' <=> b \in aliasPending)
                                 /\ (b \in misrouted' <=> b \in misrouted)
    BY <1>0 DEF AliasSyncStep, AliasSyncFails, StartAliasSync, FindPort, SyncAliasStatus, ReconcileHTTPRoute,
      DeleteRoute, PutRoute, AliasRequeue
  <2>3. \A b \in Aliases \ {a} : route'[b] = route[b]
    BY <1>0 DEF AliasSyncStep, AliasSyncFails, StartAliasSync, FindPort, SyncAliasStatus, ReconcileHTTPRoute,
      DeleteRoute, PutRoute, routes
  <2> QED BY <2>1, <2>2, <2>3
<1>2. \A b \in Aliases \ {a} : RouteKeptFor(b)
  BY <1>1, RouteSame
<1>3. SUFFICES RouteOf(a)' /\ SyncedOf(a)'
  BY <1>1, <1>2, OneAlias
<1>4. CASE AliasRequeue(a)
  <2>1. a \in aliasPending'
    BY <1>4 DEF AliasRequeue
  <2> QED BY <2>1, RouteAwaited
<1>5. /\ TargetEnv(a)' = TargetEnv(a) /\ Own(a)' = Own(a) /\ PublicPorts(a)' = PublicPorts(a)
      /\ \A f : RdNews(f)' = RdNews(f)
      /\ \A port : RouteTo(a, port)' = RouteTo(a, port)
  BY <1>1 DEF TargetEnv, Own, PublicPorts, RdNews, RouteTo
(* There is nothing to do for an alias that is not followed, or for which another Sync is due. *)
<1>6. ASSUME ~Own(a) \/ a \in misrouted' \/ RouteDue(a), UNCHANGED aliasPending PROVE RouteOf(a)'
  BY <1>1, <1>5, <1>6 DEF RouteOf, RouteDue
<1>7. CASE StartAliasSync(a)
  <2>1. CASE ~Own(a)
    BY <1>5, <2>1 DEF RouteOf, SyncedOf
  <2>2. CASE Own(a)
    <3>1. aliasSync'[a].pc = "init" /\ aliasSync'[a].own = alias[a]
      <4> DEFINE moved == [aliasSync[a] EXCEPT !.pc = "init"]
      <4>1. moved \in AliasSyncs /\ moved.pc = "init"
        BY <1>0 DEF AliasSyncs
      <4>2. aliasSync'[a] = [moved EXCEPT !.own = alias[a]]
        BY <1>0, <1>7, <2>2 DEF StartAliasSync
      <4> HIDE DEF moved
      <4> QED BY <4>1, <4>2 DEF AliasSyncs
    <3> QED BY <1>1, <3>1 DEF RouteOf, SyncedOf, RouteAt, AliasAt
  <2> QED BY <2>1, <2>2
<1>8. CASE FindPort(a)
  <2> DEFINE active == {i \in DOMAIN rds[own.target.env] : rds[own.target.env][i].cond = "Active"}
             port(i) == rds[own.target.env][i].spec[own.target.component]
  <2>1. PICK p \in IF active = {} THEN {NoPort} ELSE {port(i) : i \in active} :
          aliasSync' = [aliasSync EXCEPT ![a].pc = "route", ![a].port = p]
    BY <1>8 DEF FindPort
  <2>2. aliasSync'[a].pc = "route" /\ aliasSync'[a].own = own /\ aliasSync'[a].port = p
    <3> DEFINE moved == [aliasSync[a] EXCEPT !.pc = "route"]
    <3>1. moved \in AliasSyncs /\ moved.pc = "route" /\ moved.own = own
      BY <1>0 DEF AliasSyncs
    <3>2. aliasSync'[a] = [moved EXCEPT !.port = p]
      BY <1>0, <2>1
    <3> HIDE DEF moved
    <3> QED BY <3>1, <3>2 DEF AliasSyncs
  <2>3. UNCHANGED <<aliasPending, misrouted>> /\ AliasAt(a, "init")
    BY <1>8 DEF FindPort
  <2>4. SyncedOf(a)'
    BY <1>1, <1>5, <2>2, <2>3 DEF RouteInv, SyncedOf, AliasAt
  <2>5. CASE Own(a) /\ ~RouteDue(a)
    <3>1. own = alias[a] /\ OneActive(TargetEnv(a)) /\ rollout[TargetEnv(a)] = "done"
      BY <2>3, <2>5, TargetIsEnv DEF RouteInv, SyncedOf, RouteDue, AliasAt
    <3>2. active = {k \in DOMAIN rds[TargetEnv(a)] : rds[TargetEnv(a)][k].cond = "Active"}
          /\ PublicPorts(a) = {port(i) : i \in active} \ {NoPort}
      BY <3>1 DEF PublicPorts, TargetEnv
    <3>3. \A i, k \in active : i = k
      BY <3>1, <3>2 DEF OneActive
    <3>4. IF p = NoPort THEN PublicPorts(a) = {} ELSE p \in PublicPorts(a)
      <4>1. CASE active = {}
        BY <2>1, <3>2, <4>1
      <4>2. CASE active # {}
        <5>1. PICK i \in active : p = port(i)
          BY <2>1, <4>2
        <5>2. {port(k) : k \in active} = {p}
          BY <3>3, <5>1
        <5> HIDE DEF active, port
        <5> QED BY <3>2, <5>2
      <4> QED BY <4>1, <4>2
    <3>5. RouteAt(a)'
      BY <1>5, <2>2, <3>4 DEF RouteAt, AliasAt
    <3> QED BY <2>4, <3>5 DEF RouteOf
  <2> QED BY <1>6, <2>3, <2>4, <2>5
<1>9. CASE ReconcileHTTPRoute(a, {f \in Envs : ns[f].phase = "active"}) /\ ~AliasRequeue(a)
  <2> DEFINE active == {f \in Envs : ns[f].phase = "active"}
             new == [owner |-> own.uid, component |-> own.target.component, port |-> aliasSync[a].port]
  <2>1. AliasAt(a, "route") /\ aliasSync' = [aliasSync EXCEPT ![a].pc = "status"] /\ UNCHANGED aliasPending
        /\ misrouted \subseteq misrouted'
    BY <1>9 DEF ReconcileHTTPRoute, DeleteRoute, PutRoute
  <2>2. aliasSync'[a].pc = "status" /\ aliasSync'[a].own = own
    BY <1>0, <2>1 DEF AliasSyncs
  <2>3. SyncedOf(a)'
    BY <1>1, <1>5, <2>1, <2>2 DEF RouteInv, SyncedOf, AliasAt
  <2>4. CASE Own(a) /\ ~RouteDue(a) /\ a \notin misrouted'
    <3>1. own = alias[a] /\ RouteAt(a) /\ TargetEnv(a) \in Envs
      BY <2>1, <2>4, TargetIsEnv DEF RouteInv, SyncedOf, RouteOf, RouteDue, AliasAt
    <3>2. Routed(a)'
      <4>1. CASE aliasSync[a].port = NoPort
        <5>1. route' = [route EXCEPT ![a][TargetEnv(a)] = NoRoute]
          BY <1>9, <3>1, <4>1 DEF ReconcileHTTPRoute, DeleteRoute, TargetEnv
        <5>2. route'[a][TargetEnv(a)] = NoRoute
          BY <1>0, <3>1, <5>1
        <5>3. PublicPorts(a) = {}
          BY <2>1, <3>1, <4>1 DEF RouteAt
        <5> QED BY <1>5, <5>2, <5>3 DEF Routed
      <4>2. CASE aliasSync[a].port # NoPort
        <5>1. PutRoute(a, active) /\ aliasSync[a].port \in PublicPorts(a)
          BY <1>9, <2>1, <3>1, <4>2 DEF ReconcileHTTPRoute, RouteAt
        <5>2. new = RouteTo(a, aliasSync[a].port)
          BY <3>1 DEF RouteTo
        <5> HIDE DEF new
        <5>3. route' = [route EXCEPT ![a][TargetEnv(a)] = new] \/ (route[a][TargetEnv(a)] = new /\ UNCHANGED route)
          BY <1>9, <2>4, <3>1, <5>1 DEF PutRoute, new, TargetEnv
        <5>4. route'[a][TargetEnv(a)] = new
          BY <1>0, <3>1, <5>3
        <5> QED BY <1>5, <5>1, <5>2, <5>4 DEF Routed
      <4> QED BY <4>1, <4>2
    <3>3. RouteAt(a)'
      BY <2>2, <3>2 DEF RouteAt, AliasAt
    <3> QED BY <2>3, <3>3 DEF RouteOf
  <2> QED BY <1>6, <2>1, <2>3, <2>4
<1>10. CASE SyncAliasStatus(a) /\ ~AliasRequeue(a)
  <2>1. /\ AliasAt(a, "status") /\ alias[a] = own /\ aliasSync' = [aliasSync EXCEPT ![a] = AliasIdle]
        /\ UNCHANGED <<aliasPending, misrouted, route>>
    BY <1>10 DEF SyncAliasStatus, routes
  <2>2. aliasSync'[a].pc = "idle"
    BY <1>0, <2>1 DEF AliasIdle
  <2>3. SyncedOf(a)'
    BY <2>2 DEF SyncedOf, AliasAt
  <2>4. Routed(a) => Routed(a)'
    BY <1>5, <2>1 DEF Routed
  <2>5. RouteAt(a) => RouteAt(a)'
    BY <2>1, <2>2, <2>4 DEF RouteAt, AliasAt
  <2>6. RouteOf(a)'
    BY <1>1, <1>5, <2>1, <2>5 DEF RouteInv, RouteOf, RouteDue
  <2> QED BY <2>3, <2>6
<1> QED BY <1>4, <1>7, <1>8, <1>9, <1>10 DEF AliasSyncStep, AliasSyncFails


LEMMA EmptyRoutes ==
  ASSUME IInv, RouteInv, NEW f \in Envs, EmptyOfRoutes(f)
  PROVE  RouteInv'
<1>0. /\ route \in [Aliases -> [Envs -> Routes]] /\ rds \in [Envs -> Seq(RDs)]
      /\ rollout \in [Envs -> {"done", "activate", "inactivate", "status"}]
  BY DEF IInv, AliasTyped
<1>1. /\ UNCHANGED <<alias, aliasEdited, aliasPending, aliasSync, rdEvents>> /\ misrouted \subseteq misrouted'
      /\ \A a \in Aliases : ~AliasAt(a, "idle") /\ aliasSync[a].own.target.env = f => a \in misrouted'
      /\ rds'[f] = <<>> /\ \A e \in Envs \ {f} : rds'[e] = rds[e] /\ rollout'[e] = rollout[e]
  BY <1>0 DEF EmptyOfRoutes
<1>2. \A a \in Aliases : route'[a][f] = NoRoute /\ \A e \in Envs \ {f} : route'[a][e] = route[a][e]
  BY <1>0 DEF EmptyOfRoutes
<1>3. DOMAIN rds'[f] = {}
  BY <1>1
<1>4. ASSUME NEW a \in Aliases PROVE RouteOf(a)' /\ SyncedOf(a)'
  <2>1. TargetEnv(a)' = TargetEnv(a) /\ Own(a)' = Own(a) /\ \A pc : AliasAt(a, pc)' = AliasAt(a, pc)
    BY <1>1 DEF TargetEnv, Own, AliasAt
  <2>2. CASE Own(a) /\ TargetEnv(a) = f
    <3>1. SyncedOf(a)'
      BY <1>1, <2>1 DEF RouteInv, SyncedOf
    <3>2. PublicPorts(a)' = {}
      BY <1>3, <2>1, <2>2 DEF PublicPorts
    <3>3. Routed(a)'
      BY <1>2, <2>1, <2>2, <3>2 DEF Routed
    <3>4. CASE AliasAt(a, "idle")
      <4>1. RouteAt(a)'
        BY <2>1, <3>3, <3>4 DEF RouteAt, AliasAt
      <4> QED BY <3>1, <4>1 DEF RouteOf
    <3>5. CASE ~AliasAt(a, "idle")
      BY <1>1, <2>2, <3>1, <3>5 DEF RouteInv, SyncedOf, RouteOf, RouteDue, TargetEnv
    <3> QED BY <3>4, <3>5
  <2>3. CASE ~(Own(a) /\ TargetEnv(a) = f)
    <3>1. RouteKeptFor(a)
      BY <1>1, <1>2, <2>3, TargetIsEnv, RouteSame
    <3> QED BY <3>1, RouteKept DEF RouteInv
  <2> QED BY <2>2, <2>3
<1>5. ASSUME NEW e \in Envs PROVE OneActive(e)'
  <2>1. CASE e = f
    BY <1>3, <2>1 DEF OneActive
  <2>2. CASE e # f
    BY <1>1, <2>2 DEF RouteInv, OneActive
  <2> QED BY <2>1, <2>2
<1> QED BY <1>4, <1>5 DEF RouteInv

(* An alias that is written, by the Sync of the RadixApplication, is an event; one that is
   deleted, or is another application's, is not followed. *)
LEMMA ObjectRoutes ==
  ASSUME RouteInv, UNCHANGED <<route, rds, rollout, rdEvents, aliasPending, aliasSync, misrouted>>,
         \A a \in Aliases : \/ alias'[a] = alias[a] /\ (a \in aliasEdited => a \in aliasEdited')
                            \/ ~Own(a)' \/ a \in aliasEdited'
  PROVE  RouteInv'
<1>1. ASSUME NEW a \in Aliases PROVE RouteOf(a)' /\ SyncedOf(a)'
  <2>1. CASE alias'[a] = alias[a] /\ (a \in aliasEdited => a \in aliasEdited')
    <3>1. RouteKeptFor(a)
      BY <2>1, RouteSame
    <3> QED BY <3>1, RouteKept DEF RouteInv
  <2> QED BY <2>1, RouteAwaited
<1> QED BY <1>1 DEF RouteInv, OneActive

LEMMA OthersRoutes ==
  ASSUME RouteInv, UNCHANGED aliasVars
  PROVE  RouteInv'
BY ObjectRoutes DEF aliasVars, routes, deploys

LEMMA AliasObjectRoutes ==
  ASSUME IInv, RouteInv, SyncDNSAliases,
         UNCHANGED <<route, rds, rollout, rdEvents, aliasPending, aliasSync, misrouted>>
  PROVE  RouteInv'
<1>0. alias \in [Aliases -> AliasRecords]
  BY DEF IInv, AliasObjectsTyped
<1>1. CASE UNCHANGED <<alias, aliasEdited>>
  BY <1>1, ObjectRoutes
<1>2. ASSUME NEW a \in Aliases, DeleteAlias(a) PROVE RouteInv'
  <2>1. alias'[a].app # "own" /\ \A b \in Aliases \ {a} : alias'[b] = alias[b]
    BY <1>0, <1>2 DEF DeleteAlias, NoAlias
  <2> QED BY <1>2, <2>1, ObjectRoutes DEF DeleteAlias, Own
<1>3. ASSUME NEW a \in Aliases, UpdateAlias(a) \/ CreateAlias(a), a \in aliasEdited' PROVE RouteInv'
  <2>1. aliasEdited \subseteq aliasEdited' /\ \A b \in Aliases \ {a} : alias'[b] = alias[b]
    BY <1>0, <1>3 DEF UpdateAlias, CreateAlias, aliasObjects
  <2> QED BY <1>3, <2>1, ObjectRoutes
<1> QED BY <1>1, <1>2, <1>3 DEF SyncDNSAliases, ListAliases, UpdateAlias, CreateAlias, aliasObjects

LEMMA CrashRoutes ==
  ASSUME RouteInv, AliasCrash
  PROVE  RouteInv'
<1>1. \A a \in Aliases : RouteOf(a)' /\ SyncedOf(a)'
  BY RouteAwaited DEF AliasCrash, Own
<1> QED BY <1>1 DEF RouteInv, OneActive, AliasCrash

LEMMA RouteStep == IInv /\ RouteInv /\ [Next]_vars => RouteInv'
<1> SUFFICES ASSUME IInv, RouteInv, [Next]_vars PROVE RouteInv'
  OBVIOUS
<1>1. CASE ApplyConfig \/ RemoveConfig \/ AppEvent \/ AppFault \/ ApplicationEvent \/ CleanUpRun \/ Clock
  <2>1. UNCHANGED aliasVars
    BY <1>1 DEF ApplyConfig, RemoveConfig, AppEvent, DeliverEdit, AppFault, AppSyncFails, ApplicationEvent, CleanUpRun,
      Clock, envRest, appRest, aliasObjects, aliasVars
  <2> QED BY <2>1, OthersRoutes
<1>2. CASE AppSyncStep
  <2>1. UNCHANGED <<route, rds, rollout, rdEvents, aliasPending, aliasSync, misrouted>>
    BY <1>2 DEF AppSyncStep, appRest, routes, deploys
  <2>2. CASE SyncDNSAliases
    BY <2>1, <2>2, AliasObjectRoutes
  <2>3. CASE StartAppSync \/ SyncEnvironments \/ SyncAppStatus
    <3>1. UNCHANGED <<alias, aliasEdited>>
      BY <2>3 DEF StartAppSync, SyncEnvironments, GetEnvironment, CreateEnvironment, UpdateEnvironment,
        ReloadEnvironment, SyncAppStatus, aliasObjects
    <3> QED BY <2>1, <3>1, ObjectRoutes
  <2> QED BY <1>2, <2>2, <2>3 DEF AppSyncStep
<1>3. ASSUME NEW e \in Envs, EnvEvent(e) \/ EnvSyncStep(e) \/ EnvFault(e) \/ Deletion("cron", e) \/ Deletion("user", e)
      PROVE  RouteInv'
  <2>1. UNCHANGED aliasVars
    BY <1>3 DEF EnvEvent, EnvSyncStep, EnvFault, Deletion, envRest
  <2> QED BY <2>1, OthersRoutes
<1>4. ASSUME NEW e \in Envs, Kubernetes(e) PROVE RouteInv'
  <2>1. CASE UNCHANGED aliasVars
    BY <2>1, OthersRoutes
  <2> QED BY <1>4, <2>1, EmptyRoutes DEF Kubernetes, envRest
<1>5. ASSUME NEW e \in Envs, Deployments(e) \/ Pipelines(e) PROVE RouteInv'
  BY <1>5, RolloutRoutes DEF Deployments, Pipelines
<1>6. CASE AliasEvent \/ AliasEventLost \/ RouteEvent
  BY <1>6, EventRoutes
<1>7. ASSUME NEW a \in Aliases, AliasSyncStep(a) PROVE RouteInv'
  BY <1>7, SyncRoutes
<1>8. ASSUME NEW a \in Aliases, AliasFault(a) PROVE RouteInv'
  <2>1. CASE AliasSyncFails(a)
    BY <2>1, SyncRoutes
  <2>2. CASE OtherApplication(a)
    <3>0. alias \in [Aliases -> AliasRecords]
      BY DEF IInv, AliasObjectsTyped
    <3>1. alias'[a].app # "own" /\ \A b \in Aliases \ {a} : alias'[b] = alias[b]
      BY <2>2, <3>0 DEF OtherApplication, NoAlias
    <3> QED BY <2>2, <3>1, ObjectRoutes DEF OtherApplication, Own, routes, deploys
  <2> QED BY <1>8, <2>1, <2>2 DEF AliasFault
<1>9. CASE Crash
  BY <1>9, CrashRoutes DEF Crash
<1>10. CASE UNCHANGED vars
  BY <1>10, OthersRoutes DEF vars
<1> QED BY <1>1, <1>2, <1>3, <1>4, <1>5, <1>6, <1>7, <1>8, <1>9, <1>10 DEF Next

LEMMA RouteStart == Init => RouteInv
<1> SUFFICES ASSUME Init PROVE RouteInv
  OBVIOUS
<1>0. IInv
  BY InitTypes
<1>1. PICK start \in Starts : ConfigInit(start) /\ AliasInit(start.spec)
  BY DEF Init
<1>2. \A e \in Envs : rds[e] = IF Configured(e) THEN <<[spec |-> start.spec, cond |-> "Active"]>> ELSE <<>>
  BY <1>1 DEF AliasInit
<1>3. \A e \in Envs : /\ Configured(e) => rds[e][1] = [spec |-> start.spec, cond |-> "Active"]
                      /\ DOMAIN rds[e] = IF Configured(e) THEN {1} ELSE {}
  BY <1>2
<1>4. \A e \in Envs : OneActive(e)
  BY <1>3 DEF OneActive
<1>5. ASSUME NEW a \in Aliases PROVE AliasAt(a, "idle")
  BY <1>1 DEF AliasInit, AliasIdle, AliasAt
<1>6. ASSUME NEW a \in Aliases, Own(a) PROVE Routed(a)
  <2> DEFINE target == ra.config.alias[a]
             port == start.spec[target.component]
  <2>1. alias[a] = IF target = NoTarget THEN NoAlias ELSE [uid |-> 1, app |-> "own", target |-> target]
    BY <1>1 DEF AliasInit
  <2>2. target # NoTarget /\ alias[a].uid = 1 /\ alias[a].target = target
    <3>1. NoAlias.app # "own"
      BY DEF NoAlias
    <3>2. target # NoTarget
      BY <1>6, <2>1, <3>1 DEF Own
    <3> HIDE DEF target
    <3> QED BY <2>1, <3>2
  <2>3. TargetEnv(a) = target.env /\ target.env \in Envs /\ target.component \in Components
    <3>1. TargetEnv(a) = target.env /\ alias[a].target.component = target.component
      BY <2>2 DEF TargetEnv
    <3> QED BY <1>0, <1>6, <3>1, TargetIsEnv
  <2>4. Configured(target.env)
    <3>1. ra.exists /\ ra.config \in Configs
      BY <1>0, <1>1 DEF ConfigInit, IInv, ConfigTypeOK, Applications
    <3> QED BY <2>2, <3>1, AliasEnvsAssumption DEF Configured
  <2>5. route[a][target.env] =
          IF port # NoPort THEN [owner |-> 1, component |-> target.component, port |-> port] ELSE NoRoute
    BY <1>1, <2>2, <2>3 DEF AliasInit
  <2>6. rds[target.env][1].spec[target.component] = port /\ rds[target.env][1].cond = "Active"
        /\ DOMAIN rds[target.env] = {1}
    BY <1>3, <2>3, <2>4
  <2>7. PublicPorts(a) = {port} \ {NoPort}
    <3>1. TargetEnv(a) = target.env /\ alias[a].target.component = target.component
      BY <2>2, <2>3
    <3> HIDE DEF target, port
    <3> QED BY <2>6, <3>1 DEF PublicPorts
  <2>8. RouteTo(a, port) = [owner |-> 1, component |-> target.component, port |-> port]
    BY <2>2 DEF RouteTo
  <2> HIDE DEF target, port
  <2> QED BY <2>3, <2>5, <2>7, <2>8 DEF Routed
<1> QED BY <1>4, <1>5, <1>6 DEF RouteInv, RouteOf, SyncedOf, RouteAt, AliasAt

(* Once its Sync is done, with no event of a RadixDeployment on its way, an alias of the
   application has the HTTPRoute to the public port of its component in the RadixDeployment
   that is active, and none when there is none, whatever rollouts, changes of the alias,
   late caches, failures, emptied namespaces and restarts came before: unless a stale cache
   made that Sync believe the HTTPRoute was there, the namespace was emptied under it, or
   an event of a RadixDeployment was dropped since it began.  dnsalias/gateway.go,
   operator/dnsalias. *)
THEOREM AliasesAreRouted == Spec => []AliasFollows
<1>1. IInv /\ RouteInv => AliasFollows
  <2> SUFFICES ASSUME IInv, RouteInv, NEW a \in Aliases, Own(a), AliasQuiet(a), a \notin misrouted,
                      rollout[TargetEnv(a)] = "done"
               PROVE  Routed(a)
    BY DEF AliasFollows, Routed, PublicPorts, TargetEnv, RouteTo
  <2>1. ~RouteDue(a) /\ AliasAt(a, "idle")
    <3>1. \A e : ~RdNews(e)
      BY DEF AliasQuiet, RdNews
    <3> QED BY <3>1 DEF AliasQuiet, RouteDue
  <2> QED BY <2>1 DEF RouteInv, RouteOf, RouteAt
<1>2. Spec => []RouteInv
  BY RouteStart, RouteStep, Inductive, PTL DEF Spec
<1> QED BY <1>1, <1>2, Inductive, PTL

-----------------------------------------------------------------------------
(* A RadixEnvironment has its namespace *)

(* A Sync of the environment is queued, or an event on its way will queue one. *)
Noted(e) == e \in reEdited \cup nsGone \cup rolesGone \cup envPending

EnvDue(e) == Noted(e) \/ reSeen[e].uid # re[e].uid \/ reSeen[e].egress # re[e].egress

Synced(e) == envSync[e].own.uid = re[e].uid /\ envSync[e].own.egress = re[e].egress

Owned(e) == ns[e].phase # "none" /\ ns[e].owner = re[e].uid
Bound(e) == ns[e].phase = "active" => roles[e] # 0
Ruled(e) == ns[e].phase = "active" => policy[e] = re[e].egress

(* The Sync has done what comes before the step it is at, or is about to fail. *)
HousedAt(e) ==
  \/ At(e, "status") /\ envSync[e].failed
  \/ /\ At(e, "idle") \/ Synced(e)
     /\ At(e, "lookup") \/ At(e, "namespace") \/ Owned(e)
     /\ At(e, "idle") \/ At(e, "egress") \/ At(e, "status") => Bound(e)
     /\ At(e, "idle") \/ At(e, "status") => Ruled(e)

(* Role bindings that are gone, though the cache has them, are an event to come. *)
RolesNoted(e) == rolesSeen[e] # 0 /\ roles[e] = 0 => e \in rolesGone

SyncOfOne(e) == At(e, "idle") \/ envSync[e].own.uid # 0

Housed(e) ==
  /\ RolesNoted(e) /\ SyncOfOne(e)
  /\ Exists(e) => EnvDue(e) \/ HousedAt(e)

HouseInv == \A e \in Envs : Housed(e)

(* Nothing that the namespace of e depends on is other than it was. *)
HouseKeptFor(e) ==
  /\ re'[e].uid = re[e].uid /\ re'[e].egress = re[e].egress /\ reSeen'[e] = reSeen[e]
  /\ ns'[e] = ns[e] /\ roles'[e] = roles[e] /\ rolesSeen'[e] = rolesSeen[e] /\ policy'[e] = policy[e]
  /\ envSync'[e] = envSync[e]
  /\ e \in rolesGone => e \in rolesGone'
  /\ Noted(e) => Noted(e)'

LEMMA HouseKept == ASSUME NEW e \in Envs, Housed(e), HouseKeptFor(e) PROVE Housed(e)'
<1>1. /\ Exists(e)' = Exists(e) /\ Synced(e)' = Synced(e) /\ Owned(e)' = Owned(e)
      /\ Bound(e)' = Bound(e) /\ Ruled(e)' = Ruled(e) /\ \A pc : At(e, pc)' = At(e, pc)
  BY DEF HouseKeptFor, Exists, Synced, Owned, Bound, Ruled, At
<1>2. HousedAt(e)' = HousedAt(e)
  BY <1>1 DEF HousedAt, HouseKeptFor
<1>3. EnvDue(e) => EnvDue(e)'
  BY DEF EnvDue, HouseKeptFor
<1>4. RolesNoted(e)' /\ SyncOfOne(e)'
  BY <1>1 DEF Housed, RolesNoted, SyncOfOne, HouseKeptFor
<1> QED BY <1>1, <1>2, <1>3, <1>4 DEF Housed

(* The steps that only concern other parts of the application. *)
LEMMA OthersHoused ==
  ASSUME HouseInv, UNCHANGED <<re, reSeen, reEdited, ns, roles, rolesSeen, policy, nsGone, rolesGone, envSync>>,
         envPending \subseteq envPending'
  PROVE  HouseInv'
BY HouseKept DEF HouseInv, HouseKeptFor, Noted

(* The steps that concern one environment only. *)
LEMMA OneHoused ==
  ASSUME HouseInv, NEW f \in Envs, \A e \in Envs \ {f} : HouseKeptFor(e), Housed(f)'
  PROVE  HouseInv'
BY HouseKept DEF HouseInv

LEMMA OtherEnvs ==
  ASSUME IInv, NEW f \in Envs, OfEnvironment(f), NEW e \in Envs \ {f}
  PROVE  HouseKeptFor(e)
<1>0. /\ re \in [Envs -> EnvRecords] /\ reSeen \in [Envs -> EnvRecords] /\ ns \in [Envs -> Namespaces]
      /\ roles \in [Envs -> Nat] /\ rolesSeen \in [Envs -> Nat] /\ policy \in [Envs -> Egress \cup {NoEnv}]
      /\ envSync \in [Envs -> EnvSyncs]
  BY DEF IInv, EnvTyped
<1>1. CASE EnvEvent(f)
  BY <1>0, <1>1 DEF EnvEvent, DeliverEnvironment, DeliverRoles, DeliverNamespaceGone, Owner, kube, caches, HouseKeptFor, Noted
<1>2. CASE EnvSyncStep(f)
  BY <1>0, <1>2 DEF EnvSyncStep, StartEnvSync, LookUpApplication, PutNamespace, ApplyRoles, ApplyEgress, SyncEnvStatus,
    Goto, Fail, EnvRequeue, kube, caches, HouseKeptFor, Noted
<1>3. CASE EnvFault(f)
  BY <1>0, <1>3 DEF EnvFault, EnvSyncFails, UserDeletes, DeleteNamespace, Terminate, Fail, EnvRequeue, kube, caches,
    HouseKeptFor, Noted
<1>4. CASE Kubernetes(f)
  <2>1. CollectNamespace(f) \/ CollectRoles(f) \/ RemoveNamespace(f) \/ EmptyNamespace(f)
    BY <1>4 DEF Kubernetes
  <2> QED BY <1>0, <2>1 DEF CollectNamespace, CollectRoles, RemoveNamespace, EmptyNamespace, Terminate, kube, caches,
    HouseKeptFor, Noted
<1>5. CASE Deletion("cron", f) \/ Deletion("user", f)
  BY <1>0, <1>5 DEF Deletion, DeleteEnvironment, kube, caches, HouseKeptFor, Noted
<1> QED BY <1>1, <1>2, <1>3, <1>4, <1>5 DEF OfEnvironment

(* The Sync moves on, keeping what it has. *)
LEMMA EnvSyncMoves ==
  ASSUME IInv, NEW f \in Envs
  PROVE  /\ \A pc : Goto(f, pc) => envSync'[f].pc = pc /\ envSync'[f].own = envSync[f].own
         /\ Fail(f) => /\ envSync'[f].pc = "status" /\ envSync'[f].failed
                       /\ envSync'[f].own = envSync[f].own
<1>0. envSync \in [Envs -> EnvSyncs] /\ envSync[f] \in EnvSyncs
  BY DEF IInv, EnvTyped
<1>1. ASSUME NEW pc, Goto(f, pc) PROVE envSync'[f].pc = pc /\ envSync'[f].own = envSync[f].own
  BY <1>0, <1>1 DEF Goto, EnvSyncs
<1>2. ASSUME Fail(f)
      PROVE  envSync'[f].pc = "status" /\ envSync'[f].failed /\ envSync'[f].own = envSync[f].own
  <2> DEFINE moved == [envSync[f] EXCEPT !.pc = "status"]
  <2>1. moved \in EnvSyncs /\ moved.pc = "status" /\ moved.own = envSync[f].own
    BY <1>0 DEF EnvSyncs
  <2>2. envSync'[f] = [moved EXCEPT !.failed = TRUE]
    BY <1>0, <1>2 DEF Fail
  <2> HIDE DEF moved
  <2> QED BY <2>1, <2>2 DEF EnvSyncs
<1> QED BY <1>1, <1>2

LEMMA EventHoused ==
  ASSUME IInv, HouseInv, NEW f \in Envs,
         DeliverEnvironment(f) \/ DeliverRoles(f) \/ DeliverNamespaceGone(f)
  PROVE  Housed(f)'
<1>0. /\ reSeen \in [Envs -> EnvRecords] /\ rolesSeen \in [Envs -> Nat] /\ Housed(f)
  BY DEF IInv, EnvTyped, HouseInv
<1>1. /\ UNCHANGED <<re, ns, roles, policy, envSync>>
  BY DEF DeliverEnvironment, DeliverRoles, DeliverNamespaceGone, kube
<1>2. /\ Exists(f)' = Exists(f) /\ HousedAt(f)' = HousedAt(f) /\ SyncOfOne(f)' = SyncOfOne(f)
  BY <1>1 DEF Exists, HousedAt, Synced, Owned, Bound, Ruled, At, SyncOfOne
<1>3. RolesNoted(f)'
  BY <1>0, <1>1 DEF DeliverEnvironment, DeliverRoles, DeliverNamespaceGone, caches, kube, Housed, RolesNoted
<1>4. Exists(f) /\ EnvDue(f) => EnvDue(f)'
  <2>1. CASE DeliverEnvironment(f)
    <3>1. reSeen'[f] = re[f] /\ UNCHANGED <<nsGone, rolesGone>>
      BY <1>0, <2>1 DEF DeliverEnvironment, kube
    <3>2. Exists(f) /\ f \notin envPending' =>
            f \notin reEdited /\ f \notin envPending /\ re[f].uid = reSeen[f].uid /\ re[f].egress = reSeen[f].egress
      BY <2>1 DEF DeliverEnvironment, NotifiedOfEnvironment, Exists
    <3> QED BY <3>1, <3>2 DEF EnvDue, Noted
  <2>2. CASE DeliverRoles(f)
    BY <2>2 DEF DeliverRoles, Owner, EnvDue, Noted
  <2>3. CASE DeliverNamespaceGone(f)
    BY <2>3 DEF DeliverNamespaceGone, Owner, caches, EnvDue, Noted
  <2> QED BY <2>1, <2>2, <2>3
<1> QED BY <1>0, <1>2, <1>3, <1>4 DEF Housed

LEMMA SyncHoused ==
  ASSUME IInv, HouseInv, NEW f \in Envs,
         \/ StartEnvSync(f) \/ LookUpApplication(f) \/ PutNamespace(f)
         \/ ApplyRoles(f) \/ ApplyEgress(f) \/ SyncEnvStatus(f) \/ EnvSyncFails(f)
  PROVE  Housed(f)'
<1> DEFINE own == envSync[f].own
<1>0. /\ re \in [Envs -> EnvRecords] /\ ns \in [Envs -> Namespaces] /\ roles \in [Envs -> Nat]
      /\ policy \in [Envs -> Egress \cup {NoEnv}] /\ envSync \in [Envs -> EnvSyncs] /\ envSync[f] \in EnvSyncs
      /\ Housed(f)
  BY DEF IInv, EnvTyped, HouseInv
<1>1. UNCHANGED <<reSeen, reEdited, rolesSeen, nsGone, rolesGone>>
  BY DEF StartEnvSync, LookUpApplication, PutNamespace, ApplyRoles, ApplyEgress, SyncEnvStatus, EnvSyncFails, kube, caches
<1>2. CASE EnvRequeue(f) /\ UNCHANGED roles
  <2>1. f \in envPending' /\ envSync'[f].pc = "idle"
    BY <1>0, <1>2 DEF EnvRequeue, EnvIdle
  <2> QED BY <1>0, <1>1, <1>2, <2>1 DEF Housed, RolesNoted, SyncOfOne, EnvDue, Noted, At
<1>3. CASE Fail(f) /\ UNCHANGED roles /\ ~At(f, "idle")
  <2>1. envSync'[f].pc = "status" /\ envSync'[f].failed /\ envSync'[f].own = own
    BY <1>3, EnvSyncMoves
  <2> QED BY <1>0, <1>1, <1>3, <2>1 DEF Housed, RolesNoted, SyncOfOne, HousedAt, At
<1>4. CASE StartEnvSync(f)
  <2>1. CASE ~Exists(f)
    <3>1. UNCHANGED <<re, roles, envSync>>
      BY <1>4, <2>1 DEF StartEnvSync, kube
    <3> QED BY <1>0, <1>1, <2>1, <3>1 DEF Housed, RolesNoted, SyncOfOne, Exists, At
  <2>2. CASE Exists(f)
    <3>1. envSync'[f].pc = "lookup" /\ envSync'[f].own = re[f] /\ UNCHANGED <<re, roles>>
      <4> DEFINE moved == [envSync[f] EXCEPT !.pc = "lookup"]
      <4>1. moved \in EnvSyncs /\ moved.pc = "lookup"
        BY <1>0 DEF EnvSyncs
      <4>2. envSync'[f] = [moved EXCEPT !.own = re[f]] /\ UNCHANGED <<re, roles>>
        BY <1>0, <1>4, <2>2 DEF StartEnvSync, kube
      <4> HIDE DEF moved
      <4> QED BY <4>1, <4>2 DEF EnvSyncs
    <3> QED BY <1>0, <1>1, <2>2, <3>1 DEF Housed, RolesNoted, SyncOfOne, Exists, HousedAt, Synced, At
  <2> QED BY <2>1, <2>2
(* The steps in the middle: what is due stays due. *)
<1>5. ASSUME UNCHANGED <<re, envPending>>, ~At(f, "idle"), envSync'[f].own = own, RolesNoted(f)',
             Exists(f) /\ ~EnvDue(f) /\ HousedAt(f) => HousedAt(f)'
      PROVE  Housed(f)'
  <2>1. EnvDue(f)' = EnvDue(f) /\ Exists(f)' = Exists(f)
    BY <1>1, <1>5 DEF EnvDue, Noted, Exists
  <2> QED BY <1>0, <1>5, <2>1 DEF Housed, SyncOfOne
<1>6. CASE LookUpApplication(f)
  <2>1. envSync'[f].pc = "namespace" /\ envSync'[f].own = own
    <3>1. CASE Goto(f, "namespace")
      BY <3>1, EnvSyncMoves
    <3>2. CASE ~Goto(f, "namespace")
      <4> DEFINE moved == [envSync[f] EXCEPT !.pc = "namespace"]
      <4>1. moved \in EnvSyncs /\ moved.pc = "namespace" /\ moved.own = own
        BY <1>0 DEF EnvSyncs
      <4>2. envSync'[f] = [moved EXCEPT !.found = Configured(f)]
        BY <1>0, <1>6, <3>2 DEF LookUpApplication
      <4> HIDE DEF moved
      <4> QED BY <4>1, <4>2 DEF EnvSyncs
    <3> QED BY <3>1, <3>2
  <2>2. UNCHANGED <<re, envPending, roles>> /\ At(f, "lookup")
    BY <1>6 DEF LookUpApplication, kube
  <2>3. RolesNoted(f)'
    BY <1>0, <1>1, <2>2 DEF Housed, RolesNoted
  <2>4. HousedAt(f) => HousedAt(f)'
    BY <2>1, <2>2 DEF HousedAt, Synced, At
  <2> QED BY <1>5, <2>1, <2>2, <2>3, <2>4 DEF At
<1>7. CASE PutNamespace(f)
  <2>1. envSync'[f].pc = "roles" /\ envSync'[f].own = own
    BY <1>7, EnvSyncMoves DEF PutNamespace
  <2>2. UNCHANGED <<re, envPending, roles>> /\ At(f, "namespace")
    BY <1>7 DEF PutNamespace
  <2>3. RolesNoted(f)'
    BY <1>0, <1>1, <2>2 DEF Housed, RolesNoted
  <2>4. ns'[f].phase # "none" /\ ns'[f].owner = own.uid
    BY <1>0, <1>7 DEF PutNamespace
  <2>5. HousedAt(f) => HousedAt(f)'
    BY <2>1, <2>2, <2>4 DEF HousedAt, Synced, Owned, At
  <2> QED BY <1>5, <2>1, <2>2, <2>3, <2>5 DEF At
<1>8. CASE ApplyRoles(f) /\ ~Fail(f)
  <2>1. /\ envSync'[f].pc = "egress" /\ envSync'[f].own = own
        /\ UNCHANGED <<re, ns, envPending>> /\ At(f, "roles")
        /\ (rolesSeen[f] = own.uid /\ UNCHANGED roles) \/ roles'[f] = own.uid
    BY <1>0, <1>8, EnvSyncMoves DEF ApplyRoles
  <2>2. own.uid # 0
    BY <1>0, <2>1 DEF Housed, SyncOfOne, At
  <2>3. RolesNoted(f)'
    BY <1>0, <1>1, <2>1, <2>2 DEF Housed, RolesNoted
  <2>4. ~EnvDue(f) => roles'[f] # 0
    BY <1>0, <2>1, <2>2 DEF Housed, RolesNoted, EnvDue, Noted
  <2>5. ~EnvDue(f) /\ HousedAt(f) => HousedAt(f)'
    BY <2>1, <2>4 DEF HousedAt, Synced, Owned, Bound, At
  <2> QED BY <1>5, <2>1, <2>3, <2>5 DEF At
<1>9. CASE ApplyEgress(f) /\ ~Fail(f)
  <2>1. /\ envSync'[f].pc = "status" /\ envSync'[f].own = own
        /\ UNCHANGED <<re, ns, roles, envPending>> /\ At(f, "egress") /\ policy'[f] = own.egress
    BY <1>0, <1>9, EnvSyncMoves DEF ApplyEgress
  <2>2. RolesNoted(f)'
    BY <1>0, <1>1, <2>1 DEF Housed, RolesNoted
  <2>3. HousedAt(f) => HousedAt(f)'
    BY <2>1 DEF HousedAt, Synced, Owned, Bound, Ruled, At
  <2> QED BY <1>5, <2>1, <2>2, <2>3 DEF At
<1>10. CASE SyncEnvStatus(f) /\ ~EnvRequeue(f)
  <2>1. /\ re[f] = own /\ ~envSync[f].failed /\ envSync' = [envSync EXCEPT ![f] = EnvIdle]
        /\ re' = [re EXCEPT ![f] = Status(own, envSync[f].found)]
        /\ UNCHANGED <<envPending, ns, roles, policy>> /\ At(f, "status")
    BY <1>10 DEF SyncEnvStatus, kube
  <2>2. re'[f].uid = re[f].uid /\ re'[f].egress = re[f].egress
    <3>1. own \in EnvRecords /\ \A found : Status(own, found).uid = own.uid /\ Status(own, found).egress = own.egress
      BY <1>0 DEF EnvSyncs, EnvRecords, Status
    <3> QED BY <1>0, <2>1, <3>1
  <2>3. envSync'[f].pc = "idle"
    BY <1>0, <2>1 DEF EnvIdle
  <2>4. HousedAt(f) => HousedAt(f)'
    BY <2>1, <2>2, <2>3 DEF HousedAt, Owned, Bound, Ruled, At
  <2>5. EnvDue(f)' = EnvDue(f) /\ Exists(f)' = Exists(f)
    BY <1>1, <2>1, <2>2 DEF EnvDue, Noted, Exists
  <2> QED BY <1>0, <1>1, <2>1, <2>3, <2>4, <2>5 DEF Housed, RolesNoted, SyncOfOne, At
<1>11. CASE (ApplyRoles(f) \/ ApplyEgress(f)) /\ Fail(f)
  <2>1. ~At(f, "idle")
    BY <1>11 DEF ApplyRoles, ApplyEgress, At
  <2>2. envSync'[f].pc = "status"
    BY <1>11, EnvSyncMoves
  <2>3. UNCHANGED roles
    BY <1>11, <2>2, EnvSyncMoves DEF ApplyRoles, ApplyEgress
  <2> QED BY <1>3, <1>11, <2>1, <2>3
<1>12. CASE EnvSyncFails(f)
  BY <1>2, <1>3, <1>12 DEF EnvSyncFails, kube, At
<1>13. CASE SyncEnvStatus(f) /\ EnvRequeue(f)
  BY <1>2, <1>13 DEF SyncEnvStatus, kube
<1> QED BY <1>4, <1>6, <1>7, <1>8, <1>9, <1>10, <1>11, <1>12, <1>13


(* What Kubernetes and its users do to the namespace, and the end of the RadixEnvironment. *)
LEMMA TakenAway ==
  ASSUME IInv, HouseInv, NEW f \in Envs,
         \/ CollectNamespace(f) \/ DeleteNamespace(f) \/ CollectRoles(f) \/ RemoveNamespace(f) \/ EmptyNamespace(f)
         \/ UserDeletes(f) \/ \E who \in {"cron", "user"} : DeleteEnvironment(who, f)
  PROVE  Housed(f)'
<1>0. /\ re \in [Envs -> EnvRecords] /\ ns \in [Envs -> Namespaces] /\ roles \in [Envs -> Nat]
      /\ policy \in [Envs -> Egress \cup {NoEnv}] /\ Housed(f)
  BY DEF IInv, EnvTyped, HouseInv
<1>1. UNCHANGED <<reSeen, reEdited, rolesSeen, envPending, envSync>> /\ nsGone \subseteq nsGone' /\ rolesGone \subseteq rolesGone'
  BY DEF CollectNamespace, DeleteNamespace, Terminate, CollectRoles, RemoveNamespace, EmptyNamespace, UserDeletes,
    DeleteEnvironment, kube, caches
<1>2. SyncOfOne(f)'
  BY <1>0, <1>1 DEF Housed, SyncOfOne, At
<1>3. CASE CollectNamespace(f) \/ DeleteNamespace(f)
  <2>1. /\ UNCHANGED <<re, roles, policy>> /\ ns'[f].phase = "terminating" /\ ns'[f].owner = ns[f].owner
        /\ ns[f].phase = "active"
    BY <1>0, <1>3 DEF CollectNamespace, DeleteNamespace, Terminate, Namespaces
  <2>2. HousedAt(f) => HousedAt(f)'
    BY <1>1, <2>1 DEF HousedAt, Synced, Owned, Bound, Ruled, At
  <2> QED BY <1>0, <1>1, <1>2, <2>1, <2>2 DEF Housed, RolesNoted, EnvDue, Noted, Exists
<1>4. CASE CollectRoles(f)
  <2>1. f \in rolesGone'
    BY <1>4 DEF CollectRoles
  <2> QED BY <1>2, <2>1 DEF Housed, RolesNoted, EnvDue, Noted
<1>5. CASE RemoveNamespace(f)
  <2>1. f \in nsGone' /\ UNCHANGED roles
    BY <1>5 DEF RemoveNamespace
  <2> QED BY <1>0, <1>1, <1>2, <2>1 DEF Housed, RolesNoted, EnvDue, Noted
<1>6. CASE EmptyNamespace(f)
  <2>1. /\ UNCHANGED <<re, ns>> /\ ns[f].phase = "terminating" /\ roles'[f] = 0
        /\ (roles[f] # 0 => f \in rolesGone')
    BY <1>0, <1>6 DEF EmptyNamespace
  <2>2. RolesNoted(f)'
    BY <1>0, <1>1, <2>1 DEF Housed, RolesNoted
  <2>3. HousedAt(f) => HousedAt(f)'
    BY <1>1, <2>1 DEF HousedAt, Synced, Owned, Bound, Ruled, At
  <2> QED BY <1>0, <1>1, <1>2, <2>1, <2>2, <2>3 DEF Housed, EnvDue, Noted, Exists
<1>7. CASE UserDeletes(f) \/ \E who \in {"cron", "user"} : DeleteEnvironment(who, f)
  <2>1. UNCHANGED <<ns, roles, policy>> /\ (UNCHANGED re \/ re' = [re EXCEPT ![f] = NoRE])
    BY <1>7 DEF UserDeletes, DeleteEnvironment, kube
  <2>2. RolesNoted(f)'
    BY <1>0, <1>1, <2>1 DEF Housed, RolesNoted
  <2>3. CASE re' = [re EXCEPT ![f] = NoRE]
    <3>1. ~Exists(f)'
      BY <1>0, <2>3 DEF Exists, NoRE
    <3> QED BY <1>2, <2>2, <3>1 DEF Housed
  <2>4. CASE UNCHANGED re
    <3>1. HousedAt(f) => HousedAt(f)'
      BY <1>1, <2>1, <2>4 DEF HousedAt, Synced, Owned, Bound, Ruled, At
    <3> QED BY <1>0, <1>1, <1>2, <2>2, <2>4, <3>1 DEF Housed, EnvDue, Noted, Exists
  <2> QED BY <2>1, <2>3, <2>4
<1> QED BY <1>3, <1>4, <1>5, <1>6, <1>7

LEMMA EnvironmentHoused ==
  ASSUME IInv, HouseInv, NEW f \in Envs, OfEnvironment(f)
  PROVE  HouseInv'
<1>1. \A e \in Envs \ {f} : HouseKeptFor(e)
  BY OtherEnvs
<1>2. Housed(f)'
  BY EventHoused, SyncHoused, TakenAway DEF OfEnvironment, EnvEvent, EnvSyncStep, EnvFault, Kubernetes, Deletion
<1> QED BY <1>1, <1>2, OneHoused

(* A RadixEnvironment that the Sync of the RadixApplication creates is one that the cache
   has not seen, and an update of it is an event. *)
LEMMA EnvironmentsHoused ==
  ASSUME IInv, UidInv, HouseInv, SyncEnvironments,
         UNCHANGED <<reSeen, ns, roles, rolesSeen, policy, nsGone, rolesGone, envSync, envPending>>
  PROVE  HouseInv'
<1>0. re \in [Envs -> EnvRecords] /\ reSeen \in [Envs -> EnvRecords] /\ born \in [Envs -> Nat] /\ reEdited \subseteq Envs
  BY DEF IInv, EnvTyped
<1>1. PICK f \in Envs : GetEnvironment(f) \/ CreateEnvironment(f) \/ UpdateEnvironment(f) \/ ReloadEnvironment(f)
  BY DEF SyncEnvironments, First, Envs
<1>2. CASE UNCHANGED <<re, reEdited>>
  BY <1>2, OthersHoused
<1>3. ASSUME re' = [re EXCEPT ![f] = re'[f]], reEdited \subseteq reEdited',
             reSeen[f].uid # re'[f].uid \/ f \in reEdited'
      PROVE  HouseInv'
  <2>1. \A e \in Envs \ {f} : HouseKeptFor(e)
    BY <1>0, <1>3 DEF HouseKeptFor, Noted
  <2>2. Housed(f)'
    BY <1>3 DEF HouseInv, Housed, RolesNoted, SyncOfOne, EnvDue, Noted, At
  <2> QED BY <2>1, <2>2, OneHoused
<1>4. CASE CreateEnvironment(f) /\ ~Exists(f)
  <2>1. re' = [re EXCEPT ![f] = re'[f]] /\ re'[f].uid = born[f] + 1 /\ UNCHANGED reEdited
    BY <1>0, <1>4 DEF CreateEnvironment, NoRE
  <2>2. reSeen[f].uid \in Nat /\ born[f] \in Nat /\ reSeen[f].uid <= born[f]
    BY <1>0 DEF EnvRecords, UidInv
  <2> QED BY <1>3, <2>1, <2>2
<1>5. CASE UpdateEnvironment(f) /\ re[f] = appSync.old
  <2>1. re' = [re EXCEPT ![f] = re'[f]] /\ reEdited' = reEdited \cup {f}
    BY <1>0, <1>5 DEF UpdateEnvironment
  <2> QED BY <1>3, <2>1
<1> QED BY <1>1, <1>2, <1>4, <1>5 DEF GetEnvironment, CreateEnvironment, UpdateEnvironment, ReloadEnvironment, envObjects

LEMMA HouseStep == IInv /\ AppFlagInv /\ HouseInv /\ [Next]_vars => HouseInv'
<1> SUFFICES ASSUME IInv, AppFlagInv, HouseInv, [Next]_vars PROVE HouseInv'
  OBVIOUS
<1>1. CASE ApplyConfig \/ RemoveConfig
  <2>1. UNCHANGED <<envOwn, envObjects>>
    BY <1>1 DEF ApplyConfig, RemoveConfig
  <2> QED BY <2>1, OthersHoused DEF envOwn, envObjects, kube, caches
<1>2. CASE AppEvent \/ AppFault
  <2>1. UNCHANGED <<envOwn, envObjects>>
    BY <1>2 DEF AppEvent, DeliverEdit, AppFault, AppSyncFails, appRest
  <2> QED BY <2>1, OthersHoused DEF envOwn, envObjects, kube, caches
<1>3. CASE AppSyncStep
  <2>1. UNCHANGED <<reSeen, ns, roles, rolesSeen, policy, nsGone, rolesGone, envSync, envPending>>
    BY <1>3 DEF AppSyncStep, appRest, envOwn, kube, caches
  <2>2. CASE SyncEnvironments
    BY <2>1, <2>2, EnvironmentsHoused DEF AppFlagInv
  <2>3. CASE StartAppSync \/ SyncDNSAliases \/ SyncAppStatus
    <3>1. UNCHANGED <<re, reEdited>>
      BY <2>3 DEF StartAppSync, SyncDNSAliases, ListAliases, DeleteAlias, UpdateAlias, CreateAlias, SyncAppStatus, envObjects
    <3> QED BY <2>1, <3>1, OthersHoused
  <2> QED BY <1>3, <2>2, <2>3 DEF AppSyncStep
<1>4. CASE ApplicationEvent
  <2>1. envPending \subseteq envPending'
    BY <1>4 DEF ApplicationEvent, DeliverApplication
  <2> QED BY <1>4, <2>1, OthersHoused DEF ApplicationEvent, DeliverApplication, kube, caches
<1>5. ASSUME NEW f \in Envs, OfEnvironment(f) PROVE HouseInv'
  BY <1>5, EnvironmentHoused
<1>6. CASE CleanUpRun \/ Clock
  BY <1>6, OthersHoused DEF CleanUpRun, Clock, CleanUp, Tick, kube, caches
<1>7. CASE \/ AliasEvent \/ AliasEventLost \/ RouteEvent
           \/ \E f \in Envs : Deployments(f) \/ Pipelines(f)
           \/ \E a \in Aliases : AliasSyncStep(a) \/ AliasFault(a)
  <2>1. UNCHANGED aliasRest
    BY <1>7 DEF AliasEvent, AliasEventLost, RouteEvent, Deployments, Pipelines, AliasSyncStep, AliasFault
  <2> QED BY <2>1, OthersHoused DEF aliasRest, envVars, kube, caches
<1>8. CASE Crash
  <2>1. /\ UNCHANGED <<re, roles>> /\ rolesSeen' = roles /\ envPending' = {e \in Envs : Exists(e)}
        /\ envSync' = [e \in Envs |-> EnvIdle]
    BY <1>8 DEF Crash, EnvCrash
  <2> QED BY <2>1 DEF HouseInv, Housed, RolesNoted, SyncOfOne, EnvDue, Noted, Exists, At, EnvIdle
<1>9. CASE UNCHANGED vars
  BY <1>9, OthersHoused DEF vars, envVars, kube, caches
<1> QED BY <1>1, <1>2, <1>3, <1>4, <1>5, <1>6, <1>7, <1>8, <1>9 DEF Next, OfEnvironment

LEMMA HouseStart == Init => HouseInv
<1> SUFFICES ASSUME Init, NEW e \in Envs PROVE Housed(e)
  BY DEF HouseInv
<1>1. EnvInit
  BY DEF Init
<1>2. At(e, "idle")
  BY <1>1 DEF EnvInit, EnvIdle, At
<1>3. rolesSeen[e] = roles[e] /\ roles[e] = re[e].uid /\ policy[e] = re[e].egress
  BY <1>1 DEF EnvInit
<1>4. Exists(e) => ns[e] = [phase |-> "active", owner |-> 1] /\ re[e].uid = 1
  BY <1>1 DEF EnvInit, Exists, NoRE
<1> QED BY <1>2, <1>3, <1>4 DEF Housed, RolesNoted, SyncOfOne, HousedAt, Owned, Bound, Ruled, Exists

(* Once the Syncs are done, with no event on its way, every RadixEnvironment has a
   namespace of its own, with its role bindings and its egress rules, whatever deletions
   and creations of the RadixEnvironment, the namespace and the role bindings, failures
   and restarts came before, unless the namespace, or the role bindings of another owner,
   are still on their way out.  environment.go and the handlers of
   operator/environment/controller.go. *)
THEOREM NamespacesFollow == Spec => []NamespaceFollows
<1>1. IInv /\ HouseInv => NamespaceFollows
  <2> SUFFICES ASSUME IInv, HouseInv, NEW e \in Envs, Exists(e), EnvQuiet(e),
                      ns[e].phase # "terminating", roles[e] \in {0, re[e].uid}
               PROVE  /\ ns[e] = [phase |-> "active", owner |-> re[e].uid]
                      /\ roles[e] = re[e].uid /\ policy[e] = re[e].egress
    BY DEF NamespaceFollows
  <2>1. ~EnvDue(e) /\ At(e, "idle")
    BY DEF EnvQuiet, EnvDue, Noted
  <2>2. Owned(e) /\ Bound(e) /\ Ruled(e)
    BY <2>1 DEF HouseInv, Housed, HousedAt, At
  <2>3. ns[e] \in Namespaces /\ ns[e].phase = "active"
    BY <2>2 DEF IInv, EnvTyped, Namespaces, Owned
  <2> QED BY <2>2, <2>3 DEF Namespaces, Owned, Bound, Ruled
<1>2. Spec => []HouseInv
  BY HouseStart, HouseStep, Inductive, FlagsFollow, PTL DEF Spec
<1> QED BY <1>1, <1>2, Inductive, PTL
=============================================================================
