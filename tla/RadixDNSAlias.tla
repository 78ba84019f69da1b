---------------------------- MODULE RadixDNSAlias ----------------------------
(***************************************************************************)
(* The RadixDNSAliases of an application, and the HTTPRoute that each has  *)
(* in the namespace of its environment for as long as the component of the *)
(* active RadixDeployment has a public port.                               *)
(* operator/dnsalias, pkg/apis/dnsalias.                                   *)
(*                                                                         *)
(* A Sync reads the alias and the RadixDeployments from the API server,    *)
(* but the HTTPRoute from a cache, and no event tells of HTTPRoutes.  How  *)
(* a RadixDeployment becomes the active one is RadixDeployment's subject;  *)
(* here it is a rollout in three steps.                                    *)
(***************************************************************************)
EXTENDS AppConfig

VARIABLES
  alias,         \* the RadixDNSAliases as the API server has them
  aliasEdited,   \* those whose creation or change is yet to be delivered
  route,         \* the HTTPRoute of an alias in the namespace of an environment
  routeSeen,     \* ... as the client's cache has it
  rds,           \* the RadixDeployments of each environment, the oldest first
  named,         \* how many RadixDNSAliases of each name there have been
  rollout,       \* what the RadixDeployment syncer is about to do there
  rdEvents,      \* the updates of RadixDeployments yet to be delivered
  aliasPending,  \* the aliases on the work queue
  aliasSync,     \* the Sync in progress of each alias
  misrouted      \* where the last Sync took a stale HTTPRoute for the right one, lost the
                 \* namespace under way, or missed an event since (history variable)

routes  == <<route, routeSeen>>
deploys == <<rds, rollout, rdEvents>>
aliasVars == <<alias, named, aliasEdited, routes, deploys, aliasPending, aliasSync, misrouted>>

NoAlias == [uid |-> 0, app |-> "", target |-> NoTarget]
NoRoute == [owner |-> 0, component |-> "", port |-> NoPort]

RDs == [spec : Specs, cond : {"", "Active", "Inactive"}]

AliasIdle == [pc |-> "idle", own |-> NoAlias, port |-> NoPort]

(* One RadixDeployment of each environment is active, and the aliases are in order. *)
AliasInit(spec) ==
  LET target(a) == ra.config.alias[a]
      port(a) == IF target(a) = NoTarget THEN NoPort ELSE spec[target(a).component]
  IN
  /\ rds = [e \in Envs |-> IF Configured(e) THEN <<[spec |-> spec, cond |-> "Active"]>> ELSE <<>>]
  /\ route = [a \in Aliases |-> [e \in Envs |->
        IF port(a) # NoPort /\ target(a).env = e
          THEN [owner |-> 1, component |-> target(a).component, port |-> port(a)] ELSE NoRoute]]
  /\ alias = [a \in Aliases |-> IF target(a) = NoTarget THEN NoAlias
                                  ELSE [uid |-> 1, app |-> "own", target |-> target(a)]]
  /\ named = [a \in Aliases |-> alias[a].uid]
  /\ routeSeen = route
  /\ rollout = [e \in Envs |-> "done"]
  /\ aliasEdited = {} /\ rdEvents = <<>>
  /\ aliasPending = {}
  /\ aliasSync = [a \in Aliases |-> AliasIdle]
  /\ misrouted = {}

Own(a) == alias[a].app = "own"

-----------------------------------------------------------------------------
(* RadixDeployments *)

Notify(e, change) == rdEvents' = Append(rdEvents, [env |-> e, change |-> change])

(* A pipeline creates a RadixDeployment. *)
Deploy(e, spec) ==
  /\ Spend("deploy")
  /\ rollout[e] = "done"
  /\ rds' = [rds EXCEPT ![e] = Append(@, [spec |-> spec, cond |-> ""])]
  /\ rollout' = [rollout EXCEPT ![e] = "activate"]
  /\ Notify(e, "added")
  /\ UNCHANGED <<alias, named, aliasEdited, routes, aliasPending, aliasSync, misrouted>>

(* Its syncer makes it active, ends the others, deploys it and writes its status. *)
Rollout(e) ==
  LET latest == Len(rds[e]) IN
  /\ rollout[e] # "done"
  /\ \/ /\ rollout[e] = "activate"
        /\ rds' = [rds EXCEPT ![e][latest].cond = "Active"]
        /\ rollout' = [rollout EXCEPT ![e] = "inactivate"]
        /\ Notify(e, "activated")
     \/ /\ rollout[e] = "inactivate"
        /\ rds' = [rds EXCEPT ![e] = [i \in DOMAIN @ |->
                     IF i = latest THEN @[i] ELSE [@[i] EXCEPT !.cond = "Inactive"]]]
        /\ rollout' = [rollout EXCEPT ![e] = "status"]
        /\ Notify(e, "ended")
     \/ /\ rollout[e] = "status"
        /\ rollout' = [rollout EXCEPT ![e] = "done"]
        /\ Notify(e, "reconciled")
        /\ UNCHANGED rds
  /\ UNCHANGED <<alias, named, aliasEdited, routes, aliasPending, aliasSync, misrouted>>

-----------------------------------------------------------------------------
(* Events *)

(* Mutant: a new status is no reason for a Sync. *)
HeardOfCondition(change) == change \in {"added", "activated"}

(* AddFunc and UpdateFunc of the RadixDeployments: every version that has not ended. *)
Heard(change) == change # "ended"

(* enqueueRadixDNSAliasesForRadixDeployment *)
DeliverDeployment ==
  LET event == Head(rdEvents) IN
  /\ rdEvents # <<>>
  /\ rdEvents' = Tail(rdEvents)
  /\ aliasPending' = IF Heard(event.change)
                       THEN aliasPending \cup {a \in Aliases : Own(a) /\ alias[a].target.env = event.env}
                       ELSE aliasPending
  /\ UNCHANGED <<alias, named, aliasEdited, routes, rds, rollout, aliasSync, misrouted>>

(* ... when it fails to list the RadixDNSAliases: it logs that, and the event is gone. *)
LoseDeployment ==
  LET event == Head(rdEvents) IN
  /\ rdEvents # <<>> /\ Heard(event.change)
  /\ Spend("error")
  /\ rdEvents' = Tail(rdEvents)
  /\ misrouted' = misrouted \cup {a \in Aliases : Own(a) /\ alias[a].target.env = event.env}
  /\ UNCHANGED <<alias, named, aliasEdited, routes, rds, rollout, aliasPending, aliasSync>>

(* AddFunc and UpdateFunc of the RadixDNSAliases *)
DeliverAlias(a) ==
  /\ a \in aliasEdited
  /\ aliasEdited' = aliasEdited \ {a}
  /\ aliasPending' = aliasPending \cup {a}
  /\ UNCHANGED <<alias, named, routes, deploys, aliasSync, misrouted>>

DeliverRoute(a, e) ==
  /\ routeSeen[a][e] # route[a][e]
  /\ routeSeen' = [routeSeen EXCEPT ![a][e] = route[a][e]]
  /\ UNCHANGED <<alias, named, aliasEdited, route, deploys, aliasPending, aliasSync, misrouted>>

-----------------------------------------------------------------------------
(* The Sync of an alias *)

AliasAt(a, pc) == aliasSync[a].pc = pc

AliasRequeue(a) ==
  /\ aliasSync' = [aliasSync EXCEPT ![a] = AliasIdle]
  /\ aliasPending' = aliasPending \cup {a}

(* Handler.Sync gets the RadixDNSAlias. *)
StartAliasSync(a) ==
  /\ a \in aliasPending /\ AliasAt(a, "idle")
  /\ aliasPending' = aliasPending \ {a}
  /\ aliasSync' = IF Own(a) THEN [aliasSync EXCEPT ![a].pc = "init", ![a].own = alias[a]] ELSE aliasSync
  /\ misrouted' = misrouted \ {a}
  /\ UNCHANGED <<alias, named, aliasEdited, routes, deploys>>

(* init: the public port of the component in an active RadixDeployment. *)
FindPort(a) ==
  LET own == aliasSync[a].own
      active == {i \in DOMAIN rds[own.target.env] : rds[own.target.env][i].cond = "Active"}
      port(i) == rds[own.target.env][i].spec[own.target.component]
  IN
  /\ AliasAt(a, "init")
  /\ \E p \in IF active = {} THEN {NoPort} ELSE {port(i) : i \in active} :
       aliasSync' = [aliasSync EXCEPT ![a].pc = "route", ![a].port = p]
  /\ UNCHANGED <<alias, named, aliasEdited, routes, deploys, aliasPending, misrouted>>

(* What CreateOrUpdate makes of the cached HTTPRoute: the API server takes it when
   the cache is right, and the namespace is active. *)
PutRoute(a, active) ==
  LET own == aliasSync[a].own
      e == own.target.env
      cached == routeSeen[a][e]
      new == [owner |-> own.uid, component |-> own.target.component, port |-> aliasSync[a].port]
      put == cached # new
      accepted == cached = route[a][e] /\ (cached = NoRoute => e \in active)
  IN
  /\ route' = IF put /\ accepted THEN [route EXCEPT ![a][e] = new] ELSE route
  /\ misrouted' = IF ~put /\ route[a][e] # new THEN misrouted \cup {a} ELSE misrouted
  /\ IF put /\ ~accepted
       THEN AliasRequeue(a)
       ELSE aliasSync' = [aliasSync EXCEPT ![a].pc = "status"] /\ UNCHANGED aliasPending

(* Mutant: an HTTPRoute is left when the component is no longer public. *)
DeleteRouteNot(a) ==
  /\ aliasSync' = [aliasSync EXCEPT ![a].pc = "status"]
  /\ UNCHANGED <<route, misrouted, aliasPending>>

(* Delete asks the API server; an HTTPRoute that is not found is fine. *)
DeleteRoute(a) ==
  /\ route' = [route EXCEPT ![a][aliasSync[a].own.target.env] = NoRoute]
  /\ aliasSync' = [aliasSync EXCEPT ![a].pc = "status"]
  /\ UNCHANGED <<misrouted, aliasPending>>

(* reconcileHTTPRoute *)
ReconcileHTTPRoute(a, active) ==
  /\ AliasAt(a, "route")
  /\ IF aliasSync[a].port = NoPort THEN DeleteRoute(a) ELSE PutRoute(a, active)
  /\ UNCHANGED <<alias, named, aliasEdited, routeSeen, deploys>>

(* syncStatus: refused when the alias has changed, or is gone. *)
SyncAliasStatus(a) ==
  /\ AliasAt(a, "status")
  /\ IF alias[a] = aliasSync[a].own
       THEN aliasSync' = [aliasSync EXCEPT ![a] = AliasIdle] /\ UNCHANGED aliasPending
       ELSE AliasRequeue(a)
  /\ UNCHANGED <<alias, named, aliasEdited, routes, deploys, misrouted>>

(* Any call fails. *)
AliasSyncFails(a) ==
  /\ ~AliasAt(a, "idle")
  /\ Spend("error")
  /\ AliasRequeue(a)
  /\ UNCHANGED <<alias, named, aliasEdited, routes, deploys, misrouted>>

-----------------------------------------------------------------------------
(* The garbage collector deletes the HTTPRoute of an alias that is gone. *)
CollectRoute(a, e) ==
  /\ route[a][e] # NoRoute /\ route[a][e].owner # alias[a].uid
  /\ route' = [route EXCEPT ![a][e] = NoRoute]
  /\ UNCHANGED <<alias, named, aliasEdited, routeSeen, deploys, aliasPending, aliasSync, misrouted>>

(* All that is in a namespace goes with it. *)
EmptyOfRoutes(e) ==
  /\ misrouted' = misrouted \cup {a \in Aliases : ~AliasAt(a, "idle") /\ aliasSync[a].own.target.env = e}
  /\ route' = [a \in Aliases |-> [route[a] EXCEPT ![e] = NoRoute]]
  /\ rds' = [rds EXCEPT ![e] = <<>>]
  /\ rollout' = [rollout EXCEPT ![e] = "done"]
  /\ UNCHANGED <<alias, named, aliasEdited, routeSeen, rdEvents, aliasPending, aliasSync>>

(* Another application takes a name that is free, or gives it up. *)
OtherApplication(a) ==
  /\ Spend("other")
  /\ ~Own(a)
  /\ alias' = [alias EXCEPT ![a] = IF alias[a] = NoAlias THEN [NoAlias EXCEPT !.app = "other"] ELSE NoAlias]
  /\ UNCHANGED <<named, aliasEdited, routes, deploys, aliasPending, aliasSync, misrouted>>

AliasCrash ==
  /\ aliasEdited' = {} /\ rdEvents' = <<>>
  /\ routeSeen' = route
  /\ aliasPending' = {a \in Aliases : Own(a)}
  /\ aliasSync' = [a \in Aliases |-> AliasIdle]
  /\ UNCHANGED <<alias, named, route, rds, rollout, misrouted>>
=============================================================================
