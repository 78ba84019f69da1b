------------------------- MODULE MCRadixApplication -------------------------
(* Instances of an application. *)
EXTENDS RadixApplication, TLC

MCEnvs == <<"dev", "prod">>

Config(dev, prod, www) ==
  [env |-> [e \in Envs |-> IF e = "dev" THEN dev ELSE prod], alias |-> [a \in Aliases |-> www]]
To(e, c) == [env |-> e, component |-> c]

Open == Config("open", NoEnv, NoTarget)
Closed == Config("closed", NoEnv, NoTarget)
DevOnly == Config("open", NoEnv, To("dev", "web"))
Empty == Config(NoEnv, NoEnv, NoTarget)
ProdOpen == Config(NoEnv, "open", NoTarget)
ProdClosed == Config(NoEnv, "closed", NoTarget)

Both == Config("open", "open", NoTarget)
DevWeb == Config("open", "open", To("dev", "web"))
DevApi == Config("open", "open", To("dev", "api"))
ProdWeb == Config("open", "open", To("prod", "web"))

MCConfigs == {Open, Closed, Empty, ProdOpen, ProdClosed, DevOnly, Both, DevWeb, DevApi, ProdWeb}
MCEdits == [c \in Configs |-> CASE c = Open -> {Empty}
                                [] c = Closed -> {Open}
                                [] c = Empty -> {Open}
                                [] c = ProdOpen -> {ProdClosed}
                                [] c = ProdClosed -> {ProdOpen}
                                [] c = DevOnly -> {Empty}
                                [] c = Both -> {DevWeb}
                                [] c = DevWeb -> {Both, DevApi, ProdWeb}
                                [] c = DevApi -> {DevWeb}
                                [] c = ProdWeb -> {DevApi}]

None == [d \in Disturbances |-> 0]
Public == [c \in Components |-> 80]
Start(config, some) == [config |-> config, spec |-> Public, left |-> some @@ None]
MCStarts ==
  {Start(Open, "config" :> 1 @@ d :> 1) : d \in {"error", "lookup", "user", "other"}}
  \cup {Start(Closed, "config" :> 1 @@ "delete" :> 1), Start(ProdOpen, "config" :> 2 @@ "crash" :> 1)}
  \cup {Start(Empty, d @@ "config" :> 1) : d \in {"config" :> 2, "crash" :> 1}}
  \cup {Start(DevOnly, "crash" :> 1 @@ d :> 1) : d \in {"deploy", "namespace"}}
  \cup {Start(DevApi, "deploy" :> 1 @@ d :> 1) : d \in {"config", "error"}}
  \cup {Start(DevWeb, "config" :> 1 @@ "error" :> 1), Start(DevWeb, "config" :> 2 @@ "other" :> 2)}

(* The operator is started while the API server fails one lookup. *)
Outage == {Start(Open, "crash" :> 1 @@ "lookup" :> 1)}
====
