------------------------------ MODULE AppConfig ------------------------------
(***************************************************************************)
(* The RadixApplication of one application: what its pipelines write, what *)
(* the controllers of RadixApplications and RadixEnvironments are told.    *)
(* pipeline-runner/steps/applyconfig, pkg/apis/radix/v1.                   *)
(***************************************************************************)
EXTENDS Integers, Sequences, FiniteSets

CONSTANTS
  EnvSeq,      \* the names of environments, in the order of spec.environments
  Egress,      \* the egress rules an environment may have
  Aliases,     \* the names of DNS aliases
  Components,  \* the names of components
  NoEnv,       \* the environment is not in the RadixApplication
  NoTarget,    \* the alias is not in the RadixApplication
  Configs,     \* bound: the specs of the RadixApplication
  Edits,       \* bound: the specs that may follow a spec
  NoPort,      \* the component is not there, or has no public port
  Ports,       \* the ports a component may publish
  Starts       \* bound: the specs at the start, and how often each disturbance may happen

Envs == {EnvSeq[i] : i \in DOMAIN EnvSeq}

(* What a DNS alias leads to. *)
Targets == [env : Envs, component : Components]

(* The public ports that a RadixDeployment gives to the components. *)
Specs == [Components -> Ports \cup {NoPort}]

Disturbances == {"config", "delete", "lookup", "error", "crash", "user", "namespace", "deploy", "other"}

ASSUME AppConfigAssumption ==
  /\ EnvSeq \in Seq(Envs) /\ EnvSeq # <<>>
  /\ \A i, k \in DOMAIN EnvSeq : EnvSeq[i] = EnvSeq[k] => i = k
  /\ NoEnv \notin Egress /\ NoTarget \notin Targets
  /\ Configs \subseteq [env : [Envs -> Egress \cup {NoEnv}], alias : [Aliases -> Targets \cup {NoTarget}]]
  /\ Edits \in [Configs -> SUBSET Configs]
  /\ NoPort \notin Ports
  /\ Starts \subseteq [config : Configs, spec : Specs, left : [Disturbances -> Nat]]

(* dnsAliasValidator: the environment of an alias is defined in the RadixApplication. *)
ASSUME AliasEnvsAssumption ==
  \A config \in Configs : \A a \in Aliases :
    config.alias[a] # NoTarget => config.env[config.alias[a].env] # NoEnv

VARIABLES
  ra,        \* the RadixApplication as the API server has it
  raStream,  \* its changes that the RadixEnvironment controller is yet to be told of
  raEdited,  \* whether the RadixApplication controller is yet to be told of one
  left       \* what is left of the budget

appVars == <<ra, raStream, raEdited, left>>

Applications == [exists : BOOLEAN, config : Configs]

(* The environment, the alias, is in the RadixApplication. *)
Configured(e) == ra.exists /\ ra.config.env[e] # NoEnv

(* The application has been running for a while. *)
ConfigInit(start) ==
  /\ ra = [exists |-> TRUE, config |-> start.config]
  /\ left = start.left
  /\ raStream = <<>> /\ raEdited = FALSE

ConfigTypeOK ==
  /\ ra \in Applications
  /\ raStream \in Seq(Applications)
  /\ raEdited \in BOOLEAN
  /\ left \in [Disturbances -> Nat]

Spend(d) == left[d] > 0 /\ left' = [left EXCEPT ![d] = @ - 1]

Tell(new) ==
  /\ ra' = new
  /\ raStream' = Append(raStream, new)

(* applyRadixApplication: a pipeline creates the RadixApplication, or updates it
   when the spec is another.  (One that was changed meanwhile fails the pipeline.) *)
Apply(config) ==
  /\ Spend("config")
  /\ config \in Edits[ra.config]
  /\ ra.exists => config # ra.config
  /\ Tell([exists |-> TRUE, config |-> config])
  /\ raEdited' = TRUE

(* The RadixApplication is deleted: no event for its own controller. *)
DeleteApplication ==
  /\ Spend("delete")
  /\ ra.exists
  /\ Tell([ra EXCEPT !.exists = FALSE])
  /\ UNCHANGED raEdited
=============================================================================
