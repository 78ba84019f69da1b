---- MODULE MCRadixJobQueue ----
(* Instances of the job queue: a branch `main' mapped to two environments, a
   branch `release' mapped to one of them. *)
EXTENDS RadixJobQueue

Mapped   == [main |-> {"dev", "prod"}, release |-> {"prod"}]
Moved    == [main |-> {"prod"}, release |-> {"dev"}]
MCRefs == {"main", "release"}
MCEnvs == {"dev", "prod"}
MCFixed == {Mapped}
MCMoving == {Mapped, Moved}

Build(ref) == [type |-> "build-deploy", gitRef |-> ref, env |-> NoEnv]
BuildTo(ref, env) == [type |-> "build-deploy", gitRef |-> ref, env |-> env]
Deploy(env) == [type |-> "deploy", gitRef |-> "main", env |-> env]

MCOutcomes == [j \in Jobs |-> IF j = "c" THEN {"StoppedNoChanges", "Failed"} ELSE {"Succeeded"}]
MCSucceedOrFail == [j \in Jobs |-> {"Succeeded", "Failed"}]
Jobs2 == {"a", "b"}
Jobs3 == {"a", "b", "c"}
TwoSame == [a |-> Build("release"), b |-> Deploy("prod")]
Across == [a |-> Build("main"), b |-> Deploy("dev"), c |-> BuildTo("main", "prod")]

Faults(ds) == [d \in Disturbances |-> IF d \in ds \cup {"calm"} THEN 1 ELSE 0]
Start(done, faults) == [done |-> done, left |-> faults]

(* One job with all kinds of faults, two jobs with one or two, or three undisturbed. *)
FaultsOrMore == {Start({"a", "b"}, Faults({"stop", "crash", "error", "lostReport", "kubeDelete"})),
                 Start({"b"}, Faults({"crash", "lostReport"})), Start({"b"}, Faults({"stop"})), Start({"b"}, Faults({"error"})),
                 Start({}, Faults({}))}
Remapped == {Start({}, Faults({"application"})), Start({"b"}, Faults({"application", "kubeDelete"}))}
OneStop == {Start({}, Faults({"stop"}))}
StopAndError == {Start({}, Faults({"stop", "error"}))}
====
