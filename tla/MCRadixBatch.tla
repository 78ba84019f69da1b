---- MODULE MCRadixBatch ----
(* Instances of a batch of two jobs. *)
EXTENDS RadixBatch

TwoJobs == <<"x", "y">>
OneEnd == [x |-> {"succeeded"}, y |-> {"failed"}]
MCRequests == [stop |-> {{"y"}, {"x", "y"}}, restart |-> {{"x"}, {"y"}}]

Only(these) == [d \in Disturbances |-> IF d \in these THEN 1 ELSE 0]

Fresh(these) == [batch |-> Batch0, kj |-> [j \in Jobs |-> NoKubeJob], left |-> Only(these)]

(* One job has succeeded, and its Kubernetes Job has expired, the other was stopped. *)
Ended(these) ==
  [batch |-> [Batch0 EXCEPT !.cond = "Completed", !.spec["y"].stop = TRUE, !.status =
                [x |-> [phase |-> "Succeeded", restart |-> 0], y |-> [phase |-> "Stopped", restart |-> 0]]],
   kj |-> [j \in Jobs |-> NoKubeJob], left |-> Only(these)]

(* One job runs, the other was stopped; a restart meets two errors. *)
Running ==
  [batch |-> [Batch0 EXCEPT !.cond = "Active", !.spec["y"].stop = TRUE, !.status =
                [x |-> [phase |-> "Active", restart |-> 0], y |-> [phase |-> "Stopped", restart |-> 0]]],
   kj |-> [x |-> KubeJob("active", 0), y |-> NoKubeJob],
   left |-> [Only({"restart"}) EXCEPT !["error"] = 2]]

OneStop == {Fresh({"stop"})}
Faults == {Fresh({"stop", "error"}), Fresh({"kubeDelete", "crash"}), Fresh({"rdDelete"})} \cup
          {Ended({"restart", d}) : d \in Disturbances \ {"restart"}} \cup
          {[Ended({"restart"}) EXCEPT !.left["restart"] = 2], [Fresh({"stop"}) EXCEPT !.left["stop"] = 2], Running}
====
