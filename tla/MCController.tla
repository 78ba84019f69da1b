---- MODULE MCController ----
(* An instance of the generic controller, partitioned by namespace like those of
   RadixJob, RadixDeployment and RadixBatch: two resources share a lock, a third
   has its own.  One of each partition changes. *)
EXTENDS Controller

X == [namespace |-> "app-a", name |-> "x"]
Y == [namespace |-> "app-a", name |-> "y"]
Z == [namespace |-> "app-b", name |-> "x"]
MCItems == {X, Y, Z}
MCLockKeys == {"app-a", "app-b"}
MCNamespaceKey == [i \in Items |-> NamespacePartitionKey(i)]
MCVersions == [i \in Items |-> IF i = X THEN 2 ELSE 1]
====
