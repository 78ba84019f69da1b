---- MODULE MCRadixDeployment ----
(* Instances of an environment: two old RadixDeployments and two new ones. *)
EXTENDS RadixDeployment

MCRds3 == {"b", "c", "d"}
MCRds == {"a", "b", "c", "d"}
MCComponents == {"web", "api"}
MCComponentsOf3 == [b |-> {"web", "api"}, c |-> {"web"}, d |-> {"web", "api"}]
MCComponentsOf == [a |-> {"web"}, b |-> {"web", "api"}, c |-> {"web"}, d |-> {"web", "api"}]

Was(from, to) == [exists |-> TRUE, created |-> from, from |-> from, to |-> to,
                  cond |-> "Inactive", spec |-> 0, reconciled |-> TRUE]
Is(from) == [Was(from, 0) EXCEPT !.cond = "Active"]
MCRd3 == [b |-> Is(2), c |-> Absent, d |-> Absent]
MCRd0 == [a |-> Was(1, 2), b |-> Is(2), c |-> Absent, d |-> Absent]

(* A deploy pipeline does all that the others do: apply-config deletes nothing,
   promote does not wait. *)
DeployOnly == {"deploy"}

Only(these) == [x \in Disturbances |-> IF x \in these THEN 1 ELSE 0]
Faults == {Only({"error", "crash"}), Only({"timeout"}), Only({"event"}), Only({"registration"})}
NoFaults == {Only({})}
Restarts == {Only({"edit"}), Only({"crash"})}

(* What the theorems about pipelines that follow each other assume is so in the
   instance where they do. *)
ASSUME SerialAssumption == ~Overlap => OneByOne
====
