---------------------------- MODULE ExclusiveJobs ----------------------------
(***************************************************************************)
(* What the operator promises to those who trigger pipelines: a RadixJob   *)
(* claims the environments it targets, or the git ref it builds when no    *)
(* environment is mapped to it, becomes active only when no active job has *)
(* a claim on any of these, gives its claims up when it ends, and ends     *)
(* once.  RadixJobQueue implements it while the branch mapping stays.      *)
(***************************************************************************)

CONSTANTS
  Jobs,      \* RadixJobs
  Claims,    \* [Jobs -> SUBSET S], for some set S of what can be claimed
  Results    \* how a job ends

VARIABLE
  state      \* what is reported of each job

Init == state \in [Jobs -> {"absent"} \cup Results]

Create(j) ==
  /\ state[j] = "absent"
  /\ state' = [state EXCEPT ![j] = "open"]

(* A job becomes active, alone on all it claims. *)
Activate(j) ==
  /\ state[j] = "open"
  /\ \A k \in Jobs \ {j} : state[k] = "active" => Claims[j] \cap Claims[k] = {}
  /\ state' = [state EXCEPT ![j] = "active"]

(* A job ends; one that is stopped, or ends at once, has never been active. *)
End(j) ==
  /\ state[j] \in {"open", "active"}
  /\ state'[j] \in Results
  /\ state' = [state EXCEPT ![j] = state'[j]]

Next == \E j \in Jobs : Create(j) \/ Activate(j) \/ End(j)

Spec == Init /\ [][Next]_state
=============================================================================
