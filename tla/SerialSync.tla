----------------------------- MODULE SerialSync -----------------------------
(***************************************************************************)
(* What operator/common promises to the syncers of the operator: in each   *)
(* partition (a namespace, or a name) at most one Sync at a time.  A Sync  *)
(* reads the object, and takes effect, is tried again or is abandoned      *)
(* before the next Sync of the partition begins.  RadixJobQueue,           *)
(* RadixDeployment, RadixBatch and RadixApplication are written for one    *)
(* Sync at a time in this sense; Controller implements it.                 *)
(***************************************************************************)
EXTENDS Naturals

CONSTANTS
  Items,      \* the resources
  LockKeys,   \* the partitions
  LockKey,    \* [Items -> LockKeys]
  NoItem      \* no resource

VARIABLES
  ver,        \* changes made to a resource
  synced,     \* version read by its last Sync that took effect
  active,     \* partition -> resource of the Sync in progress
  seen        \* partition -> version that Sync has read, 0 before it reads

vars == <<ver, synced, active, seen>>

Init ==
  /\ ver = [i \in Items |-> 1]
  /\ synced = [i \in Items |-> 0]
  /\ active = [k \in LockKeys |-> NoItem]
  /\ seen = [k \in LockKeys |-> 0]

Change(i) ==
  /\ ver' = [ver EXCEPT ![i] = @ + 1]
  /\ UNCHANGED <<synced, active, seen>>

(* A Sync begins only in a partition that has none. *)
Begin(i) ==
  /\ active[LockKey[i]] = NoItem
  /\ active' = [active EXCEPT ![LockKey[i]] = i]
  /\ UNCHANGED <<ver, synced, seen>>

ReadObject(k) ==
  /\ active[k] # NoItem /\ seen[k] = 0
  /\ seen' = [seen EXCEPT ![k] = ver[active[k]]]
  /\ UNCHANGED <<ver, synced, active>>

(* The Sync takes effect, once, with what it read. *)
Commit(k) ==
  /\ active[k] # NoItem /\ seen[k] # 0
  /\ synced' = [synced EXCEPT ![active[k]] = seen[k]]
  /\ seen' = [seen EXCEPT ![k] = 0]
  /\ UNCHANGED <<ver, active>>

(* A conflict or an error: what was read is not used. *)
Abandon(k) ==
  /\ active[k] # NoItem /\ seen[k] # 0
  /\ seen' = [seen EXCEPT ![k] = 0]
  /\ UNCHANGED <<ver, synced, active>>

End(k) ==
  /\ active[k] # NoItem /\ seen[k] = 0
  /\ active' = [active EXCEPT ![k] = NoItem]
  /\ UNCHANGED <<ver, synced, seen>>

(* The process ends: nothing of a Sync in progress is kept. *)
Reset ==
  /\ active' = [k \in LockKeys |-> NoItem]
  /\ seen' = [k \in LockKeys |-> 0]
  /\ UNCHANGED <<ver, synced>>

Next ==
  \/ \E i \in Items : Change(i) \/ Begin(i)
  \/ \E k \in LockKeys : ReadObject(k) \/ Commit(k) \/ Abandon(k) \/ End(k)
  \/ Reset

Spec == Init /\ [][Next]_vars
=============================================================================
