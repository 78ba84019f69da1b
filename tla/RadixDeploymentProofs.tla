----------------------- MODULE RadixDeploymentProofs -----------------------
(***************************************************************************)
(* Proofs about the RadixDeployments of an environment, for any number of  *)
(* them, any pipelines, any lag of the cache, and any number of edits,     *)
(* errors, timeouts and restarts.                                          *)
(***************************************************************************)
EXTENDS RadixDeployment, SequenceTheorems, FiniteSetTheorems, TLAPS

SyncRecords ==
  [pc : Phases, rd : Rds \cup {NoRd}, tries : 0..MaxAttempts, own : Objects,
   all : [Rds -> Objects], todo : SUBSET Rds, failed : BOOLEAN]

Changes == [rd : Rds, object : Objects]

Resources == [Components -> [rd : Rds \cup {NoRd}, spec : Nat]]

SyncTyped == sync \in SyncRecords /\ (sync.pc # "idle" => sync.rd \in Rds)

LEMMA Constants ==
  /\ MaxAttempts \in Nat \ {0} /\ Kinds \subseteq PipelineKinds
  /\ Clock0 \in Nat /\ Rd0 \in [Rds -> Objects] /\ Budgets \subseteq [Disturbances -> Nat]
<1>1. MaxAttempts \in Nat \ {0} /\ Kinds \subseteq PipelineKinds /\ Rd0 \in [Rds -> Objects]
  BY ConstantsAssumption, Zenon
<1>2. Clock0 \in Nat \ {0} /\ Budgets \subseteq [Disturbances -> Nat]
  BY ConstantsAssumption, Zenon
<1> QED BY <1>1, <1>2

LEMMA IdleType == Absent \in Objects /\ Idle \in SyncRecords /\ Idle.pc = "idle"
<1>1. Absent \in Objects
  BY DEF Absent, Objects, Conditions
<1>2. 0 \in 0..MaxAttempts /\ Rd0 \in [Rds -> Objects]
  BY Constants
<1> QED BY <1>1, <1>2 DEF Idle, SyncRecords, Phases

LEMMA ResourcesType ==
  ASSUME NEW r \in Rds, NEW copy \in Objects
  PROVE  ResourcesOf(r, copy) \in Resources
<1>1. Nothing \in [rd : Rds \cup {NoRd}, spec : Nat]
  BY DEF Nothing
<1>2. [rd |-> r, spec |-> copy.spec] \in [rd : Rds \cup {NoRd}, spec : Nat]
  BY DEF Objects
<1> QED BY <1>1, <1>2 DEF ResourcesOf, Resources

LEMMA TimeType == ASSUME NEW o \in Objects PROVE ActiveFrom(o) \in Nat
  BY DEF ActiveFrom, Objects

LEMMA PreviousType ==
  ASSUME TypeOK, NEW r \in Rds PROVE Previous(r) \subseteq Nat
<1>1. sync.own \in Objects /\ \A k \in Rds : sync.all[k] \in Objects
  BY DEF TypeOK
<1> QED BY <1>1, TimeType DEF Previous, Existing

LEMMA BeginType ==
  ASSUME TypeOK, NEW r \in Rds, NEW try \in 1..MaxAttempts, Begin(r, try)
  PROVE  SyncTyped'
<1>1. CASE sync' = Idle
  BY <1>1, IdleType DEF SyncTyped
<1>2. CASE sync' = [Idle EXCEPT !.pc = "activate", !.rd = r, !.tries = try, !.own = rd[r], !.all = seen]
  <2>1. sync' = [pc |-> "activate", rd |-> r, tries |-> try, own |-> rd[r], all |-> seen,
                 todo |-> {}, failed |-> FALSE]
    BY <1>2 DEF Idle
  <2>2. try \in 0..MaxAttempts
    BY Constants
  <2>3. rd[r] \in Objects /\ seen \in [Rds -> Objects]
    BY DEF TypeOK
  <2> QED BY <2>1, <2>2, <2>3 DEF SyncTyped, SyncRecords, Phases
<1> QED BY <1>1, <1>2 DEF Begin

LEMMA StoreType ==
  ASSUME TypeOK, NEW r \in Rds, NEW new \in Objects, Store(r, new)
  PROVE  rd' \in [Rds -> Objects] /\ stream' \in Seq(Changes)
<1>1. stream \in Seq(Changes) /\ [rd |-> r, object |-> new] \in Changes
  BY DEF TypeOK, Changes
<1>2. Append(stream, [rd |-> r, object |-> new]) \in Seq(Changes)
  BY <1>1, AppendProperties
<1> QED BY <1>1, <1>2 DEF Store, TypeOK

LEMMA RequeueType ==
  ASSUME TypeOK, sync.pc # "idle", Requeue
  PROVE  SyncTyped' /\ pending' \subseteq Rds
  BY IdleType DEF Requeue, SyncTyped, TypeOK

LEMMA RetryType ==
  ASSUME TypeOK, sync.pc # "idle", Retry
  PROVE  SyncTyped' /\ pending' \subseteq Rds
<1>0. sync.rd \in Rds /\ sync.tries \in 0..MaxAttempts /\ pending \subseteq Rds
  BY DEF TypeOK
<1>1. CASE sync.tries < MaxAttempts /\ Begin(sync.rd, sync.tries + 1) /\ UNCHANGED pending
  <2>1. sync.tries + 1 \in 1..MaxAttempts
    BY <1>0, <1>1, Constants
  <2> QED BY <1>0, <1>1, <2>1, BeginType
<1>2. CASE Requeue
  BY <1>2, RequeueType
<1> QED BY <1>1, <1>2 DEF Retry

LEMMA UpdateType ==
  ASSUME TypeOK, sync.pc # "idle", NEW r \in Rds, NEW new \in Objects, NEW copy,
         NEW then \in SyncRecords, then.pc # "idle" => then.rd \in Rds,
         Update(r, copy, new, then)
  PROVE  rd' \in [Rds -> Objects] /\ stream' \in Seq(Changes) /\ SyncTyped' /\ pending' \subseteq Rds
<1>0. rd \in [Rds -> Objects] /\ stream \in Seq(Changes) /\ pending \subseteq Rds
  BY DEF TypeOK, Changes
<1>1. CASE Store(r, new) /\ sync' = then /\ UNCHANGED pending
  BY <1>0, <1>1, StoreType DEF SyncTyped
<1>2. CASE Retry /\ UNCHANGED <<rd, stream>>
  BY <1>0, <1>2, RetryType
<1>3. CASE Requeue /\ UNCHANGED <<rd, stream>>
  BY <1>0, <1>3, RequeueType
<1> QED BY <1>1, <1>2, <1>3 DEF Update

LEMMA TypeStep == TypeOK /\ [Next]_vars => TypeOK'
<1> SUFFICES ASSUME TypeOK, [Next]_vars PROVE TypeOK'
  OBVIOUS
<1>t. /\ clock \in Nat /\ rd \in [Rds -> Objects] /\ seen \in [Rds -> Objects]
      /\ stream \in Seq(Changes) /\ pending \subseteq Rds /\ SyncTyped /\ deployed \in Resources
      /\ runner \in [Rds -> RunnerStates] /\ activated \subseteq Rds /\ left \in [Disturbances -> Nat]
  BY DEF TypeOK, SyncTyped, SyncRecords, Changes, Resources
<1>p. ASSUME clock' \in Nat, rd' \in [Rds -> Objects], seen' \in [Rds -> Objects],
             stream' \in Seq(Changes), pending' \subseteq Rds, SyncTyped', deployed' \in Resources,
             runner' \in [Rds -> RunnerStates], activated' \subseteq Rds, left' \in [Disturbances -> Nat]
      PROVE  TypeOK'
  BY <1>p DEF TypeOK, SyncTyped, SyncRecords, Changes, Resources
<1>s. ASSUME NEW d \in Disturbances, Spend(d) PROVE left' \in [Disturbances -> Nat]
  BY <1>s, <1>t DEF Spend
<1>y. ASSUME UNCHANGED sync PROVE SyncTyped'
  BY <1>y, <1>t DEF SyncTyped
<1>d. ASSUME NEW r \in Rds, Delete(r)
      PROVE  rd' \in [Rds -> Objects] /\ stream' \in Seq(Changes) /\ deployed' \in Resources
  <2>1. [rd[r] EXCEPT !.exists = FALSE] \in Objects
    BY <1>t DEF Objects
  <2>2. deployed' \in Resources
    BY <1>d, <1>t DEF Delete, Resources, Nothing
  <2> QED BY <1>d, <2>1, <2>2, StoreType DEF Delete
<1>n. [c \in Components |-> Nothing] \in Resources
  BY DEF Nothing, Resources
<1>1. ASSUME NEW r \in Rds, CreateRD(r) PROVE TypeOK'
  <2>1. [Absent EXCEPT !.exists = TRUE, !.created = clock] \in Objects
    BY <1>t, IdleType DEF Objects
  <2>2. runner' \in [Rds -> RunnerStates]
    <3>1. PICK kind \in Kinds : runner' = [runner EXCEPT ![r] = IF kind = "promote" THEN "promoted" ELSE kind]
      BY <1>1 DEF CreateRD
    <3> QED BY <3>1, <1>t, Constants DEF RunnerStates, PipelineKinds
  <2>3. rd' \in [Rds -> Objects] /\ stream' \in Seq(Changes)
    BY <1>1, <2>1, StoreType DEF CreateRD
  <2> QED BY <1>1, <2>2, <2>3, <1>p, <1>y, <1>t DEF CreateRD
<1>2. ASSUME NEW r \in Rds, RunnerSeesActive(r) PROVE TypeOK'
  BY <1>2, <1>p, <1>y, <1>t DEF RunnerSeesActive, RunnerStates
<1>3. ASSUME NEW r \in Rds, RunnerGivesUp(r) PROVE TypeOK'
  <2>1. left' \in [Disturbances -> Nat]
    BY <1>3, <1>s, <1>t DEF RunnerGivesUp, Disturbances
  <2>2. rd' \in [Rds -> Objects] /\ stream' \in Seq(Changes) /\ deployed' \in Resources
    BY <1>3, <1>d, <1>t DEF RunnerGivesUp
  <2> QED BY <1>3, <2>1, <2>2, <1>p, <1>y, <1>t DEF RunnerGivesUp, RunnerStates
<1>4. ASSUME NEW r \in Rds, EditRD(r) PROVE TypeOK'
  <2>1. [rd[r] EXCEPT !.spec = @ + 1] \in Objects
    <3>1. rd[r] \in Objects
      BY <1>t
    <3>2. rd[r].spec + 1 \in Nat
      BY <3>1 DEF Objects
    <3> QED BY <3>1, <3>2 DEF Objects
  <2>2. rd' \in [Rds -> Objects] /\ stream' \in Seq(Changes)
    BY <1>4, <2>1, StoreType DEF EditRD
  <2> QED BY <1>4, <2>2, <1>p, <1>y, <1>s, <1>t DEF EditRD, Disturbances
<1>5. ASSUME NEW r \in Rds, OwnedObjectEvent(r) PROVE TypeOK'
  BY <1>5, <1>p, <1>y, <1>s, <1>t DEF OwnedObjectEvent, Disturbances
<1>19. CASE RegistrationChanges
  BY <1>19, <1>p, <1>y, <1>s, <1>t DEF RegistrationChanges, Disturbances
<1>6. ASSUME NEW r \in Rds, StartSync(r) PROVE TypeOK'
  <2>1. SyncTyped'
    BY <1>6, BeginType, Constants DEF StartSync
  <2> QED BY <1>6, <2>1, <1>p, <1>t DEF StartSync
<1>7. CASE Deliver
  <2>1. Head(stream) \in Changes /\ Tail(stream) \in Seq(Changes)
    BY <1>7, <1>t, HeadTailProperties DEF Deliver
  <2>2. seen' \in [Rds -> Objects] /\ pending' \subseteq Rds
    BY <1>7, <2>1, <1>t DEF Deliver, Notified, Changes
  <2> QED BY <1>7, <2>1, <2>2, <1>p, <1>y, <1>t DEF Deliver
<1>8. CASE SetActive
  <2> DEFINE own == IF sync.own.cond = "Active" THEN sync.own
                      ELSE [sync.own EXCEPT !.cond = "Active", !.from = clock]
             others == {k \in Existing(sync.all) \ {sync.rd} : sync.all[k].cond # "Inactive"}
             then == [sync EXCEPT !.own = own, !.todo = others,
                                  !.pc = IF others = {} THEN "deploy" ELSE "inactivate"]
  <2>1. sync.rd \in Rds /\ own \in Objects /\ others \subseteq Rds
    BY <1>8, <1>t DEF SetActive, SyncTyped, SyncRecords, Objects, Conditions, Existing
  <2>2. then \in SyncRecords /\ then.rd \in Rds
    BY <2>1, <1>t DEF SyncTyped, SyncRecords, Phases
  <2>3. Update(sync.rd, sync.own, own, then) /\ sync.pc # "idle"
    BY <1>8 DEF SetActive
  <2> HIDE DEF own, others, then
  <2>4. rd' \in [Rds -> Objects] /\ stream' \in Seq(Changes) /\ SyncTyped' /\ pending' \subseteq Rds
    BY <2>1, <2>2, <2>3, UpdateType
  <2> QED BY <1>8, <2>1, <2>4, <1>p, <1>t DEF SetActive
<1>9. CASE SetInactive
  <2>1. PICK r \in sync.todo : \E prev \in Previous(r) :
          Update(r, sync.all[r],
                 [sync.all[r] EXCEPT !.cond = "Inactive", !.to = prev, !.from = ActiveFrom(sync.all[r])],
                 [sync EXCEPT !.todo = @ \ {r}, !.pc = IF sync.todo = {r} THEN "deploy" ELSE @])
    BY <1>9 DEF SetInactive
  <2>2. PICK prev \in Previous(r) :
          Update(r, sync.all[r],
                 [sync.all[r] EXCEPT !.cond = "Inactive", !.to = prev, !.from = ActiveFrom(sync.all[r])],
                 [sync EXCEPT !.todo = @ \ {r}, !.pc = IF sync.todo = {r} THEN "deploy" ELSE @])
    BY <2>1
  <2>3. r \in Rds /\ sync.all[r] \in Objects /\ sync.rd \in Rds /\ sync.pc # "idle"
    BY <1>9, <1>t DEF SetInactive, SyncTyped, SyncRecords
  <2>4. prev \in Nat /\ ActiveFrom(sync.all[r]) \in Nat
    BY <2>3, PreviousType, TimeType
  <2>5. [sync.all[r] EXCEPT !.cond = "Inactive", !.to = prev, !.from = ActiveFrom(sync.all[r])] \in Objects
    BY <2>3, <2>4 DEF Objects, Conditions
  <2>6. [sync EXCEPT !.todo = @ \ {r}, !.pc = IF sync.todo = {r} THEN "deploy" ELSE @] \in SyncRecords
    BY <1>t DEF SyncTyped, SyncRecords, Phases
  <2>7. rd' \in [Rds -> Objects] /\ stream' \in Seq(Changes) /\ SyncTyped' /\ pending' \subseteq Rds
    BY <2>2, <2>3, <2>5, <2>6, <1>t, UpdateType DEF SyncTyped, SyncRecords
  <2> QED BY <1>9, <2>7, <1>p, <1>t DEF SetInactive
<1>10. CASE SyncDeployment
  <2>1. sync.rd \in Rds /\ sync.own \in Objects /\ SyncTyped'
    BY <1>10, <1>t DEF SyncDeployment, SyncTyped, SyncRecords, Phases
  <2>2. deployed' \in Resources
    BY <1>10, <2>1, <1>n, ResourcesType DEF SyncDeployment
  <2> QED BY <1>10, <2>1, <2>2, <1>p, <1>t DEF SyncDeployment
<1>11. CASE SyncDeploymentFails
  <2>1. sync.rd \in Rds /\ sync.own \in Objects /\ SyncTyped'
    BY <1>11, <1>t DEF SyncDeploymentFails, SyncTyped, SyncRecords, Phases
  <2>2. ResourcesOf(sync.rd, sync.own) \in Resources
    BY <2>1, ResourcesType
  <2>3. deployed' \in Resources
    BY <1>11, <2>2, <1>n, <1>t DEF SyncDeploymentFails, Resources
  <2> QED BY <1>11, <2>1, <2>3, <1>p, <1>s, <1>t DEF SyncDeploymentFails, Disturbances
<1>12. CASE SyncStatus
  <2> DEFINE own == [sync.own EXCEPT !.reconciled = TRUE]
             then == [sync EXCEPT !.pc = "history", !.own = own]
  <2>1. sync.rd \in Rds /\ own \in Objects /\ sync.pc # "idle"
    BY <1>12, <1>t DEF SyncStatus, SyncTyped, SyncRecords, Objects
  <2>2. then \in SyncRecords /\ then.rd \in Rds
    BY <2>1, <1>t DEF SyncTyped, SyncRecords, Phases
  <2>3. CASE sync.failed
    <3>1. rd' \in [Rds -> Objects] /\ stream' \in Seq(Changes)
      BY <1>12, <2>1, <2>3, <1>t, StoreType DEF SyncStatus
    <3>2. SyncTyped' /\ pending' \subseteq Rds
      BY <1>12, <2>1, <2>3, RetryType, RequeueType DEF SyncStatus
    <3> QED BY <1>12, <3>1, <3>2, <1>p, <1>t DEF SyncStatus
  <2>4. CASE ~sync.failed
    <3>1. Update(sync.rd, sync.own, own, then)
      BY <1>12, <2>4 DEF SyncStatus
    <3> HIDE DEF own, then
    <3>2. rd' \in [Rds -> Objects] /\ stream' \in Seq(Changes) /\ SyncTyped' /\ pending' \subseteq Rds
      BY <3>1, <2>1, <2>2, UpdateType
    <3> QED BY <1>12, <3>2, <1>p, <1>t DEF SyncStatus
  <2> QED BY <2>3, <2>4
<1>13. CASE MaintainHistoryLimit
  <2>1. SyncTyped'
    <3>1. CASE sync' = Idle
      BY <3>1, IdleType DEF SyncTyped
    <3>2. ASSUME NEW old \in Victims(seen),
                 sync' = [sync EXCEPT !.pc = "prune",
                                      !.todo = {r \in old \ Referenced : seen[r].cond # "Active"}]
          PROVE  SyncTyped'
      <4>1. {r \in old \ Referenced : seen[r].cond # "Active"} \subseteq Rds
        BY DEF Victims, Existing
      <4>2. sync.pc # "idle"
        BY <1>13 DEF MaintainHistoryLimit
      <4> QED BY <3>2, <4>1, <4>2, <1>t DEF SyncTyped, SyncRecords, Phases
    <3> QED BY <1>13, <3>1, <3>2 DEF MaintainHistoryLimit
  <2> QED BY <1>13, <2>1, <1>p, <1>t DEF MaintainHistoryLimit
<1>14. CASE Prune
  <2>1. CASE sync' = Idle /\ UNCHANGED <<rd, stream, deployed, left>>
    <3>1. SyncTyped'
      BY <2>1, IdleType DEF SyncTyped
    <3> QED BY <1>14, <2>1, <3>1, <1>p, <1>t DEF Prune
  <2>2. ASSUME NEW r \in sync.todo, sync' = [sync EXCEPT !.todo = @ \ {r}],
               \/ Delete(r) /\ UNCHANGED left
               \/ Spend("error") /\ UNCHANGED <<rd, stream, deployed>>
        PROVE  TypeOK'
    <3>1. r \in Rds /\ SyncTyped'
      BY <1>14, <2>2, <1>t DEF Prune, SyncTyped, SyncRecords
    <3>2. /\ rd' \in [Rds -> Objects] /\ stream' \in Seq(Changes) /\ deployed' \in Resources
          /\ left' \in [Disturbances -> Nat]
      BY <2>2, <3>1, <1>d, <1>s, <1>t DEF Disturbances
    <3> QED BY <1>14, <3>1, <3>2, <1>p, <1>t DEF Prune
  <2> QED BY <1>14, <2>1, <2>2 DEF Prune
<1>15. CASE SyncFails
  <2>1. SyncTyped' /\ pending' \subseteq Rds
    BY <1>15, RequeueType DEF SyncFails
  <2> QED BY <1>15, <2>1, <1>p, <1>s, <1>t DEF SyncFails, Disturbances
<1>16. CASE Crash
  <2>1. SyncTyped' /\ pending' \subseteq Rds /\ <<>> \in Seq(Changes)
    BY <1>16, IdleType DEF Crash, SyncTyped
  <2> QED BY <1>16, <2>1, <1>p, <1>s, <1>t DEF Crash, Disturbances
<1>17. CASE Tick
  BY <1>17, <1>p, <1>y, <1>t DEF Tick
<1>18. CASE UNCHANGED vars
  BY <1>18, <1>p, <1>y, <1>t DEF vars
<1> QED BY <1>1, <1>2, <1>3, <1>4, <1>5, <1>6, <1>7, <1>8, <1>9, <1>10, <1>11, <1>12, <1>13, <1>14,
        <1>15, <1>16, <1>17, <1>18, <1>19 DEF Next, SyncStep

(* The stored and cached RadixDeployments, the watch, the Sync in progress and
   what is deployed keep their types. *)
THEOREM TypeCorrect == Spec => []TypeOK
<1>1. Init => TypeOK
  <2> SUFFICES ASSUME Init PROVE TypeOK
    OBVIOUS
  <2>1. deployed \in Resources
    <3>1. \A r \in Rds : ResourcesOf(r, Rd0[r]) \in Resources
      BY ResourcesType, Constants
    <3>2. [c \in Components |-> Nothing] \in Resources
      BY DEF Resources, Nothing
    <3> QED BY <3>1, <3>2 DEF Init
  <2>2. sync \in SyncRecords /\ sync.pc = "idle"
    BY IdleType DEF Init
  <2>3. stream \in Seq(Changes)
    BY EmptySeq DEF Init
  <2>4. runner \in [Rds -> RunnerStates] /\ activated \subseteq Rds
    BY DEF Init, RunnerStates
  <2>5. clock \in Nat /\ rd \in [Rds -> Objects] /\ seen \in [Rds -> Objects] /\ pending \subseteq Rds
        /\ left \in [Disturbances -> Nat]
    BY Constants DEF Init
  <2> QED BY <2>1, <2>2, <2>3, <2>4, <2>5 DEF TypeOK, SyncRecords, Resources, Changes
<1> QED BY TypeStep, <1>1, PTL DEF Spec

-----------------------------------------------------------------------------
(* What the updates rely on: only a RadixDeployment that has been active or is
   inactive has an active-from time, a Sync never holds an inactive copy of its
   own, and it inactivates those only that were not inactive when it listed them. *)
FromKnown(o) == o.cond = "" => o.from = 0

SyncKnows(s) ==
  /\ s.pc # "idle" => s.own.cond # "Inactive"
  /\ s.pc = "inactivate" => \A r \in s.todo : s.all[r].cond # "Inactive"

PeriodInv == (\A r \in Rds : FromKnown(rd[r])) /\ SyncKnows(sync)

(* What an update of old to new keeps. *)
Keeps(old, new) ==
  /\ FromKnown(new)
  /\ old.from # 0 => new.from = old.from
  /\ old.cond = "Inactive" => new.cond = "Inactive" /\ new.to = old.to

AllKept == \A k \in Rds : Keeps(rd[k], rd'[k])

LEMMA IdleKnows == SyncKnows(Idle)
  BY DEF SyncKnows, Idle

LEMMA SameKept == ASSUME PeriodInv, UNCHANGED rd PROVE AllKept
  BY DEF PeriodInv, AllKept, Keeps

LEMMA StoreKeeps ==
  ASSUME TypeOK, PeriodInv, NEW r \in Rds, NEW new, Store(r, new), Keeps(rd[r], new)
  PROVE  AllKept
<1>1. rd \in [Rds -> Objects] /\ rd' = [rd EXCEPT ![r] = new]
  BY DEF TypeOK, Store
<1>2. rd'[r] = new /\ \A k \in Rds \ {r} : rd'[k] = rd[k]
  BY <1>1
<1>3. \A k \in Rds : Keeps(rd[k], rd[k])
  BY DEF PeriodInv, Keeps
<1> QED BY <1>2, <1>3 DEF AllKept

LEMMA BeginKnows ==
  ASSUME NEW r \in Rds, NEW try, Begin(r, try) PROVE SyncKnows(sync')
<1>1. CASE sync' = Idle
  BY <1>1, IdleKnows
<1>2. CASE /\ rd[r].cond # "Inactive"
           /\ sync' = [Idle EXCEPT !.pc = "activate", !.rd = r, !.tries = try, !.own = rd[r], !.all = seen]
  <2>1. sync'.pc = "activate" /\ sync'.own = rd[r]
    BY <1>2 DEF Idle
  <2> QED BY <1>2, <2>1 DEF SyncKnows
<1> QED BY <1>1, <1>2 DEF Begin

LEMMA RetryKnows ==
  ASSUME TypeOK, sync.pc # "idle", Retry PROVE SyncKnows(sync')
<1>1. sync.rd \in Rds
  BY DEF TypeOK
<1> QED BY <1>1, BeginKnows, IdleKnows DEF Retry, Requeue

(* A Sync's update is made from the stored copy, or not at all. *)
LEMMA UpdateKeeps ==
  ASSUME TypeOK, PeriodInv, sync.pc # "idle", NEW r \in Rds, NEW copy, NEW new, NEW then,
         Update(r, copy, new, then), rd[r] = copy => Keeps(rd[r], new), SyncKnows(then)
  PROVE  AllKept /\ SyncKnows(sync')
<1>1. CASE rd[r] = copy /\ Store(r, new) /\ sync' = then
  BY <1>1, StoreKeeps
<1>2. CASE Retry /\ UNCHANGED rd
  BY <1>2, RetryKnows, SameKept
<1>3. CASE Requeue /\ UNCHANGED rd
  BY <1>3, IdleKnows, SameKept DEF Requeue
<1> QED BY <1>1, <1>2, <1>3 DEF Update

LEMMA PeriodStep == TypeOK /\ PeriodInv /\ [Next]_vars => AllKept /\ SyncKnows(sync')
<1> SUFFICES ASSUME TypeOK, PeriodInv, [Next]_vars PROVE AllKept /\ SyncKnows(sync')
  OBVIOUS
<1>t. /\ rd \in [Rds -> Objects] /\ (\A r \in Rds : FromKnown(rd[r])) /\ SyncKnows(sync)
      /\ sync \in SyncRecords /\ (sync.pc # "idle" => sync.rd \in Rds)
  BY DEF TypeOK, SyncRecords, PeriodInv
<1>y. ASSUME UNCHANGED sync PROVE SyncKnows(sync')
  BY <1>y, <1>t
<1>d. ASSUME NEW r \in Rds, Delete(r) PROVE AllKept
  <2>1. rd[r] \in Objects /\ FromKnown(rd[r])
    BY <1>t
  <2>2. Keeps(rd[r], [rd[r] EXCEPT !.exists = FALSE])
    BY <2>1 DEF Keeps, FromKnown, Objects
  <2> QED BY <1>d, <2>2, StoreKeeps DEF Delete
<1>1. ASSUME NEW r \in Rds, CreateRD(r) PROVE AllKept /\ SyncKnows(sync')
  <2>1. Keeps(Absent, [Absent EXCEPT !.exists = TRUE, !.created = clock])
    BY DEF Absent, Keeps, FromKnown
  <2> QED BY <1>1, <2>1, StoreKeeps, <1>y DEF CreateRD
<1>2. ASSUME NEW r \in Rds, RunnerGivesUp(r) PROVE AllKept /\ SyncKnows(sync')
  BY <1>2, <1>d, <1>y, SameKept DEF RunnerGivesUp
<1>3. ASSUME NEW r \in Rds, EditRD(r) PROVE AllKept /\ SyncKnows(sync')
  <2>1. rd[r] \in Objects /\ FromKnown(rd[r])
    BY <1>t
  <2>2. Keeps(rd[r], [rd[r] EXCEPT !.spec = @ + 1])
    BY <2>1 DEF Keeps, FromKnown, Objects
  <2> QED BY <1>3, <2>2, StoreKeeps, <1>y DEF EditRD
<1>4. ASSUME NEW r \in Rds, StartSync(r) PROVE AllKept /\ SyncKnows(sync')
  BY <1>4, BeginKnows, SameKept DEF StartSync
<1>5. CASE SetActive
  <2> DEFINE own == IF sync.own.cond = "Active" THEN sync.own
                      ELSE [sync.own EXCEPT !.cond = "Active", !.from = clock]
             others == {k \in Existing(sync.all) \ {sync.rd} : sync.all[k].cond # "Inactive"}
             then == [sync EXCEPT !.own = own, !.todo = others,
                                  !.pc = IF others = {} THEN "deploy" ELSE "inactivate"]
  <2>1. sync.pc = "activate" /\ sync.rd \in Rds /\ sync.own \in Objects /\ sync.own.cond # "Inactive"
    BY <1>5, <1>t DEF SetActive, SyncKnows, SyncRecords
  <2>2. own.cond = "Active" /\ (sync.own.cond = "Active" => own = sync.own)
    BY <2>1 DEF Objects
  <2>3. rd[sync.rd] = sync.own => Keeps(rd[sync.rd], own)
    <3> SUFFICES ASSUME rd[sync.rd] = sync.own PROVE Keeps(sync.own, own)
      OBVIOUS
    <3>1. FromKnown(sync.own)
      BY <2>1, <1>t
    <3>2. sync.own.cond = "" \/ sync.own.cond = "Active"
      BY <2>1 DEF Objects, Conditions
    <3> QED BY <2>1, <2>2, <3>1, <3>2 DEF Keeps, FromKnown
  <2>4. SyncKnows(then)
    <3>1. then.own = own /\ then.all = sync.all /\ then.todo = others
      BY <1>t DEF SyncRecords
    <3>2. \A k \in others : sync.all[k].cond # "Inactive"
      OBVIOUS
    <3> HIDE DEF own, others, then
    <3> QED BY <2>2, <3>1, <3>2 DEF SyncKnows
  <2>5. Update(sync.rd, sync.own, own, then)
    BY <1>5 DEF SetActive
  <2> HIDE DEF own, others, then
  <2> QED BY <2>1, <2>3, <2>4, <2>5, UpdateKeeps
<1>6. CASE SetInactive
  <2>0. PICK r \in sync.todo : \E prev \in Previous(r) :
          Update(r, sync.all[r],
                 [sync.all[r] EXCEPT !.cond = "Inactive", !.to = prev, !.from = ActiveFrom(sync.all[r])],
                 [sync EXCEPT !.todo = @ \ {r}, !.pc = IF sync.todo = {r} THEN "deploy" ELSE @])
    BY <1>6 DEF SetInactive
  <2>1. PICK prev \in Previous(r) :
          Update(r, sync.all[r],
                 [sync.all[r] EXCEPT !.cond = "Inactive", !.to = prev, !.from = ActiveFrom(sync.all[r])],
                 [sync EXCEPT !.todo = @ \ {r}, !.pc = IF sync.todo = {r} THEN "deploy" ELSE @])
    BY <2>0
  <2> DEFINE new == [sync.all[r] EXCEPT !.cond = "Inactive", !.to = prev, !.from = ActiveFrom(sync.all[r])]
             then == [sync EXCEPT !.todo = @ \ {r}, !.pc = IF sync.todo = {r} THEN "deploy" ELSE @]
  <2>2. sync.pc = "inactivate" /\ r \in Rds /\ sync.all[r] \in Objects /\ sync.all[r].cond # "Inactive"
    BY <1>6, <1>t DEF SetInactive, SyncKnows, SyncRecords
  <2>3. new.cond = "Inactive" /\ new.from = ActiveFrom(sync.all[r])
    BY <2>2 DEF Objects
  <2>4. Keeps(sync.all[r], new)
    BY <2>2, <2>3 DEF Keeps, FromKnown, ActiveFrom
  <2>5. SyncKnows(then)
    <3>1. then.own = sync.own /\ then.all = sync.all /\ then.todo = sync.todo \ {r}
      BY <1>t DEF SyncRecords
    <3> HIDE DEF then
    <3> QED BY <2>2, <3>1, <1>t DEF SyncKnows
  <2> HIDE DEF new, then
  <2>6. Update(r, sync.all[r], new, then)
    BY <2>1 DEF new, then
  <2> QED BY <2>2, <2>4, <2>5, <2>6, UpdateKeeps
<1>7. CASE SyncDeployment \/ SyncDeploymentFails
  <2>1. sync.pc = "deploy" /\ sync'.pc = "status" /\ sync'.own = sync.own /\ UNCHANGED rd
    BY <1>7, <1>t DEF SyncDeployment, SyncDeploymentFails, SyncRecords
  <2> QED BY <2>1, <1>t, SameKept DEF SyncKnows
<1>8. CASE SyncStatus
  <2> DEFINE own == [sync.own EXCEPT !.reconciled = TRUE]
             then == [sync EXCEPT !.pc = "history", !.own = own]
  <2>1. sync.pc = "status" /\ sync.rd \in Rds /\ sync.own \in Objects /\ sync.own.cond # "Inactive"
    BY <1>8, <1>t DEF SyncStatus, SyncKnows, SyncRecords
  <2>2. own.cond = sync.own.cond /\ own.from = sync.own.from /\ own.to = sync.own.to
    BY <2>1 DEF Objects
  <2>3. rd[sync.rd] = sync.own => Keeps(rd[sync.rd], own)
    BY <2>1, <2>2, <1>t DEF Keeps, FromKnown
  <2>4. SyncKnows(then)
    <3>1. then.pc = "history" /\ then.own = own
      BY <1>t DEF SyncRecords
    <3> HIDE DEF own, then
    <3> QED BY <2>1, <2>2, <3>1 DEF SyncKnows
  <2> HIDE DEF own, then
  <2>5. CASE sync.failed
    <3>1. \/ rd[sync.rd] = sync.own /\ Store(sync.rd, own)
          \/ UNCHANGED rd
      BY <1>8, <2>5 DEF SyncStatus, own
    <3>2. Retry \/ Requeue
      BY <1>8, <2>5 DEF SyncStatus
    <3> QED BY <2>1, <2>3, <3>1, <3>2, StoreKeeps, SameKept, RetryKnows, IdleKnows DEF Requeue
  <2>6. CASE ~sync.failed
    <3>1. Update(sync.rd, sync.own, own, then)
      BY <1>8, <2>6 DEF SyncStatus, own, then
    <3> QED BY <2>1, <2>3, <2>4, <3>1, UpdateKeeps
  <2> QED BY <2>5, <2>6
<1>9. CASE MaintainHistoryLimit
  <2>1. CASE sync' = Idle
    BY <1>9, <2>1, IdleKnows, SameKept DEF MaintainHistoryLimit
  <2>2. ASSUME NEW todo, sync' = [sync EXCEPT !.pc = "prune", !.todo = todo]
        PROVE  AllKept /\ SyncKnows(sync')
    <3>1. sync.pc = "history" /\ sync'.pc = "prune" /\ sync'.own = sync.own
      BY <1>9, <2>2, <1>t DEF MaintainHistoryLimit, SyncRecords
    <3> QED BY <1>9, <3>1, <1>t, SameKept DEF MaintainHistoryLimit, SyncKnows
  <2> QED BY <1>9, <2>1, <2>2 DEF MaintainHistoryLimit
<1>10. CASE Prune
  <2>1. CASE sync' = Idle /\ UNCHANGED rd
    BY <2>1, IdleKnows, SameKept
  <2>2. ASSUME NEW r \in sync.todo, sync' = [sync EXCEPT !.todo = @ \ {r}], Delete(r) \/ UNCHANGED rd
        PROVE  AllKept /\ SyncKnows(sync')
    <3>1. sync.pc = "prune" /\ r \in Rds
      BY <1>10, <1>t DEF Prune, SyncRecords
    <3>2. sync'.pc = sync.pc /\ sync'.own = sync.own
      BY <2>2, <1>t DEF SyncRecords
    <3> QED BY <2>2, <3>1, <3>2, <1>d, <1>t, SameKept DEF SyncKnows
  <2> QED BY <1>10, <2>1, <2>2 DEF Prune
<1>11. CASE SyncFails
  BY <1>11, IdleKnows, SameKept DEF SyncFails, Requeue
<1>12. CASE Crash
  BY <1>12, IdleKnows, SameKept DEF Crash
<1>13. CASE UNCHANGED <<rd, sync>>
  BY <1>13, <1>y, SameKept
<1> QED BY <1>1, <1>2, <1>3, <1>4, <1>5, <1>6, <1>7, <1>8, <1>9, <1>10, <1>11, <1>12, <1>13
        DEF Next, SyncStep, RunnerSeesActive, OwnedObjectEvent, RegistrationChanges, Deliver, Tick, vars

LEMMA PeriodInvariant == Spec => []PeriodInv
<1>1. Init => PeriodInv
  <2>1. \A r \in Rds : FromKnown(Rd0[r])
    BY ConstantsAssumption, Zenon DEF FromKnown
  <2> QED BY <2>1, IdleKnows DEF Init, PeriodInv
<1>2. TypeOK /\ PeriodInv /\ [Next]_vars => PeriodInv'
  BY PeriodStep DEF AllKept, Keeps, PeriodInv
<1> QED BY TypeCorrect, <1>1, <1>2, PTL DEF Spec

(* The period a RadixDeployment is recorded to have been active is never
   rewritten, and an inactive one stays inactive, whatever copies the Syncs of the
   environment work from and however often they are refused, fail or are killed. *)
THEOREM PeriodIsKept == Spec => ActivePeriodIsKept
<1>1. TypeOK /\ PeriodInv /\ [Next]_vars =>
        [\A r \in Rds :
           /\ rd[r].from # 0 => rd'[r].from = rd[r].from
           /\ rd[r].cond = "Inactive" => rd'[r].cond = "Inactive" /\ rd'[r].to = rd[r].to]_vars
  BY PeriodStep DEF AllKept, Keeps
<1> QED BY TypeCorrect, PeriodInvariant, <1>1, PTL DEF Spec, ActivePeriodIsKept

-----------------------------------------------------------------------------
(* Pipelines that follow each other.                                       *)

Elder(r, k) == 0 < rd[r].created /\ rd[r].created < rd[k].created

(* Created, and not given way yet. *)
Standing(r) == rd[r].created # 0 /\ rd[r].cond # "Inactive"

Latest(r) == Standing(r) /\ \A k \in Rds : ~Elder(r, k)

(* What every version of a RadixDeployment is like: one without a condition has
   not been active, and only an inactive one is deleted. *)
Sound(o) ==
  /\ o.created = 0 => o = Absent
  /\ o.cond = "" => o.from = 0
  /\ o.cond # "" => 0 < o.created /\ o.created <= o.from
  /\ o.created # 0 /\ o.cond # "Inactive" => o.exists

OnTime ==
  /\ 0 < clock
  /\ \A r \in Rds : Sound(rd[r]) /\ rd[r].created <= clock /\ rd[r].from <= clock /\ rd[r].to <= clock

Apart == \A r, k \in Rds : r # k /\ rd[r].created # 0 => rd[r].created # rd[k].created

(* A pipeline waits for the latest, and one that has not been active is waited for. *)
Turns ==
  \A r \in Rds :
    /\ rd[r].created # 0 /\ rd[r].cond = "" => Waiting(r)
    /\ Waiting(r) => Latest(r)

Headed == \A r \in Rds : rd[r].created # 0 => \E n \in Rds : Latest(n)

(* The elder has been active before the younger was created, and its period ends
   before the younger's begins. *)
Passed ==
  \A r, k \in Rds : Elder(r, k) =>
    /\ rd[r].cond # "" /\ rd[r].from < rd[k].created
    /\ rd[r].cond = "Inactive" => rd[r].to <= ActiveFrom(rd[k])
    /\ Standing(r) => rd[k].exists

Reported ==
  \A r \in Rds :
    /\ rd[r].from # 0 => r \in activated
    /\ runner[r] = "active" => rd[r].from # 0

InTurn == OnTime /\ Apart /\ Turns /\ Headed /\ Passed /\ Reported

LEMMA Fields ==
  ASSUME NEW o \in Objects
  PROVE  /\ o.exists \in BOOLEAN /\ o.created \in Nat /\ o.from \in Nat /\ o.to \in Nat
         /\ o.cond \in {"", "Active", "Inactive"} /\ o.spec \in Nat /\ o.reconciled \in BOOLEAN
  BY DEF Objects, Conditions

LEMMA RdType == ASSUME TypeOK, NEW r \in Rds PROVE rd[r] \in Objects /\ rd[r].created \in Nat /\ rd[r].from \in Nat /\ rd[r].to \in Nat
<1>1. rd[r] \in Objects
  BY DEF TypeOK
<1> QED BY <1>1, Fields

LEMMA Numbers ==
  ASSUME NEW m \in Nat
  PROVE  (m # 0 <=> 0 < m) /\ ~(m < 0) /\ ~(m < m) /\ m <= m /\ 0 <= m
  OBVIOUS

LEMMA Order ==
  ASSUME NEW m \in Nat, NEW n \in Nat
  PROVE  (m < n => m # n /\ m <= n /\ ~(n < m) /\ ~(n <= m) /\ 0 < n) /\ (~(m < n) => n <= m)
  OBVIOUS

LEMMA Transitive ==
  ASSUME NEW l \in Nat, NEW m \in Nat, NEW n \in Nat
  PROVE  (l <= m /\ m <= n => l <= n) /\ (l < m /\ m <= n => l < n) /\ (l <= m /\ m < n => l < n)
  OBVIOUS

(* One RadixDeployment is updated: activated, inactivated, edited, marked as
   reconciled or, when it is inactive, deleted. *)
LEMMA TurnKept ==
  ASSUME TypeOK, InTurn, NEW r \in Rds, NEW new \in Objects,
         rd' = [rd EXCEPT ![r] = new], clock' = clock, runner' = runner, activated \subseteq activated',
         rd[r].created # 0, new.created = rd[r].created, Sound(new), new.from <= clock, new.to <= clock,
         rd[r].cond # "" => new.cond # "" /\ new.from = rd[r].from,
         rd[r].cond = "Inactive" => new.cond = "Inactive" /\ new.to = rd[r].to,
         ActiveFrom(rd[r]) <= ActiveFrom(new),
         new.cond = "Inactive" /\ rd[r].cond # "Inactive" =>
           ~Latest(r) /\ \A k \in Rds : Elder(r, k) => new.to <= ActiveFrom(rd[k]),
         new.exists \/ \A k \in Rds : Standing(k) => ~Elder(k, r),
         new.from # 0 => r \in activated'
  PROVE  InTurn'
<1>1. rd \in [Rds -> Objects] /\ rd'[r] = new /\ \A k \in Rds \ {r} : rd'[k] = rd[k]
  BY DEF TypeOK
<1>2. \A k \in Rds : rd'[k].created = rd[k].created
  BY <1>1
<1>3. \A a, b \in Rds : Elder(a, b)' <=> Elder(a, b)
  BY <1>2 DEF Elder
<1>4. \A k \in Rds : Standing(k)' => Standing(k)
  BY <1>1, <1>2 DEF Standing
<1>5. ASSUME NEW n \in Rds, Latest(n) PROVE Latest(n)'
  <2>1. Standing(n)'
    <3>1. CASE n = r
      BY <1>1, <1>2, <1>5, <3>1 DEF Latest, Standing
    <3>2. CASE n # r
      BY <1>1, <1>5, <3>2 DEF Latest, Standing
    <3> QED BY <3>1, <3>2
  <2> QED BY <1>3, <1>5, <2>1 DEF Latest
<1>6. \A k \in Rds : Waiting(k)' <=> Waiting(k)
  BY DEF Waiting
<1>o. OnTime'
  BY <1>1 DEF InTurn, OnTime
<1>a. Apart'
  BY <1>2 DEF InTurn, Apart
<1>t. Turns'
  <2> SUFFICES ASSUME NEW k \in Rds
               PROVE  (rd'[k].created # 0 /\ rd'[k].cond = "" => Waiting(k)') /\ (Waiting(k)' => Latest(k)')
    BY DEF Turns
  <2>1. rd'[k].cond = "" => rd[k].cond = ""
    BY <1>1
  <2> QED BY <1>2, <1>5, <1>6, <2>1 DEF InTurn, Turns
<1>h. Headed'
  BY <1>2, <1>5 DEF InTurn, Headed
<1>p. Passed'
  <2> SUFFICES ASSUME NEW a \in Rds, NEW b \in Rds, Elder(a, b)
               PROVE  /\ rd'[a].cond # "" /\ rd'[a].from < rd'[b].created
                      /\ rd'[a].cond = "Inactive" => rd'[a].to <= ActiveFrom(rd'[b])
                      /\ Standing(a)' => rd'[b].exists
    BY <1>3 DEF Passed
  <2>0. /\ rd[a].cond # "" /\ rd[a].from < rd[b].created
        /\ rd[a].cond = "Inactive" => rd[a].to <= ActiveFrom(rd[b])
        /\ Standing(a) => rd[b].exists
    BY DEF InTurn, Passed
  <2>1. rd'[a].cond # "" /\ rd'[a].from = rd[a].from
    BY <1>1, <2>0
  <2>2. ActiveFrom(rd[b]) \in Nat /\ ActiveFrom(rd'[b]) \in Nat /\ ActiveFrom(rd[b]) <= ActiveFrom(rd'[b])
    <3>1. ActiveFrom(rd[b]) \in Nat /\ ActiveFrom(new) \in Nat
      BY <1>1, TimeType
    <3>2. CASE b = r
      BY <1>1, <3>1, <3>2
    <3>3. CASE b # r
      BY <1>1, <3>1, <3>3, Numbers
    <3> QED BY <3>2, <3>3
  <2>3. rd[a].to \in Nat /\ a # b /\ new.to \in Nat
    BY RdType, Fields, Numbers DEF Elder
  <2>4. rd'[a].cond = "Inactive" => rd'[a].to <= ActiveFrom(rd'[b])
    <3>1. CASE rd[a].cond = "Inactive"
      <4>1. rd'[a].to = rd[a].to
        BY <1>1, <3>1
      <4> QED BY <2>0, <2>2, <2>3, <3>1, <4>1, Transitive
    <3>2. CASE rd[a].cond # "Inactive"
      <4>1. CASE a = r
        <5>1. rd'[b] = rd[b] /\ rd'[a] = new
          BY <1>1, <2>3, <4>1
        <5> QED BY <3>2, <4>1, <5>1
      <4>2. CASE a # r
        BY <1>1, <3>2, <4>2
      <4> QED BY <4>1, <4>2
    <3> QED BY <3>1, <3>2
  <2>5. Standing(a)' => rd'[b].exists
    <3>1. CASE b = r
      BY <1>1, <1>4, <3>1
    <3>2. CASE b # r
      BY <1>1, <1>4, <2>0, <3>2
    <3> QED BY <3>1, <3>2
  <2> QED BY <1>2, <2>0, <2>1, <2>4, <2>5
<1>r. Reported'
  <2> SUFFICES ASSUME NEW k \in Rds
               PROVE  (rd'[k].from # 0 => k \in activated') /\ (runner'[k] = "active" => rd'[k].from # 0)
    BY DEF Reported
  <2>1. (rd[k].from # 0 => k \in activated) /\ (runner[k] = "active" => rd[k].from # 0)
    BY DEF InTurn, Reported
  <2>2. CASE k = r
    <3>1. rd[k].from # 0 => rd[k].cond # ""
      BY <2>2 DEF InTurn, OnTime, Sound
    <3> QED BY <1>1, <2>1, <2>2, <3>1
  <2>3. CASE k # r
    BY <1>1, <2>1, <2>3
  <2> QED BY <2>2, <2>3
<1> QED BY <1>o, <1>a, <1>t, <1>h, <1>p, <1>r DEF InTurn

(* The RadixDeployments stay as they are. *)
LEMMA TurnSame ==
  ASSUME TypeOK, InTurn, rd' = rd, activated \subseteq activated', clock' \in Nat, clock <= clock',
         \/ runner' = runner
         \/ \E r \in Rds : rd[r].from # 0 /\ runner' = [runner EXCEPT ![r] = "active"]
  PROVE  InTurn'
<1>1. \A a, b \in Rds : Elder(a, b)' <=> Elder(a, b)
  BY DEF Elder
<1>2. \A k \in Rds : Latest(k)' <=> Latest(k)
  BY <1>1 DEF Latest, Standing
<1>3. /\ \A k \in Rds : Waiting(k)' => Waiting(k)
      /\ \A k \in Rds : Waiting(k) /\ rd[k].from = 0 => Waiting(k)'
      /\ \A k \in Rds : runner'[k] = "active" => runner[k] = "active" \/ rd[k].from # 0
  <2>1. runner \in [Rds -> RunnerStates]
    BY DEF TypeOK
  <2> QED BY <2>1 DEF Waiting
<1>o. OnTime'
  <2>1. clock \in Nat /\ \A r \in Rds : rd[r].created \in Nat /\ rd[r].from \in Nat /\ rd[r].to \in Nat
    BY RdType DEF TypeOK
  <2> QED BY <2>1 DEF InTurn, OnTime
<1>a. Apart' /\ Headed'
  BY <1>2 DEF InTurn, Apart, Headed
<1>t. Turns'
  <2>1. \A k \in Rds : rd[k].cond = "" => rd[k].from = 0
    BY DEF InTurn, OnTime, Sound
  <2> QED BY <1>2, <1>3, <2>1 DEF InTurn, Turns
<1>p. Passed'
  BY <1>1 DEF InTurn, Passed, Standing
<1>r. Reported'
  BY <1>3 DEF InTurn, Reported
<1> QED BY <1>o, <1>a, <1>t, <1>p, <1>r DEF InTurn

LEMMA TurnCreate ==
  ASSUME OneByOne, TypeOK, InTurn, NEW r \in Rds, CreateRD(r)
  PROVE  InTurn' /\ \A a, b \in Rds : Elder(a, b)' => Elder(a, b) \/ (b = r /\ rd[r].created = 0)
<1> DEFINE new == [Absent EXCEPT !.exists = TRUE, !.created = clock]
<1>1. rd \in [Rds -> Objects] /\ clock \in Nat /\ 0 < clock /\ rd[r] = Absent
  BY DEF TypeOK, InTurn, OnTime, CreateRD
<1>2. rd' = [rd EXCEPT ![r] = new] /\ UNCHANGED <<clock, activated>>
  BY DEF CreateRD, Store
<1>3. rd'[r] = new /\ \A k \in Rds \ {r} : rd'[k] = rd[k]
  BY <1>1, <1>2
<1>4. /\ new.exists /\ new.created = clock /\ new.cond = "" /\ new.from = 0 /\ new.to = 0
      /\ Absent.created = 0 /\ Absent.from = 0 /\ Absent.cond = ""
  BY <1>1 DEF Absent
<1>5. \A k \in Rds : ~Waiting(k) /\ rd[k].created < clock /\ rd[k].from < clock
  BY DEF CreateRD, OneByOne
<1>6. Waiting(r)' /\ \A k \in Rds \ {r} : runner'[k] = runner[k]
  <2>1. PICK kind \in Kinds : runner' = [runner EXCEPT ![r] = IF kind = "promote" THEN "promoted" ELSE kind]
    BY DEF CreateRD
  <2>2. kind \in {"deploy", "config"}
    BY Constants DEF OneByOne, PipelineKinds
  <2>3. runner \in [Rds -> RunnerStates]
    BY DEF TypeOK
  <2> QED BY <2>1, <2>2, <2>3 DEF Waiting
<1> HIDE DEF new
<1>n. \A k \in Rds : rd[k].created \in Nat /\ rd[k].from \in Nat /\ rd[k].to \in Nat /\ rd[k] \in Objects
  BY RdType
<1>7. \A a, b \in Rds : Elder(a, b)' <=> Elder(a, b) \/ (b = r /\ rd[a].created # 0)
  <2> TAKE a, b \in Rds
  <2>1. CASE b = r
    <3>1. rd'[b].created = clock /\ ~Elder(a, b)
      BY <1>3, <1>4, <1>1, <1>n, <2>1, Numbers, Order DEF Elder
    <3>2. CASE a = r
      BY <1>1, <1>3, <1>4, <2>1, <3>1, <3>2, Numbers, Order DEF Elder
    <3>3. CASE a # r
      BY <1>3, <1>5, <1>n, <2>1, <3>1, <3>3 DEF Elder
    <3> QED BY <3>2, <3>3
  <2>2. CASE b # r
    <3>1. rd'[b] = rd[b] /\ rd[b].created < clock
      BY <1>3, <1>5, <2>2
    <3>2. CASE a = r
      BY <1>1, <1>3, <1>4, <1>n, <2>2, <3>1, <3>2, Numbers, Order DEF Elder
    <3>3. CASE a # r
      BY <1>3, <2>2, <3>1, <3>3 DEF Elder
    <3> QED BY <3>2, <3>3
  <2> QED BY <2>1, <2>2
<1>8. Latest(r)'
  <2>1. Standing(r)'
    BY <1>1, <1>3, <1>4, Numbers, Order DEF Standing
  <2>2. \A k \in Rds : ~Elder(r, k)'
    <3> TAKE k \in Rds
    <3>1. ~Elder(r, k) /\ rd[r].created = 0
      BY <1>1, <1>4, Numbers, Order DEF Elder
    <3> QED BY <1>7, <3>1
  <2> QED BY <2>1, <2>2 DEF Latest
<1>o. OnTime'
  <2>1. Sound(new)
    BY <1>1, <1>4, Numbers, Order DEF Sound
  <2> QED BY <1>1, <1>2, <1>3, <1>4, <2>1, Numbers, Order DEF InTurn, OnTime
<1>a. Apart'
  <2> SUFFICES ASSUME NEW a \in Rds, NEW b \in Rds, a # b, rd'[a].created # 0
               PROVE  rd'[a].created # rd'[b].created
    BY DEF Apart
  <2>1. CASE a = r
    BY <1>3, <1>4, <1>5, <1>n, <1>1, <2>1, Numbers, Order
  <2>2. CASE b = r
    BY <1>3, <1>4, <1>5, <1>n, <1>1, <2>2, Numbers, Order
  <2>3. CASE a # r /\ b # r
    BY <1>3, <2>3 DEF InTurn, Apart
  <2> QED BY <2>1, <2>2, <2>3
<1>t. Turns'
  <2> SUFFICES ASSUME NEW k \in Rds
               PROVE  (rd'[k].created # 0 /\ rd'[k].cond = "" => Waiting(k)') /\ (Waiting(k)' => Latest(k)')
    BY DEF Turns
  <2>1. CASE k = r
    BY <1>6, <1>8, <2>1
  <2>2. CASE k # r
    <3>1. ~Waiting(k)'
      BY <1>5, <1>6, <2>2 DEF Waiting
    <3>2. ~(rd[k].created # 0 /\ rd[k].cond = "")
      BY <1>5 DEF InTurn, Turns
    <3> QED BY <1>3, <2>2, <3>1, <3>2
  <2> QED BY <2>1, <2>2
<1>h. Headed'
  BY <1>8 DEF Headed
<1>p. Passed'
  <2> SUFFICES ASSUME NEW a \in Rds, NEW b \in Rds, Elder(a, b)'
               PROVE  /\ rd'[a].cond # "" /\ rd'[a].from < rd'[b].created
                      /\ rd'[a].cond = "Inactive" => rd'[a].to <= ActiveFrom(rd'[b])
                      /\ Standing(a)' => rd'[b].exists
    BY DEF Passed
  <2>1. CASE b = r
    <3>1. a # r /\ rd'[a] = rd[a] /\ rd'[b] = new /\ rd[a].created # 0
      BY <1>3, <1>1, <1>4, <1>7, <2>1, Numbers, Order DEF Elder
    <3>2. rd[a].cond # "" /\ rd[a].to <= clock
      BY <1>5, <3>1 DEF InTurn, Turns, OnTime
    <3>3. ActiveFrom(new) = clock
      BY <1>4 DEF ActiveFrom
    <3> QED BY <1>4, <1>5, <3>1, <3>2, <3>3
  <2>2. CASE b # r
    <3>0. Elder(a, b)
      BY <1>7, <2>2
    <3>1. Elder(a, b) /\ a # r
      BY <1>1, <1>4, <3>0, Numbers DEF Elder
    <3> QED BY <1>3, <2>2, <3>1 DEF InTurn, Passed, Standing
  <2> QED BY <2>1, <2>2
<1>r. Reported'
  <2> SUFFICES ASSUME NEW k \in Rds
               PROVE  (rd'[k].from # 0 => k \in activated') /\ (runner'[k] = "active" => rd'[k].from # 0)
    BY DEF Reported
  <2>1. CASE k = r
    BY <1>3, <1>4, <1>6, <2>1 DEF Waiting
  <2>2. CASE k # r
    BY <1>2, <1>3, <1>6, <2>2 DEF InTurn, Reported
  <2> QED BY <2>1, <2>2
<1>s. rd[r].created = 0
  BY <1>1, <1>4
<1> QED BY <1>7, <1>s, <1>o, <1>a, <1>t, <1>h, <1>p, <1>r DEF InTurn

-----------------------------------------------------------------------------
(* What the cache knows.                                                   *)

(* o is p or an earlier version of it. *)
Version(o, p) ==
  /\ o.created # 0 => p.created = o.created
  /\ o.from # 0 => p.from = o.from
  /\ o.cond = "Inactive" => p.cond = "Inactive"
  /\ p.cond = "" => o.cond = ""
  /\ p.exists /\ o.created # 0 => o.exists
  /\ o.spec <= p.spec

(* The i-th change is the last one of r. *)
LastChange(r, i) ==
  /\ stream[i].rd = r /\ stream[i].object = rd[r]
  /\ \A j \in 1..Len(stream) : i < j => stream[j].rd # r

Versions ==
  /\ \A r \in Rds : Sound(seen[r]) /\ Version(seen[r], rd[r])
  /\ \A i \in 1..Len(stream) :
       LET r == stream[i].rd
           o == stream[i].object
       IN Sound(o) /\ o.created # 0 /\ Version(seen[r], o) /\ Version(o, rd[r])
  /\ \A i, j \in 1..Len(stream) :
       i < j /\ stream[i].rd = stream[j].rd => Version(stream[i].object, stream[j].object)

(* The cache will get to know the current version. *)
CatchesUp ==
  \A r \in Rds :
    \/ seen[r] = rd[r] /\ \A i \in 1..Len(stream) : stream[i].rd # r
    \/ \E i \in 1..Len(stream) : LastChange(r, i)

(* The cache knows what has been active or is on the queue, *)
Met ==
  \A r \in Rds : rd[r].cond # "" \/ r \in pending => seen[r].created # 0

(* and that the elder has been active before it knows of the younger. *)
Told(r, i) ==
  \/ seen[r].cond # ""
  \/ \E j \in 1..Len(stream) : j < i /\ stream[j].rd = r /\ stream[j].object.cond # ""

Aware == \A r, k \in Rds : Elder(r, k) /\ seen[k].created # 0 => seen[r].cond # ""

WillBeAware ==
  \A i \in 1..Len(stream) : \A r, k \in Rds : k = stream[i].rd /\ Elder(r, k) => Told(r, i)

InOrder == Aware /\ WillBeAware

Cached == Versions /\ CatchesUp /\ Met /\ InOrder

LEMMA VersionSame == ASSUME NEW o \in Objects PROVE Version(o, o)
<1>1. o.spec <= o.spec
  BY Fields, Numbers
<1> QED BY <1>1 DEF Version

LEMMA VersionTransitive ==
  ASSUME NEW o \in Objects, NEW p \in Objects, NEW q \in Objects, Version(o, p), Version(p, q)
  PROVE  Version(o, q)
<1>1. o.spec <= q.spec
  BY Fields, Transitive DEF Version
<1> QED BY <1>1 DEF Version

LEMMA StreamTypes ==
  ASSUME TypeOK, NEW i \in 1..Len(stream)
  PROVE  stream[i].rd \in Rds /\ stream[i].object \in Objects /\ stream \in Seq(Changes)
<1>1. stream \in Seq(Changes)
  BY DEF TypeOK, Changes
<1>2. stream[i] \in Changes
  BY <1>1
<1> QED BY <1>1, <1>2 DEF Changes

LEMMA OneMore ==
  ASSUME NEW n \in Nat
  PROVE  /\ \A i \in 1..n : i \in 1..(n + 1) /\ i < n + 1 /\ ~(n + 1 < i)
         /\ \A i \in 1..(n + 1) : i \in 1..n \/ i = n + 1
         /\ n + 1 \in 1..(n + 1) /\ ~(n + 1 < n + 1)
  OBVIOUS

LEMMA Shift ==
  ASSUME NEW n \in Nat, NEW j \in 1..n, NEW i \in 1..(n - 1), j < i + 1 PROVE j - 1 < i
  OBVIOUS

LEMMA AppendAt ==
  ASSUME NEW S, NEW s \in Seq(S), NEW e \in S, NEW i \in 1..Len(s)
  PROVE  Append(s, e)[i] = s[i]
  OBVIOUS

(* The cache is as it was and so are the RadixDeployments: something is enqueued. *)
LEMMA CachedSame ==
  ASSUME Cached, UNCHANGED <<rd, seen, stream>>,
         \A r \in Rds : r \in pending' => r \in pending \/ seen[r].created # 0
  PROVE  Cached'
<1>1. Versions'
  BY DEF Cached, Versions
<1>2. CatchesUp'
  BY DEF Cached, CatchesUp, LastChange
<1>3. InOrder'
  <2>1. \A a, b \in Rds : Elder(a, b)' <=> Elder(a, b)
    BY DEF Elder
  <2>2. Aware /\ WillBeAware /\ seen' = seen /\ stream' = stream
    BY DEF Cached, InOrder
  <2>3. Aware'
    BY <2>1, <2>2 DEF Aware
  <2>4. \A a \in Rds : \A i \in 1..Len(stream) : Told(a, i)' <=> Told(a, i)
    BY <2>2 DEF Told
  <2>5. WillBeAware'
    BY <2>1, <2>2, <2>4 DEF WillBeAware
  <2> QED BY <2>3, <2>5 DEF InOrder
<1>4. Met'
  BY DEF Cached, Met
<1> QED BY <1>1, <1>2, <1>3, <1>4 DEF Cached

(* The API server stores a new version of r, or r. *)
LEMMA CachedStore ==
  ASSUME TypeOK, InTurn, InTurn', Cached, NEW r \in Rds, NEW new \in Objects, Store(r, new),
         Sound(new), new.created # 0, Version(rd[r], new), seen' = seen,
         \A a, b \in Rds : Elder(a, b)' => Elder(a, b) \/ (b = r /\ rd[r].created = 0),
         new.cond # "" => seen[r].created # 0,
         \A k \in Rds : k \in pending' => k \in pending \/ seen[k].created # 0
  PROVE  Cached'
<1>1. CASE new = rd[r]
  <2>1. rd' = rd /\ stream' = stream
    BY <1>1 DEF Store, TypeOK
  <2> QED BY <2>1, CachedSame
<1>2. CASE new # rd[r]
  <2>0. stream \in Seq(Changes) /\ rd \in [Rds -> Objects]
    BY DEF TypeOK, Changes
  <2>a. PICK L \in Nat : L = Len(stream)
    BY <2>0, LenProperties
  <2> DEFINE change == [rd |-> r, object |-> new]
  <2>1. stream \in Seq(Changes) /\ change \in Changes /\ L \in Nat /\ rd \in [Rds -> Objects]
    BY <2>0 DEF Changes
  <2>2. stream' = Append(stream, change) /\ rd' = [rd EXCEPT ![r] = new]
    BY <1>2 DEF Store
  <2>3. rd'[r] = new /\ \A k \in Rds \ {r} : rd'[k] = rd[k]
    BY <2>1, <2>2
  <2>5. change.rd = r /\ change.object = new
    OBVIOUS
  <2> HIDE DEF change
  <2>4. /\ Len(stream') = L + 1 /\ stream'[L + 1] = change /\ \A i \in 1..L : stream'[i] = stream[i]
        /\ \A i \in 1..L : i \in 1..(L + 1) /\ i < L + 1
        /\ \A i \in 1..(L + 1) : i \in 1..L \/ i = L + 1
        /\ L + 1 \in 1..(L + 1) /\ ~(L + 1 < L + 1) /\ \A i \in 1..L : ~(L + 1 < i)
    <3>0. /\ Len(Append(stream, change)) = Len(stream) + 1
          /\ Append(stream, change)[Len(stream) + 1] = change
          /\ \A i \in 1..Len(stream) : Append(stream, change)[i] = stream[i]
      <4>1. stream \in Seq(Changes) /\ change \in Changes
        BY <2>1
      <4>2. Len(Append(stream, change)) = Len(stream) + 1
        BY <4>1, AppendProperties
      <4>3. Append(stream, change)[Len(stream) + 1] = change
        BY <4>1, AppendProperties
      <4>4. \A i \in 1..Len(stream) : Append(stream, change)[i] = stream[i]
        BY <4>1, AppendAt
      <4> QED BY <4>2, <4>3, <4>4
    <3>1. Len(stream') = L + 1 /\ stream'[L + 1] = change /\ \A i \in 1..L : stream'[i] = stream[i]
      BY <2>2, <2>a, <3>0
    <3> QED BY <3>1, OneMore

  <2>n. L = Len(stream)
    BY <2>a
  <2>6. \A k \in Rds : rd[k] \in Objects /\ rd'[k] \in Objects /\ seen[k] \in Objects /\ Version(rd[k], rd'[k])
    BY <2>1, <2>3, VersionSame DEF TypeOK
  <2>7. \A i \in 1..L : stream[i].rd \in Rds /\ stream[i].object \in Objects
    BY <2>n, StreamTypes
  <2>8. \A k \in Rds : Version(seen[k], rd'[k])
    <3> TAKE k \in Rds
    <3>1. Version(seen[k], rd[k])
      BY DEF Cached, Versions
    <3> QED BY <2>6, <3>1, VersionTransitive
  <2>9. \A i \in 1..L : Version(stream[i].object, rd'[stream[i].rd])
    <3> TAKE i \in 1..L
    <3>1. Version(stream[i].object, rd[stream[i].rd])
      BY <2>n DEF Cached, Versions
    <3> QED BY <2>6, <2>7, <3>1, VersionTransitive
  <2>v. Versions'
    <3>1. \A k \in Rds : Sound(seen'[k]) /\ Version(seen'[k], rd'[k])
      BY <2>8 DEF Cached, Versions
    <3>2. ASSUME NEW i \in 1..(L + 1)
          PROVE  /\ Sound(stream'[i].object) /\ stream'[i].object.created # 0
                 /\ Version(seen'[stream'[i].rd], stream'[i].object)
                 /\ Version(stream'[i].object, rd'[stream'[i].rd])
      <4>1. CASE i \in 1..L
        BY <2>4, <2>9, <2>n, <4>1 DEF Cached, Versions
      <4>2. CASE i = L + 1
        <5>1. Version(new, rd'[r]) /\ Version(seen[r], new)
          BY <2>3, <2>8, VersionSame
        <5> QED BY <2>4, <2>5, <4>2, <5>1
      <4> QED BY <2>4, <4>1, <4>2
    <3>3. ASSUME NEW i \in 1..(L + 1), NEW j \in 1..(L + 1), i < j, stream'[i].rd = stream'[j].rd
          PROVE  Version(stream'[i].object, stream'[j].object)
      <4>1. i \in 1..L
        BY <2>1, <2>4, <2>n, <3>3
      <4>2. CASE j \in 1..L
        BY <2>4, <2>n, <3>3, <4>1, <4>2 DEF Cached, Versions
      <4>3. CASE j = L + 1
        <5>1. stream[i].rd = r /\ stream'[i] = stream[i] /\ stream'[j].object = new
          BY <2>4, <2>5, <3>3, <4>1, <4>3
        <5>2. Version(stream[i].object, rd'[r])
          BY <2>9, <4>1, <5>1
        <5> QED BY <2>3, <5>1, <5>2
      <4> QED BY <2>4, <4>2, <4>3
    <3> QED BY <2>4, <3>1, <3>2, <3>3 DEF Versions
  <2>c. CatchesUp'
    <3> SUFFICES ASSUME NEW k \in Rds
                 PROVE  \/ seen'[k] = rd'[k] /\ \A i \in 1..(L + 1) : stream'[i].rd # k
                        \/ \E i \in 1..(L + 1) : LastChange(k, i)'
      BY <2>4 DEF CatchesUp
    <3>1. CASE k = r
      <4>1. \A j \in 1..(L + 1) : ~(L + 1 < j)
        BY <2>4
      <4>2. LastChange(k, L + 1)'
        <5>1. stream'[L + 1].rd = k /\ stream'[L + 1].object = rd'[k]
          BY <2>3, <2>4, <2>5, <3>1
        <5> QED BY <2>4, <4>1, <5>1 DEF LastChange
      <4> QED BY <2>4, <4>2
    <3>2. CASE k # r
      <4>1. CASE seen[k] = rd[k] /\ \A i \in 1..L : stream[i].rd # k
        BY <2>3, <2>4, <2>5, <3>2, <4>1
      <4>2. ASSUME NEW i \in 1..L, LastChange(k, i) PROVE LastChange(k, i)'
        <5>1. \A j \in 1..(L + 1) : i < j => stream'[j].rd # k
          BY <2>4, <2>5, <2>n, <3>2, <4>2 DEF LastChange
        <5> QED BY <2>3, <2>4, <3>2, <4>2, <5>1 DEF LastChange
      <4> QED BY <2>4, <2>n, <4>1, <4>2 DEF Cached, CatchesUp
    <3> QED BY <3>1, <3>2
  <2>m. Met'
    <3> SUFFICES ASSUME NEW k \in Rds, rd'[k].cond # "" \/ k \in pending' PROVE seen[k].created # 0
      BY DEF Met
    <3>1. CASE k = r /\ rd'[k].cond # ""
      BY <2>3, <3>1
    <3>2. CASE k # r /\ rd'[k].cond # ""
      BY <2>3, <3>2 DEF Cached, Met
    <3>3. CASE k \in pending'
      BY <3>3 DEF Cached, Met
    <3> QED BY <3>1, <3>2, <3>3
  <2>o. InOrder'
    <3>1. ASSUME NEW a \in Rds, NEW b \in Rds, Elder(a, b)', seen[b].created # 0 PROVE seen[a].cond # ""
      <4>1. rd[b].created # 0
        BY <3>1 DEF Cached, Versions, Version
      <4>2. Elder(a, b)
        BY <3>1, <4>1
      <4> QED BY <3>1, <4>2 DEF Cached, InOrder, Aware
    <3>2. ASSUME NEW i \in 1..(L + 1), NEW a \in Rds, NEW c \in Rds, c = stream'[i].rd, Elder(a, c)'
          PROVE  Told(a, i)'
      <4>0. SUFFICES \/ seen[a].cond # ""
                     \/ \E j \in 1..(L + 1) : j < i /\ stream'[j].rd = a /\ stream'[j].object.cond # ""
        BY <2>4 DEF Told
      <4>1. CASE i \in 1..L
        <5> DEFINE b == stream[i].rd
        <5>1. b \in Rds /\ stream'[i].rd = b
          BY <2>4, <2>7, <4>1
        <5>2. rd[b].created # 0
          <6>1. Version(stream[i].object, rd[b]) /\ stream[i].object.created # 0
            BY <2>n, <4>1 DEF Cached, Versions
          <6> QED BY <6>1 DEF Version
        <5> HIDE DEF b
        <5>3. Elder(a, b)
          <6>1. Elder(a, c) \/ (c = r /\ rd[r].created = 0)
            BY <3>2
          <6> QED BY <3>2, <5>1, <5>2, <6>1
        <5>4. \/ seen[a].cond # ""
              \/ \E j \in 1..L : j < i /\ stream[j].rd = a /\ stream[j].object.cond # ""
          BY <2>n, <4>1, <5>1, <5>3 DEF b, Cached, InOrder, WillBeAware, Told
        <5> QED BY <2>4, <5>4
      <4>2. CASE i = L + 1
        <5>1. Elder(a, r)'
          <6>1. c = r
            BY <2>4, <2>5, <3>2, <4>2
          <6> QED BY <3>2, <6>1
        <5>2. rd'[a].cond # "" /\ a # r
          <6>1. rd'[a].cond # ""
            BY <5>1 DEF InTurn, Passed
          <6>2. rd'[r].created \in Nat
            BY <2>6, Fields
          <6> QED BY <5>1, <6>1, <6>2, Numbers DEF Elder
        <5>3. rd[a].cond # ""
          BY <2>3, <5>2
        <5>4. CASE seen[a] = rd[a]
          BY <5>3, <5>4
        <5>5. ASSUME NEW j \in 1..L, LastChange(a, j)
              PROVE  j \in 1..(L + 1) /\ j < i /\ stream'[j].rd = a /\ stream'[j].object.cond # ""
          BY <2>4, <4>2, <5>3, <5>5 DEF LastChange
        <5>6. seen[a] = rd[a] \/ \E j \in 1..L : LastChange(a, j)
          BY <2>n DEF Cached, CatchesUp
        <5> QED BY <5>4, <5>5, <5>6
      <4> QED BY <2>4, <4>1, <4>2
    <3>3. Aware'
      BY <3>1 DEF Aware
    <3>4. WillBeAware'
      BY <2>4, <3>2 DEF WillBeAware
    <3> QED BY <3>3, <3>4 DEF InOrder
  <2> QED BY <2>v, <2>c, <2>m, <2>o DEF Cached
<1> QED BY <1>1, <1>2

(* The cache hears of a change. *)
LEMMA CachedDeliver == ASSUME TypeOK, InTurn, Cached, Deliver PROVE Cached'
<1> DEFINE L == Len(stream)
           h == stream[1].rd
           new == stream[1].object
<1>1. stream \in Seq(Changes) /\ stream # <<>> /\ seen \in [Rds -> Objects] /\ rd' = rd
  BY DEF TypeOK, Changes, Deliver
<1>2. L \in Nat /\ 1 \in 1..L /\ Head(stream) = stream[1]
  BY <1>1, EmptySeq, LenProperties
<1>3. h \in Rds /\ new \in Objects
  BY <1>2, StreamTypes
<1>4. stream' = Tail(stream) /\ seen' = [seen EXCEPT ![h] = new] /\ pending' = pending \cup Notified(h, seen[h], new)
  BY <1>2 DEF Deliver
<1>5. seen'[h] = new /\ \A k \in Rds \ {h} : seen'[k] = seen[k]
  BY <1>1, <1>3, <1>4
<1>6. /\ Len(stream') = L - 1 /\ \A i \in 1..(L - 1) : i + 1 \in 1..L /\ stream'[i] = stream[i + 1]
      /\ \A i \in 1..L : i = 1 \/ (i - 1 \in 1..(L - 1) /\ stream'[i - 1] = stream[i])
  <2>1. Len(stream') = L - 1 /\ \A i \in 1..(L - 1) : stream'[i] = stream[i + 1]
    BY <1>1, <1>4, HeadTailProperties
  <2>2. \A i \in 1..L : i = 1 \/ (i - 1 \in 1..(L - 1) /\ (i - 1) + 1 = i)
    BY <1>2
  <2>3. \A i \in 1..(L - 1) : i + 1 \in 1..L
    BY <1>2
  <2> QED BY <2>1, <2>2, <2>3
<1>7. /\ Sound(new) /\ new.created # 0 /\ Version(seen[h], new) /\ Version(new, rd[h])
      /\ \A i \in 1..L : 1 < i /\ stream[i].rd = h => Version(new, stream[i].object)
  BY <1>2 DEF Cached, Versions
<1>8. \A i, j \in 1..(L - 1) : i + 1 \in 1..L /\ (i < j <=> i + 1 < j + 1) /\ 1 < i + 1
  BY <1>2
<1>9. \A i, j \in 1..L : i - 1 < j - 1 <=> i < j
  BY <1>2
<1>10. \A i \in 1..L : ~(i < 1) /\ (i = 1 \/ 1 < i)
  BY <1>2
<1> HIDE DEF L, h, new
<1>n. L = Len(stream)
  BY DEF L
<1>h. stream[1].rd = h /\ stream[1].object = new
  BY DEF h, new
<1>k. \A k \in Rds : /\ seen[k].created # 0 => seen'[k].created # 0
                     /\ seen[k].cond # "" => seen'[k].cond # ""
                     /\ seen'[k].created # 0 => seen[k].created # 0 \/ k = h
  BY <1>3, <1>5, <1>7 DEF Version
<1>e. \A a, b \in Rds : Elder(a, b)' <=> Elder(a, b)
  BY <1>1 DEF Elder
<1>v. Versions'
  <2>1. \A k \in Rds : Sound(seen'[k]) /\ Version(seen'[k], rd'[k])
    BY <1>1, <1>5, <1>7 DEF Cached, Versions
  <2>2. ASSUME NEW i \in 1..(L - 1)
        PROVE  /\ Sound(stream'[i].object) /\ stream'[i].object.created # 0
               /\ Version(seen'[stream'[i].rd], stream'[i].object)
               /\ Version(stream'[i].object, rd'[stream'[i].rd])
    <3>1. i + 1 \in 1..L /\ 1 < i + 1 /\ stream'[i] = stream[i + 1]
      BY <1>6, <1>8
    <3>2. stream[i + 1].rd \in Rds
      BY <1>n, <3>1, StreamTypes
    <3>3. /\ Sound(stream[i + 1].object) /\ stream[i + 1].object.created # 0
          /\ Version(seen[stream[i + 1].rd], stream[i + 1].object)
          /\ Version(stream[i + 1].object, rd[stream[i + 1].rd])
      BY <1>n, <3>1 DEF Cached, Versions
    <3>4. Version(seen'[stream[i + 1].rd], stream[i + 1].object)
      <4>1. CASE stream[i + 1].rd = h
        BY <1>5, <1>7, <3>1, <4>1
      <4>2. CASE stream[i + 1].rd # h
        BY <1>5, <3>2, <3>3, <4>2
      <4> QED BY <4>1, <4>2
    <3> QED BY <1>1, <3>1, <3>3, <3>4
  <2>3. ASSUME NEW i \in 1..(L - 1), NEW j \in 1..(L - 1), i < j, stream'[i].rd = stream'[j].rd
        PROVE  Version(stream'[i].object, stream'[j].object)
    <3>1. i + 1 \in 1..L /\ j + 1 \in 1..L /\ i + 1 < j + 1
      BY <1>8, <2>3
    <3>2. stream'[i] = stream[i + 1] /\ stream'[j] = stream[j + 1]
      BY <1>6
    <3> QED BY <1>n, <2>3, <3>1, <3>2 DEF Cached, Versions
  <2> QED BY <1>6, <2>1, <2>2, <2>3 DEF Versions
<1>c. CatchesUp'
  <2> SUFFICES ASSUME NEW k \in Rds
               PROVE  \/ seen'[k] = rd[k] /\ \A i \in 1..(L - 1) : stream'[i].rd # k
                      \/ \E i \in 1..(L - 1) : LastChange(k, i)'
    BY <1>1, <1>6 DEF CatchesUp
  <2>1. CASE seen[k] = rd[k] /\ \A i \in 1..L : stream[i].rd # k
    BY <1>2, <1>5, <1>6, <1>h, <2>1
  <2>2. ASSUME NEW i \in 1..L, LastChange(k, i), i = 1
        PROVE  seen'[k] = rd[k] /\ \A j \in 1..(L - 1) : stream'[j].rd # k
    <3>1. k = h /\ new = rd[k] /\ \A j \in 1..L : 1 < j => stream[j].rd # k
      BY <1>h, <1>n, <2>2 DEF LastChange
    <3> QED BY <1>5, <1>6, <1>8, <3>1
  <2>3. ASSUME NEW i \in 1..L, LastChange(k, i), i # 1
        PROVE  i - 1 \in 1..(L - 1) /\ LastChange(k, i - 1)'
    <3>1. i - 1 \in 1..(L - 1) /\ stream'[i - 1] = stream[i]
      BY <1>6, <2>3
    <3>2. ASSUME NEW j \in 1..(L - 1), i - 1 < j PROVE stream'[j].rd # k
      <4>1. j + 1 \in 1..L /\ stream'[j] = stream[j + 1] /\ i < j + 1
        BY <1>2, <1>6, <3>2
      <4> QED BY <1>n, <2>3, <4>1 DEF LastChange
    <3> QED BY <1>1, <1>6, <2>3, <3>1, <3>2 DEF LastChange
  <2> QED BY <1>n, <2>1, <2>2, <2>3 DEF Cached, CatchesUp
<1>m. Met'
  <2> SUFFICES ASSUME NEW k \in Rds, rd[k].cond # "" \/ k \in pending' PROVE seen'[k].created # 0
    BY <1>1 DEF Met
  <2>1. k = h \/ rd[k].cond # "" \/ k \in pending
    BY <1>4 DEF Notified
  <2> QED BY <1>5, <1>7, <1>k, <2>1 DEF Cached, Met
<1>o. InOrder'
  <2>1. ASSUME NEW a \in Rds, NEW b \in Rds, Elder(a, b), seen'[b].created # 0 PROVE seen'[a].cond # ""
    <3>1. CASE seen[b].created # 0
      BY <1>k, <2>1, <3>1 DEF Cached, InOrder, Aware
    <3>2. CASE b = h
      <4>1. \/ seen[a].cond # ""
            \/ \E j \in 1..L : j < 1 /\ stream[j].rd = a /\ stream[j].object.cond # ""
        BY <1>2, <1>3, <1>h, <1>n, <2>1, <3>2 DEF Cached, InOrder, WillBeAware, Told
      <4> QED BY <1>10, <1>k, <4>1
    <3> QED BY <1>k, <2>1, <3>1, <3>2
  <2>2. ASSUME NEW i \in 1..(L - 1), NEW a \in Rds, NEW c \in Rds, c = stream'[i].rd, Elder(a, c)
        PROVE  Told(a, i)'
    <3>0. SUFFICES \/ seen'[a].cond # ""
                   \/ \E j \in 1..(L - 1) : j < i /\ stream'[j].rd = a /\ stream'[j].object.cond # ""
      BY <1>6 DEF Told
    <3>1. i + 1 \in 1..L /\ stream'[i] = stream[i + 1]
      BY <1>6
    <3>2. \/ seen[a].cond # ""
          \/ \E j \in 1..L : j < i + 1 /\ stream[j].rd = a /\ stream[j].object.cond # ""
      BY <1>n, <2>2, <3>1 DEF Cached, InOrder, WillBeAware, Told
    <3>3. ASSUME NEW j \in 1..L, j < i + 1, stream[j].rd = a, stream[j].object.cond # ""
          PROVE  \/ seen'[a].cond # ""
                 \/ \E l \in 1..(L - 1) : l < i /\ stream'[l].rd = a /\ stream'[l].object.cond # ""
      <4>1. CASE j = 1
        BY <1>5, <1>h, <3>3, <4>1
      <4>2. CASE j # 1
        <5>1. j - 1 \in 1..(L - 1) /\ stream'[j - 1] = stream[j]
          BY <1>6, <4>2
        <5>2. j - 1 < i
          BY <1>2, <3>3, Shift
        <5> QED BY <3>3, <5>1, <5>2
      <4> QED BY <4>1, <4>2
    <3> QED BY <1>k, <3>2, <3>3
  <2>3. Aware'
    BY <1>e, <2>1 DEF Aware
  <2>4. WillBeAware'
    BY <1>6, <1>e, <2>2 DEF WillBeAware
  <2> QED BY <2>3, <2>4 DEF InOrder
<1> QED BY <1>v, <1>c, <1>m, <1>o DEF Cached

(* The operator starts: the cache is what the API server has. *)
LEMMA CachedAnew ==
  ASSUME TypeOK, InTurn, UNCHANGED rd, seen' = rd, stream' = <<>>,
         \A r \in Rds : r \in pending' => rd[r].created # 0
  PROVE  Cached'
<1>1. Len(stream') = 0 /\ 1..0 = {}
  BY EmptySeq
<1>2. \A r \in Rds : Sound(rd[r]) /\ Version(rd[r], rd[r])
  BY RdType, VersionSame DEF InTurn, OnTime
<1>v. Versions'
  BY <1>1, <1>2 DEF Versions
<1>c. CatchesUp'
  BY <1>1 DEF CatchesUp
<1>m. Met'
  <2>1. \A r \in Rds : rd[r].cond # "" => rd[r].created # 0
    BY RdType, <1>2, Numbers DEF Sound
  <2> QED BY <2>1 DEF Met
<1>o. InOrder'
  <2>1. \A a, b \in Rds : Elder(a, b)' => rd[a].cond # ""
    BY DEF InTurn, Passed, Elder
  <2>2. Aware'
    BY <2>1 DEF Aware
  <2>3. WillBeAware'
    BY <1>1 DEF WillBeAware
  <2> QED BY <2>2, <2>3 DEF InOrder
<1> QED BY <1>v, <1>c, <1>m, <1>o DEF Cached

-----------------------------------------------------------------------------
(* What a Sync works from, and what it has done so far.                    *)

(* The RadixDeployment is the latest that the cache knew when the Sync began, the
   elder ones are on its list, and no younger one has been active since. *)
Based ==
  \A o \in Rds : o = sync.rd =>
    /\ Standing(o) /\ seen[o].created # 0 /\ sync.all[o].created # 0
    /\ Sound(sync.own) /\ sync.own.created = rd[o].created /\ Version(sync.own, rd[o])
    /\ \A k \in Rds :
         /\ Sound(sync.all[k]) /\ Version(sync.all[k], rd[k])
         /\ Elder(k, o) => sync.all[k].created # 0
         /\ Elder(o, k) => rd[k].cond = "" /\ ~sync.all[k].exists

Deploying == {"deploy", "status", "history", "prune"}

Phased ==
  \A o \in Rds : o = sync.rd =>
    /\ sync.pc # "activate" => sync.own.cond = "Active"
    /\ sync.pc = "inactivate" =>
         \A k \in Rds : /\ Standing(k) /\ Elder(k, o) => k \in sync.todo
                        /\ k \in sync.todo => Elder(k, o)
    /\ sync.pc \in Deploying => \A k \in Rds : Elder(k, o) => ~Standing(k)
    /\ sync.pc = "prune" => \A k \in sync.todo : rd[k].cond = "Inactive" /\ k \notin Referenced

Syncing == sync.pc # "idle" => Based /\ Phased

(* What is deployed has been synced. *)
Placed == \A c \in Components, r \in Rds : deployed[c].rd = r => seen[r].created # 0

Patient == left["timeout"] = 0 /\ left["registration"] = 0

SerialInv == InTurn /\ Cached /\ Syncing /\ Placed /\ Patient

LEMMA AbsentCreated ==
  Absent.created = 0 /\ ~Absent.exists /\ Absent.cond = "" /\ Absent.from = 0 /\ Absent.spec = 0
  BY DEF Absent

LEMMA SoundFacts ==
  ASSUME NEW o \in Objects, Sound(o)
  PROVE  /\ o.exists => o.created # 0
         /\ o.cond # "" => o.created # 0 /\ o.from # 0 /\ ActiveFrom(o) = o.from
         /\ o.cond = "" => ActiveFrom(o) = o.created
         /\ o.created <= ActiveFrom(o)
<1>1. o.created \in Nat /\ o.from \in Nat
  BY Fields
<1>2. o.exists => o.created # 0
  BY AbsentCreated DEF Sound
<1>3. o.cond # "" => o.created # 0 /\ o.from # 0
  BY <1>1, Numbers, Transitive DEF Sound
<1>4. o.cond = "" => ActiveFrom(o) = o.created
  BY DEF Sound, ActiveFrom
<1>5. o.cond # "" => ActiveFrom(o) = o.from
  BY <1>3 DEF ActiveFrom
<1>6. o.created <= ActiveFrom(o)
  BY <1>1, <1>4, <1>5, Numbers DEF Sound
<1> QED BY <1>2, <1>3, <1>4, <1>5, <1>6


(* A version's time is not later than the current one's. *)
LEMMA VersionTime ==
  ASSUME NEW o \in Objects, NEW p \in Objects, Sound(o), Sound(p), Version(o, p), o.created # 0
  PROVE  o.created = p.created /\ ActiveFrom(o) <= ActiveFrom(p)
<1>1. o.created = p.created
  BY DEF Version
<1>2. ActiveFrom(o) \in Nat /\ ActiveFrom(p) \in Nat /\ o.created \in Nat
  BY TimeType, Fields
<1>3. CASE o.cond = ""
  BY <1>1, <1>3, SoundFacts
<1>4. CASE o.cond # ""
  <2>1. o.from # 0 /\ ActiveFrom(o) = o.from
    BY <1>4, SoundFacts
  <2>2. p.from = o.from
    BY <2>1 DEF Version
  <2>3. ActiveFrom(p) = o.from
    BY <2>1, <2>2 DEF ActiveFrom
  <2> QED BY <1>1, <1>2, <2>1, <2>3, Numbers
<1> QED BY <1>1, <1>3, <1>4

(* An update of r that keeps the pipelines in turn. *)
Allowed(r, new) ==
  /\ rd[r].created # 0 /\ new.created = rd[r].created /\ Sound(new)
  /\ new.from <= clock /\ new.to <= clock
  /\ rd[r].cond # "" => new.cond # "" /\ new.from = rd[r].from
  /\ rd[r].cond = "Inactive" => new.cond = "Inactive" /\ new.to = rd[r].to
  /\ ActiveFrom(rd[r]) <= ActiveFrom(new)
  /\ new.cond = "Inactive" /\ rd[r].cond # "Inactive" =>
       ~Latest(r) /\ \A k \in Rds : Elder(r, k) => new.to <= ActiveFrom(rd[k])
  /\ new.exists \/ \A k \in Rds : Standing(k) => ~Elder(k, r)
  /\ new.exists => rd[r].exists
  /\ rd[r].spec <= new.spec

LEMMA Advance ==
  ASSUME TypeOK, InTurn, Cached, NEW r \in Rds, NEW new \in Objects, Allowed(r, new), Store(r, new),
         UNCHANGED <<clock, runner, seen>>, activated \subseteq activated', new.from # 0 => r \in activated',
         new.cond # "" => seen[r].created # 0,
         \A k \in Rds : k \in pending' => k \in pending \/ seen[k].created # 0
  PROVE  /\ InTurn' /\ Cached'
         /\ \A a, b \in Rds : Elder(a, b)' <=> Elder(a, b)
         /\ \A k \in Rds : Version(rd[k], rd'[k])
         /\ rd'[r] = new /\ \A k \in Rds \ {r} : rd'[k] = rd[k]
<1>1. rd \in [Rds -> Objects] /\ rd' = [rd EXCEPT ![r] = new]
  BY DEF TypeOK, Store
<1>2. rd'[r] = new /\ \A k \in Rds \ {r} : rd'[k] = rd[k]
  BY <1>1
<1>3. \A k \in Rds : rd'[k].created = rd[k].created
  BY <1>2 DEF Allowed
<1>4. \A a, b \in Rds : Elder(a, b)' <=> Elder(a, b)
  BY <1>3 DEF Elder
<1>5. Version(rd[r], new)
  <2>1. Sound(rd[r])
    BY DEF InTurn, OnTime
  <2> QED BY <2>1 DEF Allowed, Version, Sound
<1>6. \A k \in Rds : Version(rd[k], rd'[k])
  BY <1>1, <1>2, <1>5, VersionSame
<1>7. InTurn'
  BY <1>1, TurnKept DEF Allowed
<1>8. Cached'
  <2>1. Sound(new) /\ new.created # 0
    BY DEF Allowed
  <2> QED BY <1>4, <1>5, <1>7, <2>1, CachedStore
<1> QED BY <1>2, <1>4, <1>6, <1>7, <1>8

LEMMA BasedKept ==
  ASSUME TypeOK, TypeOK', InTurn, Based, sync.pc # "idle", sync'.rd = sync.rd, sync'.all = sync.all,
         Sound(sync'.own), Version(sync'.own, rd'[sync.rd]), sync'.own.created = rd[sync.rd].created,
         \A k \in Rds : Version(rd[k], rd'[k]),
         \A a, b \in Rds : Elder(a, b)' => Elder(a, b) \/ (rd[b].created = 0 /\ rd'[b].cond = ""),
         \A k \in Rds \ {sync.rd} : rd[k].cond = "" => rd'[k].cond = "",
         \A k \in Rds : seen[k].created # 0 => seen'[k].created # 0,
         rd'[sync.rd].cond # "Inactive"
  PROVE  Based'
<1>1. PICK o \in Rds : o = sync.rd
  BY DEF TypeOK
<1>2. /\ Standing(o) /\ seen[o].created # 0 /\ sync.all[o].created # 0
      /\ \A k \in Rds :
           /\ Sound(sync.all[k]) /\ Version(sync.all[k], rd[k])
           /\ Elder(k, o) => sync.all[k].created # 0
           /\ Elder(o, k) => rd[k].cond = "" /\ ~sync.all[k].exists
  BY <1>1 DEF Based
<1>3. \A k \in Rds : rd[k] \in Objects /\ rd'[k] \in Objects /\ sync.all[k] \in Objects
  BY DEF TypeOK
<1>4. rd[o].created # 0 /\ rd'[o].created = rd[o].created
  BY <1>2 DEF Standing, Version
<1>5. Standing(o)'
  BY <1>1, <1>4 DEF Standing
<1>6. \A k \in Rds : Version(sync.all[k], rd'[k])
  BY <1>2, <1>3, VersionTransitive
<1>7. ASSUME NEW k \in Rds, Elder(k, o)' PROVE sync.all[k].created # 0
  BY <1>2, <1>4, <1>7
<1>8. ASSUME NEW k \in Rds, Elder(o, k)' PROVE rd'[k].cond = "" /\ ~sync.all[k].exists
  <2>1. CASE Elder(o, k)
    <3>1. k # o
      BY <1>3, <2>1, Fields, Numbers DEF Elder
    <3> QED BY <1>1, <1>2, <2>1, <3>1
  <2>2. CASE rd[k].created = 0 /\ rd'[k].cond = ""
    <3>1. sync.all[k].created = 0
      BY <1>2, <2>2 DEF Version
    <3>2. ~sync.all[k].exists
      BY <1>2, <1>3, <3>1, SoundFacts
    <3> QED BY <2>2, <3>2
  <2> QED BY <1>8, <2>1, <2>2
<1>9. seen'[o].created # 0 /\ sync'.all[o].created # 0 /\ sync'.rd = o /\ sync'.own.created = rd'[o].created
  BY <1>1, <1>2, <1>4
<1>10. \A k \in Rds : Sound(sync'.all[k]) /\ Version(sync'.all[k], rd'[k])
  BY <1>2, <1>6
<1>11. \A k \in Rds : (Elder(k, o)' => sync'.all[k].created # 0) /\ (Elder(o, k)' => rd'[k].cond = "" /\ ~sync'.all[k].exists)
  BY <1>7, <1>8
<1>12. Sound(sync'.own) /\ Version(sync'.own, rd'[o])
  BY <1>1
<1> QED BY <1>5, <1>9, <1>10, <1>11, <1>12 DEF Based

(* A Sync begins with the latest that the cache knows, or not at all. *)
LEMMA BegunBased ==
  ASSUME TypeOK, InTurn, Cached, NEW r \in Rds, NEW try, seen[r].created # 0, Begin(r, try),
         UNCHANGED <<rd, seen>>
  PROVE  Syncing' /\ (sync'.pc # "idle" => sync'.pc = "activate" /\ sync'.rd = r /\ sync'.own = rd[r])
<1>1. CASE sync' = Idle
  BY <1>1, IdleType DEF Syncing
<1>2. CASE /\ rd[r].exists /\ rd[r].cond # "Inactive" /\ IsLatest(r, rd[r], seen)
           /\ sync' = [Idle EXCEPT !.pc = "activate", !.rd = r, !.tries = try, !.own = rd[r], !.all = seen]
  <2>1. sync'.pc = "activate" /\ sync'.rd = r /\ sync'.own = rd[r] /\ sync'.all = seen
    BY <1>2 DEF Idle
  <2>2. \A k \in Rds : rd[k] \in Objects /\ seen[k] \in Objects /\ Sound(rd[k]) /\ Sound(seen[k]) /\ Version(seen[k], rd[k])
    BY DEF TypeOK, InTurn, OnTime, Cached, Versions
  <2>3. Standing(r)
    BY <1>2, <2>2, SoundFacts DEF Standing
  <2>4. ASSUME NEW k \in Rds, Elder(r, k) PROVE rd[k].cond = "" /\ ~seen[k].exists
    <3>1. rd[r].cond # "" /\ rd[r].from < rd[k].created /\ rd[k].exists
      BY <2>3, <2>4 DEF InTurn, Passed
    <3>2. ActiveFrom(rd[r]) = rd[r].from
      BY <2>2, <3>1, SoundFacts
    <3>3. ~seen[k].exists
      <4> SUFFICES ASSUME seen[k].exists PROVE FALSE
        OBVIOUS
      <4>1. rd[k].created = seen[k].created /\ seen[k].created <= ActiveFrom(seen[k])
        BY <2>2, SoundFacts DEF Version
      <4>2. k # r
        BY <2>2, <2>4, Fields, Numbers DEF Elder
      <4>3. ActiveFrom(rd[r]) >= ActiveFrom(seen[k])
        BY <1>2, <4>2 DEF IsLatest, Existing
      <4>4. rd[r].from \in Nat /\ rd[k].created \in Nat /\ ActiveFrom(seen[k]) \in Nat
        BY <2>2, Fields, TimeType
      <4>5. seen[k].created \in Nat /\ ActiveFrom(seen[k]) <= rd[r].from
        BY <2>2, <3>2, <4>3, <4>4, Fields
      <4> QED BY <3>1, <4>1, <4>4, <4>5, Transitive, Order
    <3>4. seen[k].created = 0
      BY <2>2, <3>1, <3>3 DEF Version
    <3>5. rd[k].cond = ""
      BY <3>4 DEF Cached, Met
    <3> QED BY <3>3, <3>5
  <2>5. \A k \in Rds : Elder(k, r) => seen[k].created # 0
    <3>1. \A k \in Rds : Elder(k, r) => seen[k].cond # ""
      BY DEF Cached, InOrder, Aware
    <3> QED BY <2>2, <3>1, SoundFacts
  <2>6. \A a, b \in Rds : Elder(a, b)' <=> Elder(a, b)
    BY DEF Elder
  <2>7. Based'
    <3>1. Version(rd[r], rd[r])
      BY <2>2, VersionSame
    <3>2. Standing(r)'
      BY <2>3 DEF Standing
    <3> QED BY <2>1, <2>2, <2>4, <2>5, <2>6, <3>1, <3>2 DEF Based
  <2>8. Phased'
    BY <2>1 DEF Phased, Deploying
  <2> QED BY <2>1, <2>7, <2>8 DEF Syncing
<1> QED BY <1>1, <1>2 DEF Begin

LEMMA IdleSyncing == ASSUME sync' = Idle PROVE Syncing'
  BY IdleType DEF Syncing

(* After a conflict. *)
LEMMA RetryBased ==
  ASSUME TypeOK, InTurn, Cached, Syncing, sync.pc # "idle", Retry, UNCHANGED <<rd, seen>>
  PROVE  Syncing' /\ \A k \in Rds : k \in pending' => k \in pending \/ seen[k].created # 0
<1>1. sync.rd \in Rds /\ seen[sync.rd].created # 0
  BY DEF TypeOK, Syncing, Based
<1>2. CASE Begin(sync.rd, sync.tries + 1) /\ UNCHANGED pending
  BY <1>1, <1>2, BegunBased
<1>3. CASE Requeue
  BY <1>1, <1>3, IdleSyncing DEF Requeue
<1> QED BY <1>2, <1>3 DEF Retry

LEMMA PhasedKept ==
  ASSUME TypeOK, Phased, sync.pc # "idle", sync' = sync,
         \A k \in Rds : Elder(k, sync.rd)' <=> Elder(k, sync.rd),
         \A k \in Rds : Standing(k)' => Standing(k) \/ rd[k].created = 0,
         \A k \in Rds : rd[k].cond = "Inactive" => rd'[k].cond = "Inactive"
  PROVE  Phased'
<1>1. PICK o \in Rds : o = sync.rd
  BY DEF TypeOK
<1>2. \A k \in Rds : Elder(k, o)' <=> Elder(k, o)
  BY <1>1 DEF Elder
<1>3. \A k \in Rds : Elder(k, o) /\ Standing(k)' => Standing(k)
  <2>1. \A k \in Rds : rd[k].created \in Nat
    BY RdType
  <2> QED BY <2>1, Numbers DEF Elder
<1>4. sync.todo \subseteq Rds
  BY DEF TypeOK
<1> QED BY <1>1, <1>2, <1>3, <1>4 DEF Phased

(* The Sync's update is not taken. *)
LEMMA NotTaken ==
  ASSUME TypeOK, InTurn, Cached, Syncing, sync.pc # "idle", Retry \/ Requeue,
         UNCHANGED <<rd, seen, stream, clock, runner>>, activated \subseteq activated'
  PROVE  InTurn' /\ Cached' /\ Syncing'
<1>1. rd' = rd /\ seen' = seen /\ stream' = stream /\ clock' = clock /\ runner' = runner
  OBVIOUS
<1>2. clock \in Nat /\ clock <= clock'
  BY <1>1, Numbers DEF TypeOK
<1>3. InTurn'
  BY <1>1, <1>2, TurnSame
<1>4. Syncing' /\ \A k \in Rds : k \in pending' => k \in pending \/ seen[k].created # 0
  <2>1. CASE Retry
    BY <2>1, RetryBased
  <2>2. CASE Requeue
    <3>1. sync.rd \in Rds /\ seen[sync.rd].created # 0
      BY DEF TypeOK, Syncing, Based
    <3> QED BY <2>2, <3>1, IdleSyncing DEF Requeue
  <2> QED BY <2>1, <2>2
<1> QED BY <1>1, <1>3, <1>4, CachedSame

(* What is on the list of a Sync, apart from its own, is the elder ones, and what
   stands of those is on it. *)
LEMMA Listed ==
  ASSUME TypeOK, InTurn, Based, NEW o \in Rds, o = sync.rd, NEW k \in Rds
  PROVE  /\ k # o /\ sync.all[k].exists => Elder(k, o)
         /\ Elder(k, o) /\ Standing(k) => k # o /\ sync.all[k].exists /\ sync.all[k].cond # "Inactive"
<1>1. /\ Standing(o)
      /\ Sound(sync.all[k]) /\ Version(sync.all[k], rd[k])
      /\ Elder(k, o) => sync.all[k].created # 0
      /\ Elder(o, k) => ~sync.all[k].exists
  BY DEF Based
<1>2. rd[k].created \in Nat /\ rd[o].created \in Nat /\ rd[k] \in Objects /\ sync.all[k] \in Objects /\ Sound(rd[k])
  BY RdType DEF TypeOK, InTurn, OnTime
<1>3. ASSUME k # o, sync.all[k].exists PROVE Elder(k, o)
  <2>1. rd[k].created # 0
    BY <1>1, <1>2, <1>3, SoundFacts DEF Version
  <2>2. rd[k].created # rd[o].created
    BY <1>3, <2>1 DEF InTurn, Apart
  <2>3. ~Elder(o, k) /\ rd[o].created # 0
    BY <1>1, <1>3 DEF Standing
  <2> QED BY <1>2, <2>1, <2>2, <2>3 DEF Elder
<1>4. ASSUME Elder(k, o), Standing(k) PROVE k # o /\ sync.all[k].exists /\ sync.all[k].cond # "Inactive"
  <2>1. k # o
    BY <1>2, <1>4, Numbers DEF Elder
  <2>2. rd[k].exists
    BY <1>2, <1>4 DEF Sound, Standing
  <2>3. sync.all[k].exists /\ sync.all[k].cond # "Inactive"
    BY <1>1, <1>4, <2>2 DEF Version, Standing
  <2> QED BY <2>1, <2>3
<1> QED BY <1>3, <1>4

LEMMA SetActiveSerial ==
  ASSUME TypeOK, TypeOK', InTurn, Cached, Syncing, SetActive PROVE InTurn' /\ Cached' /\ Syncing'
<1> DEFINE own == IF sync.own.cond = "Active" THEN sync.own
                    ELSE [sync.own EXCEPT !.cond = "Active", !.from = clock]
           others == {k \in Existing(sync.all) \ {sync.rd} : sync.all[k].cond # "Inactive"}
           then == [sync EXCEPT !.own = own, !.todo = others,
                                !.pc = IF others = {} THEN "deploy" ELSE "inactivate"]
<1>1. sync.pc = "activate" /\ Update(sync.rd, sync.own, own, then)
  BY DEF SetActive
<1>2. UNCHANGED <<clock, seen, runner>> /\ activated \subseteq activated'
      /\ (rd'[sync.rd].cond = "Active" => sync.rd \in activated')
  BY DEF SetActive
<1>3. Based
  BY <1>1 DEF Syncing
<1>4. PICK o \in Rds : o = sync.rd
  BY <1>1 DEF TypeOK
<1>5. /\ Standing(o) /\ seen[o].created # 0 /\ sync.all[o].created # 0
      /\ Sound(sync.own) /\ sync.own.created = rd[o].created
  BY <1>3, <1>4 DEF Based
<1>6. /\ then.rd = o /\ then.all = sync.all /\ then.own = own /\ then.todo = others
      /\ then.pc = IF others = {} THEN "deploy" ELSE "inactivate"
  BY <1>4 DEF TypeOK
<1>7. sync.own \in Objects /\ clock \in Nat /\ 0 < clock /\ rd[o] \in Objects
  BY RdType DEF TypeOK, InTurn, OnTime
<1>8. own \in Objects
  BY <1>7 DEF Objects, Conditions
<1>o. \A k \in Rds : /\ k \in others => Elder(k, o)
                     /\ Elder(k, o) /\ Standing(k) => k \in others
  BY <1>3, <1>4, Listed DEF Existing
<1>w. \/ own = sync.own /\ sync.own.cond = "Active"
      \/ sync.own.cond # "Active" /\ own = [sync.own EXCEPT !.cond = "Active", !.from = clock]
  OBVIOUS
<1> HIDE DEF own, others, then
<1>9. CASE rd[o] = sync.own /\ Store(o, own) /\ sync' = then /\ UNCHANGED pending
  <2>1. Allowed(o, own) /\ own.cond = "Active" /\ own.exists
    <3>0. rd[o].created # 0 /\ rd[o].cond # "Inactive" /\ rd[o].exists /\ rd[o].created <= clock
          /\ rd[o].to <= clock /\ rd[o].from <= clock /\ rd[o].created \in Nat /\ rd[o].spec \in Nat
      BY <1>5, <1>7, Fields DEF Standing, InTurn, OnTime, Sound
    <3>1. CASE own = rd[o] /\ rd[o].cond = "Active"
      <4>1. ActiveFrom(rd[o]) \in Nat
        BY <1>7, TimeType
      <4> QED BY <1>5, <1>9, <3>0, <3>1, <4>1, Numbers DEF Allowed
    <3>2. CASE rd[o].cond # "Active" /\ own = [rd[o] EXCEPT !.cond = "Active", !.from = clock]
      <4>1. /\ own.cond = "Active" /\ own.from = clock /\ own.created = rd[o].created /\ own.exists
            /\ own.to = rd[o].to /\ own.spec = rd[o].spec /\ rd[o].cond = ""
        BY <1>7, <3>0, <3>2, Fields DEF Objects
      <4>2. Sound(own)
        BY <1>7, <3>0, <4>1, Numbers DEF Sound
      <4>3. ActiveFrom(rd[o]) = rd[o].created /\ ActiveFrom(own) = clock
        BY <1>7, <1>5, <1>9, <4>1, Numbers, SoundFacts DEF ActiveFrom
      <4> QED BY <1>7, <3>0, <4>1, <4>2, <4>3, Numbers DEF Allowed
    <3> QED BY <1>9, <1>w, <3>1, <3>2
  <2>2. activated \subseteq activated' /\ o \in activated'
    <3>1. rd'[o] = own
      BY <1>9 DEF Store, TypeOK
    <3> QED BY <1>2, <1>4, <2>1, <3>1
  <2>3. /\ InTurn' /\ Cached'
        /\ \A a, b \in Rds : Elder(a, b)' <=> Elder(a, b)
        /\ \A k \in Rds : Version(rd[k], rd'[k])
        /\ rd'[o] = own /\ \A k \in Rds \ {o} : rd'[k] = rd[k]
    BY <1>2, <1>5, <1>8, <1>9, <2>1, <2>2, Advance
  <2>4. Based'
    <3>1. Sound(own) /\ own.created = rd[o].created
      BY <2>1 DEF Allowed
    <3>2. Version(own, rd'[o])
      BY <1>8, <2>3, VersionSame
    <3>3. \A k \in Rds \ {o} : rd[k].cond = "" => rd'[k].cond = ""
      BY <2>3
    <3>4. sync'.rd = sync.rd /\ sync'.all = sync.all /\ sync'.own = own /\ rd'[o].cond # "Inactive"
      BY <1>4, <1>6, <1>9, <2>1, <2>3
    <3>5. \A k \in Rds : seen[k].created # 0 => seen'[k].created # 0
      BY <1>2
    <3> QED BY <1>1, <1>3, <1>4, <2>3, <3>1, <3>2, <3>3, <3>4, <3>5, BasedKept
  <2>5. Phased'
    <3>1. \A k \in Rds : Standing(k)' => Standing(k)
      BY <1>5, <2>3 DEF Standing
    <3>2. \A k \in Rds : /\ k \in others => Elder(k, o)'
                         /\ Elder(k, o)' /\ Standing(k)' => k \in others
      BY <1>o, <2>3, <3>1
    <3>3. sync'.rd = o /\ sync'.own.cond = "Active" /\ sync'.todo = others
      BY <1>6, <1>9, <2>1
    <3>4. CASE others = {}
      <4>1. sync'.pc = "deploy"
        BY <1>6, <1>9, <3>4
      <4> QED BY <3>2, <3>3, <3>4, <4>1 DEF Phased
    <3>5. CASE others # {}
      <4>1. sync'.pc = "inactivate"
        BY <1>6, <1>9, <3>5
      <4> QED BY <3>2, <3>3, <4>1 DEF Phased, Deploying
    <3> QED BY <3>4, <3>5
  <2> QED BY <2>3, <2>4, <2>5 DEF Syncing
<1>10. CASE (Retry \/ Requeue) /\ UNCHANGED <<rd, stream>>
  BY <1>1, <1>2, <1>10, NotTaken
<1> QED BY <1>1, <1>4, <1>9, <1>10 DEF Update

(* Whatever versions of two RadixDeployments a list has, it has them in the order
   that they were created in. *)
LEMMA TimesInTurn ==
  ASSUME TypeOK, InTurn, NEW r \in Rds, NEW k \in Rds, Elder(r, k), NEW p \in Objects, NEW q \in Objects,
         Sound(p), Sound(q), Version(p, rd[r]), Version(q, rd[k]), p.created # 0, q.created # 0
  PROVE  ActiveFrom(p) < ActiveFrom(q)
<1>1. rd[r] \in Objects /\ Sound(rd[r]) /\ rd[r].from \in Nat /\ rd[k].created \in Nat
  BY RdType DEF InTurn, OnTime
<1>2. rd[r].cond # "" /\ rd[r].from < rd[k].created
  BY DEF InTurn, Passed
<1>3. ActiveFrom(p) <= rd[r].from
  BY <1>1, <1>2, VersionTime, SoundFacts
<1>4. rd[k].created <= ActiveFrom(q)
  BY SoundFacts DEF Version
<1> QED BY <1>1, <1>2, <1>3, <1>4, TimeType, Transitive

LEMMA Compared ==
  ASSUME TypeOK, InTurn, NEW r \in Rds, NEW k \in Rds, r # k, rd[r].created # 0, rd[k].created # 0
  PROVE  Elder(r, k) \/ Elder(k, r)
<1>1. rd[r].created \in Nat /\ rd[k].created \in Nat /\ rd[r].created # rd[k].created
  BY RdType DEF InTurn, Apart
<1> QED BY <1>1 DEF Elder

LEMMA ElderFacts ==
  ASSUME TypeOK, NEW r \in Rds, NEW k \in Rds, Elder(r, k)
  PROVE  /\ ~Elder(k, r) /\ r # k /\ rd[r].created # 0 /\ rd[k].created # 0
         /\ \A m \in Rds : Elder(k, m) => Elder(r, m)
<1>1. \A m \in Rds : rd[m].created \in Nat
  BY RdType
<1> QED BY <1>1 DEF Elder

(* The active-to time that a RadixDeployment gets is not later than the time from
   which any younger one is active. *)
LEMMA PreviousBound ==
  ASSUME TypeOK, InTurn, Based, NEW o \in Rds, o = sync.rd, NEW r \in Rds, Elder(r, o), Standing(r),
         rd[r] = sync.all[r], NEW prev \in Previous(r)
  PROVE  prev \in Nat /\ prev <= clock /\ \A k \in Rds : Elder(r, k) => prev <= ActiveFrom(rd[k])
<1> DEFINE later == {k \in Existing(sync.all) \ {r} : ActiveFrom(sync.all[k]) > ActiveFrom(sync.all[r])}
           equal == {k \in Existing(sync.all) \ {r} : ActiveFrom(sync.all[k]) = ActiveFrom(sync.all[r])}
           next  == {k \in later : \A i \in later : ActiveFrom(sync.all[k]) <= ActiveFrom(sync.all[i])}
<1>1. \A k \in Rds : /\ rd[k] \in Objects /\ sync.all[k] \in Objects /\ Sound(rd[k])
                     /\ Sound(sync.all[k]) /\ Version(sync.all[k], rd[k])
                     /\ Elder(k, o) => sync.all[k].created # 0
                     /\ ActiveFrom(sync.all[k]) \in Nat /\ ActiveFrom(rd[k]) \in Nat /\ ActiveFrom(rd[k]) <= clock
  <2> SUFFICES ASSUME NEW k \in Rds
               PROVE  /\ rd[k] \in Objects /\ sync.all[k] \in Objects /\ Sound(rd[k])
                      /\ Sound(sync.all[k]) /\ Version(sync.all[k], rd[k])
                      /\ Elder(k, o) => sync.all[k].created # 0
                      /\ ActiveFrom(sync.all[k]) \in Nat /\ ActiveFrom(rd[k]) \in Nat /\ ActiveFrom(rd[k]) <= clock
    OBVIOUS
  <2>1. rd[k] \in Objects /\ sync.all[k] \in Objects /\ Sound(rd[k]) /\ rd[k].created <= clock /\ rd[k].from <= clock
    BY DEF TypeOK, InTurn, OnTime
  <2>2. ActiveFrom(rd[k]) <= clock
    BY <2>1 DEF ActiveFrom
  <2> QED BY <2>1, <2>2, TimeType DEF Based
<1>2. sync.all[o].created # 0 /\ Standing(o) /\ sync.own \in Objects /\ Sound(sync.own) /\ Version(sync.own, rd[o])
      /\ sync.own.created = rd[o].created
  BY DEF Based, TypeOK
<1>3. r # o /\ r \in Existing(sync.all) /\ o \in Existing(sync.all)
  <2>1. rd[o].exists /\ rd[r].exists
    BY <1>1, <1>2 DEF Standing, Sound
  <2> QED BY <1>1, <1>2, <2>1, ElderFacts DEF Version, Existing
<1>4. ASSUME NEW k \in Existing(sync.all) \ {r}
      PROVE  /\ k \in Rds /\ sync.all[k].created # 0
             /\ \/ Elder(r, k) /\ ActiveFrom(sync.all[r]) < ActiveFrom(sync.all[k])
                \/ Elder(k, r) /\ ActiveFrom(sync.all[k]) < ActiveFrom(sync.all[r])
  <2>1. k \in Rds /\ sync.all[k].exists
    BY DEF Existing
  <2>2. sync.all[k].created # 0 /\ sync.all[r].created # 0
    BY <1>1, <2>1, SoundFacts
  <2>3. rd[k].created # 0 /\ rd[r].created # 0
    BY <1>1, <2>1, <2>2 DEF Version
  <2>4. CASE Elder(r, k)
    BY <1>1, <2>1, <2>2, <2>4, TimesInTurn
  <2>5. CASE Elder(k, r)
    BY <1>1, <2>1, <2>2, <2>5, TimesInTurn
  <2> QED BY <2>1, <2>2, <2>3, <2>4, <2>5, Compared
<1>5. equal = {} /\ (\A k \in later : k \in Existing(sync.all) \ {r} /\ Elder(r, k))
      /\ \A k \in Existing(sync.all) \ {r} : Elder(r, k) => k \in later
  <2>1. ASSUME NEW k \in Existing(sync.all) \ {r}
        PROVE  /\ ActiveFrom(sync.all[k]) # ActiveFrom(sync.all[r])
               /\ ActiveFrom(sync.all[k]) > ActiveFrom(sync.all[r]) <=> Elder(r, k)
    <3>1. k \in Rds /\ ActiveFrom(sync.all[k]) \in Nat /\ ActiveFrom(sync.all[r]) \in Nat
      BY <1>1, <1>4
    <3>2. Elder(r, k) => ~Elder(k, r)
      BY <3>1, ElderFacts
    <3> QED BY <1>4, <3>1, <3>2
  <2> QED BY <2>1
<1>6. o \in later
  BY <1>3, <1>5
<1>7. prev \in {IF k = sync.rd THEN ActiveFrom(sync.own) ELSE ActiveFrom(sync.all[k]) :
                  k \in equal \cup (IF later = {} THEN {r} ELSE next)}
  BY DEF Previous
<1> HIDE DEF equal
<1>8. PICK n \in next : prev = IF n = o THEN ActiveFrom(sync.own) ELSE ActiveFrom(sync.all[n])
  BY <1>5, <1>6, <1>7
<1>9. /\ n \in Rds /\ n \in Existing(sync.all) /\ Elder(r, n) /\ sync.all[n].created # 0
      /\ \A i \in later : ActiveFrom(sync.all[n]) <= ActiveFrom(sync.all[i])
  BY <1>4, <1>5, <1>8
<1> HIDE DEF later, next
<1>10. prev \in Nat /\ prev <= ActiveFrom(rd[n])
  <2>1. CASE n = o
    <3>1. sync.own.created # 0
      BY <1>2 DEF Standing
    <3> QED BY <1>1, <1>2, <1>8, <2>1, <3>1, VersionTime, TimeType
  <2>2. CASE n # o
    BY <1>1, <1>8, <1>9, <2>2, VersionTime
  <2> QED BY <2>1, <2>2
<1>11. clock \in Nat
  BY DEF TypeOK
<1>12. ASSUME NEW k \in Rds, Elder(r, k) PROVE prev <= ActiveFrom(rd[k])
  <2>1. CASE k = n
    BY <1>10, <2>1
  <2>2. CASE Elder(n, k)
    <3>1. rd[k].created # 0
      BY <1>9, <1>12, ElderFacts
    <3>2. ActiveFrom(rd[n]) < ActiveFrom(rd[k])
      <4>1. rd[n].created # 0 /\ Version(rd[n], rd[n]) /\ Version(rd[k], rd[k])
        BY <1>1, <1>9, <2>2, ElderFacts, VersionSame
      <4> QED BY <1>1, <1>9, <2>2, <3>1, <4>1, TimesInTurn
    <3> QED BY <1>1, <1>9, <1>10, <3>2, Transitive, Order
  <2>3. CASE Elder(k, n)
    <3>1. Elder(k, o)
      BY <1>3, <1>9, <2>3, ElderFacts, Listed DEF Existing
    <3>2. rd[k].exists
      BY <1>12 DEF InTurn, Passed
    <3>3. sync.all[k].exists /\ sync.all[k].created # 0
      BY <1>1, <3>1, <3>2 DEF Version
    <3>4. k \in later
      BY <1>5, <1>12, <3>3, ElderFacts DEF Existing
    <3>5. ActiveFrom(sync.all[n]) <= ActiveFrom(sync.all[k])
      BY <1>9, <3>4
    <3>6. ActiveFrom(sync.all[k]) < ActiveFrom(sync.all[n])
      BY <1>1, <1>9, <2>3, <3>3, TimesInTurn
    <3> QED BY <1>1, <1>9, <3>5, <3>6, Order
  <2> QED BY <1>9, <1>12, <2>1, <2>2, <2>3, Compared, ElderFacts
<1> QED BY <1>1, <1>9, <1>10, <1>11, <1>12, Transitive

LEMMA SetInactiveSerial ==
  ASSUME TypeOK, TypeOK', PeriodInv, InTurn, Cached, Syncing, SetInactive PROVE InTurn' /\ Cached' /\ Syncing'
<1>1. sync.pc = "inactivate" /\ Based /\ Phased /\ sync \in SyncRecords
  BY DEF SetInactive, Syncing, TypeOK, SyncRecords
<1>2. UNCHANGED <<clock, seen, runner, activated>>
  BY DEF SetInactive
<1>3. PICK o \in Rds : o = sync.rd
  BY <1>1 DEF TypeOK
<1>4. PICK r \in sync.todo : \E p \in Previous(r) :
        Update(r, sync.all[r],
               [sync.all[r] EXCEPT !.cond = "Inactive", !.to = p, !.from = ActiveFrom(sync.all[r])],
               [sync EXCEPT !.todo = @ \ {r}, !.pc = IF sync.todo = {r} THEN "deploy" ELSE @])
  BY DEF SetInactive
<1>5. PICK prev \in Previous(r) :
        Update(r, sync.all[r],
               [sync.all[r] EXCEPT !.cond = "Inactive", !.to = prev, !.from = ActiveFrom(sync.all[r])],
               [sync EXCEPT !.todo = @ \ {r}, !.pc = IF sync.todo = {r} THEN "deploy" ELSE @])
  BY <1>4
<1> DEFINE new == [sync.all[r] EXCEPT !.cond = "Inactive", !.to = prev, !.from = ActiveFrom(sync.all[r])]
           then == [sync EXCEPT !.todo = @ \ {r}, !.pc = IF sync.todo = {r} THEN "deploy" ELSE @]
<1>6. Update(r, sync.all[r], new, then)
  BY <1>5
<1>7. r \in Rds /\ Elder(r, o) /\ sync.all[r] \in Objects /\ sync.all[r].cond # "Inactive"
      /\ sync.all[r].created # 0 /\ Sound(sync.all[r])
  <2>1. r \in Rds /\ sync.all[r] \in Objects
    BY <1>1 DEF SyncRecords
  <2>2. Elder(r, o)
    BY <1>1, <1>3, <2>1 DEF Phased
  <2>3. sync.all[r].created # 0 /\ Sound(sync.all[r])
    BY <1>1, <1>3, <2>1, <2>2 DEF Based
  <2>4. sync.all[r].cond # "Inactive"
    BY <1>1 DEF PeriodInv, SyncKnows
  <2> QED BY <2>1, <2>2, <2>3, <2>4
<1>8. /\ then.rd = o /\ then.all = sync.all /\ then.own = sync.own /\ then.todo = sync.todo \ {r}
      /\ then.pc = IF sync.todo = {r} THEN "deploy" ELSE "inactivate"
  BY <1>1, <1>3 DEF SyncRecords
<1>9. prev \in Nat
  BY <1>7, PreviousType
<1>10. /\ new.cond = "Inactive" /\ new.to = prev /\ new.from = ActiveFrom(sync.all[r])
       /\ new.created = sync.all[r].created /\ new.exists = sync.all[r].exists /\ new.spec = sync.all[r].spec
       /\ new \in Objects
  <2>1. ActiveFrom(sync.all[r]) \in Nat
    BY <1>7, TimeType
  <2> QED BY <1>7, <1>9, <2>1 DEF Objects, Conditions
<1> HIDE DEF new, then
<1>11. CASE rd[r] = sync.all[r] /\ Store(r, new) /\ sync' = then /\ UNCHANGED pending
  <2>1. Standing(r) /\ rd[r].created \in Nat /\ rd[r].from \in Nat /\ rd[r].spec \in Nat /\ rd[r].from <= clock
        /\ rd[r].cond # "" /\ rd[r].exists /\ clock \in Nat /\ rd[r] \in Objects
    <3>1. Standing(r)
      BY <1>7, <1>11 DEF Standing
    <3>2. rd[r].exists /\ rd[r].from <= clock /\ rd[r].cond # ""
      BY <1>7, <3>1 DEF InTurn, OnTime, Sound, Passed, Standing
    <3> QED BY <3>1, <3>2, <1>7, RdType, Fields DEF TypeOK
  <2>2. prev <= clock /\ \A k \in Rds : Elder(r, k) => prev <= ActiveFrom(rd[k])
    BY <1>1, <1>3, <1>7, <1>11, <2>1, PreviousBound
  <2>3. new.from = rd[r].from /\ rd[r].from # 0 /\ rd[r].created <= rd[r].from /\ ActiveFrom(rd[r]) = rd[r].from
        /\ ActiveFrom(new) = rd[r].from
    <3>1. rd[r].from # 0 /\ ActiveFrom(rd[r]) = rd[r].from /\ rd[r].created <= ActiveFrom(rd[r])
      BY <1>7, <1>11, <2>1, SoundFacts
    <3> QED BY <1>10, <1>11, <3>1 DEF ActiveFrom
  <2>4. Allowed(r, new)
    <3>1. Sound(new)
      <4>1. 0 < new.created /\ new.created <= new.from /\ new.created # 0
        BY <1>7, <1>10, <1>11, <2>1, <2>3, Numbers
      <4> QED BY <1>10, <4>1 DEF Sound
    <3>2. rd[r].created # 0 /\ new.created = rd[r].created /\ new.from <= clock /\ new.to <= clock
          /\ new.spec = rd[r].spec /\ new.exists /\ ~Latest(r)
      BY <1>7, <1>10, <1>11, <2>1, <2>2, <2>3 DEF Latest
    <3>3. ActiveFrom(rd[r]) <= ActiveFrom(new) /\ rd[r].spec <= new.spec
      BY <2>1, <2>3, <3>2, Numbers
    <3>4. rd[r].cond # "Inactive"
      BY <2>1 DEF Standing
    <3> QED BY <1>10, <2>1, <2>2, <2>3, <3>1, <3>2, <3>3, <3>4 DEF Allowed
  <2>5. r \in activated' /\ seen[r].created # 0 /\ activated \subseteq activated'
    <3>1. r \in activated
      BY <1>7, <2>3 DEF InTurn, Reported
    <3> QED BY <1>2, <1>7, <2>1, <3>1 DEF Cached, Met
  <2>6. /\ InTurn' /\ Cached'
        /\ \A a, b \in Rds : Elder(a, b)' <=> Elder(a, b)
        /\ \A k \in Rds : Version(rd[k], rd'[k])
        /\ rd'[r] = new /\ \A k \in Rds \ {r} : rd'[k] = rd[k]
    BY <1>2, <1>7, <1>10, <1>11, <2>4, <2>5, Advance
  <2>7. r # o /\ rd'[o] = rd[o]
    BY <1>7, <2>6, ElderFacts
  <2>8. Based'
    <3>1. /\ Standing(o) /\ Sound(sync.own) /\ Version(sync.own, rd[o]) /\ sync.own.created = rd[o].created
      BY <1>1, <1>3 DEF Based
    <3>2. sync'.rd = sync.rd /\ sync'.all = sync.all /\ sync'.own = sync.own /\ rd'[o].cond # "Inactive"
      BY <1>3, <1>8, <1>11, <2>7, <3>1 DEF Standing
    <3>3. \A k \in Rds : rd[k].cond = "" => rd'[k].cond = ""
      BY <2>1, <2>6
    <3>4. \A k \in Rds : seen[k].created # 0 => seen'[k].created # 0
      BY <1>2
    <3> QED BY <1>1, <1>3, <2>6, <2>7, <3>1, <3>2, <3>3, <3>4, BasedKept
  <2>9. Phased'
    <3>1. \A k \in Rds : Standing(k)' => Standing(k) /\ k # r
      BY <1>7, <1>10, <2>6 DEF Standing
    <3>2. \A k \in Rds : /\ Standing(k) /\ Elder(k, o) => k \in sync.todo
                         /\ k \in sync.todo => Elder(k, o)
      BY <1>1, <1>3 DEF Phased
    <3>3. \A k \in Rds : /\ Standing(k)' /\ Elder(k, o)' => k \in sync'.todo
                         /\ k \in sync'.todo => Elder(k, o)'
      BY <1>8, <1>11, <2>6, <3>1, <3>2
    <3>4. sync'.rd = o /\ sync'.own.cond = "Active"
      BY <1>1, <1>3, <1>8, <1>11 DEF Phased
    <3>5. CASE sync.todo = {r}
      <4>1. sync'.pc = "deploy" /\ sync'.todo = {}
        BY <1>8, <1>11, <3>5
      <4> QED BY <3>3, <3>4, <4>1 DEF Phased
    <3>6. CASE sync.todo # {r}
      <4>1. sync'.pc = "inactivate"
        BY <1>8, <1>11, <3>6
      <4> QED BY <3>3, <3>4, <4>1 DEF Phased, Deploying
    <3> QED BY <3>5, <3>6
  <2> QED BY <2>6, <2>8, <2>9 DEF Syncing
<1>12. CASE (Retry \/ Requeue) /\ UNCHANGED <<rd, stream>>
  BY <1>1, <1>2, <1>12, NotTaken
<1> QED BY <1>6, <1>11, <1>12 DEF Update

(* The RadixDeployments and the cache are as they were. *)
LEMMA SyncGoesOn ==
  ASSUME TypeOK, TypeOK', InTurn, Cached, Syncing, sync.pc # "idle",
         UNCHANGED <<clock, rd, seen, stream, pending, runner, activated>>,
         sync'.rd = sync.rd, sync'.all = sync.all, sync'.own = sync.own, Phased'
  PROVE  InTurn' /\ Cached' /\ Syncing'
<1>1. PICK o \in Rds : o = sync.rd
  BY DEF TypeOK
<1>2. Based
  BY DEF Syncing
<1>3. InTurn'
  <2>1. clock \in Nat /\ clock <= clock'
    BY Numbers DEF TypeOK
  <2> QED BY <2>1, TurnSame
<1>4. Cached'
  BY CachedSame
<1>5. Based'
  <2>1. \A a, b \in Rds : Elder(a, b)' <=> Elder(a, b)
    BY DEF Elder
  <2>2. \A k \in Rds : Standing(k)' <=> Standing(k)
    BY DEF Standing
  <2> QED BY <1>1, <1>2, <2>1, <2>2 DEF Based
<1> QED BY <1>3, <1>4, <1>5 DEF Syncing

LEMMA SyncDeploymentSerial ==
  ASSUME TypeOK, TypeOK', InTurn, Cached, Syncing, SyncDeployment \/ SyncDeploymentFails
  PROVE  InTurn' /\ Cached' /\ Syncing'
<1>1. /\ sync.pc = "deploy" /\ UNCHANGED <<clock, rd, seen, stream, pending, runner, activated>>
      /\ \/ sync' = [sync EXCEPT !.pc = "status"]
         \/ sync' = [sync EXCEPT !.pc = "status", !.failed = TRUE]
  BY DEF SyncDeployment, SyncDeploymentFails
<1>2. sync'.pc = "status" /\ sync'.rd = sync.rd /\ sync'.all = sync.all /\ sync'.own = sync.own
  BY <1>1 DEF TypeOK
<1>3. Phased'
  <2>1. Phased
    BY <1>1 DEF Syncing
  <2>2. (\A a, b \in Rds : Elder(a, b)' <=> Elder(a, b)) /\ \A k \in Rds : Standing(k)' <=> Standing(k)
    BY <1>1 DEF Elder, Standing
  <2> QED BY <1>1, <1>2, <2>1, <2>2 DEF Phased, Deploying
<1> QED BY <1>1, <1>2, <1>3, SyncGoesOn

LEMMA SyncEnds ==
  ASSUME TypeOK, InTurn, Cached, sync' = Idle,
         UNCHANGED <<clock, rd, seen, stream, pending, runner, activated>>
  PROVE  InTurn' /\ Cached' /\ Syncing'
<1>1. clock \in Nat /\ clock <= clock'
  BY Numbers DEF TypeOK
<1>2. InTurn'
  BY <1>1, TurnSame
<1> QED BY <1>2, CachedSame, IdleSyncing

LEMMA SyncStatusSerial ==
  ASSUME TypeOK, TypeOK', InTurn, Cached, Syncing, SyncStatus PROVE InTurn' /\ Cached' /\ Syncing'
<1>1. sync.pc = "status" /\ Based /\ Phased /\ sync \in SyncRecords
  BY DEF SyncStatus, Syncing, TypeOK, SyncRecords
<1>2. UNCHANGED <<clock, seen, runner, activated>>
  BY DEF SyncStatus
<1>3. PICK o \in Rds : o = sync.rd
  BY <1>1 DEF TypeOK
<1> DEFINE own == [sync.own EXCEPT !.reconciled = TRUE]
           then == [sync EXCEPT !.pc = "history", !.own = own]
<1>4. /\ Standing(o) /\ seen[o].created # 0 /\ Sound(sync.own) /\ sync.own.created = rd[o].created
      /\ sync.own.cond = "Active" /\ sync.own \in Objects
  BY <1>1, <1>3 DEF Based, Phased, SyncRecords
<1>5. /\ own.exists = sync.own.exists /\ own.created = sync.own.created /\ own.from = sync.own.from
      /\ own.to = sync.own.to /\ own.cond = sync.own.cond /\ own.spec = sync.own.spec /\ own \in Objects
  BY <1>4 DEF Objects
<1>6. then.rd = o /\ then.pc = "history" /\ then.all = sync.all /\ then.own = own
  BY <1>1, <1>3 DEF SyncRecords
<1>7. IF sync.failed
        THEN /\ IF rd[o] = sync.own THEN Store(o, own) ELSE UNCHANGED <<rd, stream>>
             /\ IF rd[o].exists /\ rd[o] # sync.own THEN Retry ELSE Requeue
        ELSE Update(o, sync.own, own, then)
  BY <1>3 DEF SyncStatus
<1> HIDE DEF own, then
<1>8. ASSUME rd[o] = sync.own, Store(o, own), pending' \subseteq pending \cup {o}
      PROVE  /\ InTurn' /\ Cached'
             /\ \A a, b \in Rds : Elder(a, b)' <=> Elder(a, b)
             /\ \A k \in Rds : Version(rd[k], rd'[k])
             /\ rd'[o] = own /\ \A k \in Rds \ {o} : rd'[k] = rd[k]
  <2>1. rd[o].spec \in Nat /\ ActiveFrom(rd[o]) \in Nat /\ rd[o].exists /\ rd[o].created # 0
        /\ rd[o].from <= clock /\ rd[o].to <= clock
    <3>1. rd[o].exists /\ rd[o].created # 0 /\ rd[o].from <= clock /\ rd[o].to <= clock
      BY <1>4 DEF InTurn, OnTime, Sound, Standing
    <3> QED BY <1>4, <1>8, <3>1, TimeType, Fields
  <2>2. Sound(own) /\ ActiveFrom(own) = ActiveFrom(rd[o])
    BY <1>4, <1>5, <1>8, <2>1 DEF Sound, ActiveFrom
  <2>3. rd[o].spec <= own.spec /\ ActiveFrom(rd[o]) <= ActiveFrom(own)
    BY <1>5, <1>8, <2>1, <2>2, Numbers
  <2>4. Allowed(o, own)
    BY <1>4, <1>5, <1>8, <2>1, <2>2, <2>3 DEF Allowed
  <2>5. own.from # 0 => o \in activated'
    BY <1>2, <1>5, <1>8 DEF InTurn, Reported
  <2> QED BY <1>2, <1>4, <1>5, <1>8, <2>4, <2>5, Advance
<1>9. CASE sync.failed
  <2>1. CASE rd[o] = sync.own
    <3>1. Store(o, own) /\ Requeue
      BY <1>7, <1>9, <2>1
    <3>2. pending' \subseteq pending \cup {o} /\ sync' = Idle
      BY <1>3, <3>1 DEF Requeue
    <3> QED BY <1>8, <2>1, <3>1, <3>2, IdleSyncing
  <2>2. CASE rd[o] # sync.own
    <3>1. (Retry \/ Requeue) /\ UNCHANGED <<rd, stream>>
      BY <1>7, <1>9, <2>2
    <3> QED BY <1>1, <1>2, <3>1, NotTaken
  <2> QED BY <2>1, <2>2
<1>10. CASE ~sync.failed
  <2>1. CASE rd[o] = sync.own /\ Store(o, own) /\ sync' = then /\ UNCHANGED pending
    <3>1. /\ InTurn' /\ Cached'
          /\ \A a, b \in Rds : Elder(a, b)' <=> Elder(a, b)
          /\ \A k \in Rds : Version(rd[k], rd'[k])
          /\ rd'[o] = own /\ \A k \in Rds \ {o} : rd'[k] = rd[k]
      BY <1>8, <2>1
    <3>2. Based'
      <4>1. Sound(own) /\ own.created = rd[o].created /\ Version(own, rd'[o]) /\ own.cond = "Active"
        BY <1>4, <1>5, <2>1, <3>1, VersionSame DEF InTurn, OnTime
      <4>2. sync'.rd = sync.rd /\ sync'.all = sync.all /\ sync'.own = own /\ rd'[o].cond # "Inactive"
        BY <1>3, <1>6, <2>1, <3>1, <4>1
      <4>3. \A k \in Rds \ {o} : rd[k].cond = "" => rd'[k].cond = ""
        BY <3>1
      <4>4. \A k \in Rds : seen[k].created # 0 => seen'[k].created # 0
        BY <1>2
      <4> QED BY <1>1, <1>3, <3>1, <4>1, <4>2, <4>3, <4>4, BasedKept
    <3>3. Phased'
      <4>1. \A k \in Rds : Standing(k)' => Standing(k)
        BY <1>4, <3>1 DEF Standing
      <4>2. \A k \in Rds : Elder(k, o)' => ~Standing(k)'
        BY <1>1, <1>3, <3>1, <4>1 DEF Phased, Deploying
      <4>3. sync'.rd = o /\ sync'.pc = "history" /\ sync'.own.cond = "Active"
        BY <1>4, <1>5, <1>6, <2>1
      <4> QED BY <4>2, <4>3 DEF Phased
    <3> QED BY <3>1, <3>2, <3>3 DEF Syncing
  <2>2. CASE (Retry \/ Requeue) /\ UNCHANGED <<rd, stream>>
    BY <1>1, <1>2, <2>2, NotTaken
  <2> QED BY <1>7, <1>10, <2>1, <2>2 DEF Update
<1> QED BY <1>9, <1>10

(* What the history limit picks is inactive: the one without a condition that the
   cache knows is the last in its order, and the limit keeps at least one. *)
LEMMA VictimsInactive ==
  ASSUME TypeOK, InTurn, Cached, HistoryLimit # 0, NEW old \in Victims(seen), NEW r \in old,
         seen[r].cond # "Active"
  PROVE  rd[r].cond = "Inactive"
<1>1. \A k \in Rds : seen[k] \in Objects /\ Sound(seen[k]) /\ Version(seen[k], rd[k]) /\ ActiveFrom(seen[k]) \in Nat
  BY TimeType DEF TypeOK, Cached, Versions
<1>2. /\ old \subseteq Existing(seen) /\ Cardinality(old) = Cardinality(Existing(seen)) - HistoryLimit
      /\ \A k \in Existing(seen) \ old : ActiveFrom(seen[r]) <= ActiveFrom(seen[k])
  BY DEF Victims
<1>3. \A k \in Existing(seen) : k \in Rds /\ seen[k].created # 0
  BY <1>1, SoundFacts DEF Existing
<1>4. r \in Rds /\ seen[r].created # 0
  BY <1>2, <1>3
<1>5. CASE seen[r].cond = "Inactive"
  BY <1>1, <1>4, <1>5 DEF Version
<1>6. CASE seen[r].cond = ""
  <2>1. ASSUME NEW k \in Existing(seen) \ {r} PROVE ActiveFrom(seen[k]) < ActiveFrom(seen[r])
    <3>1. k \in Rds /\ seen[k].created # 0
      BY <1>3
    <3>2. rd[k].created # 0 /\ rd[r].created # 0
      BY <1>1, <1>4, <3>1 DEF Version
    <3>3. ~Elder(r, k)
      BY <1>4, <1>6, <3>1 DEF Cached, InOrder, Aware
    <3> QED BY <1>1, <1>4, <3>1, <3>2, <3>3, Compared, TimesInTurn
  <2>2. ASSUME NEW k \in Existing(seen), k \notin old PROVE FALSE
    <3>1. k \in Existing(seen) \ {r} /\ k \in Rds
      BY <1>3, <2>2
    <3> QED BY <1>1, <1>2, <1>4, <2>1, <2>2, <3>1, Order
  <2>3. old = Existing(seen)
    BY <1>2, <2>2
  <2>4. Cardinality(Existing(seen)) \in Nat
    <3>1. IsFiniteSet(Rds) /\ Existing(seen) \subseteq Rds
      BY ConstantsAssumption, <1>3, Zenon
    <3> QED BY <3>1, FS_Subset, FS_CardinalityType
  <2>5. HistoryLimit \in Nat
    BY ConstantsAssumption, Zenon
  <2> QED BY <1>2, <2>3, <2>4, <2>5
<1> QED BY <1>1, <1>4, <1>5, <1>6, Fields

LEMMA MaintainSerial ==
  ASSUME TypeOK, TypeOK', InTurn, Cached, Syncing, MaintainHistoryLimit PROVE InTurn' /\ Cached' /\ Syncing'
<1>1. sync.pc = "history" /\ Phased /\ UNCHANGED <<clock, rd, seen, stream, pending, runner, activated>>
  BY DEF MaintainHistoryLimit, Syncing
<1>2. CASE sync' = Idle
  BY <1>1, <1>2, SyncEnds
<1>3. ASSUME NEW old \in Victims(seen), HistoryLimit # 0,
             sync' = [sync EXCEPT !.pc = "prune",
                                  !.todo = {r \in old \ Referenced : seen[r].cond # "Active"}]
      PROVE  InTurn' /\ Cached' /\ Syncing'
  <2>1. /\ sync'.pc = "prune" /\ sync'.rd = sync.rd /\ sync'.all = sync.all /\ sync'.own = sync.own
        /\ sync'.todo = {r \in old \ Referenced : seen[r].cond # "Active"}
    BY <1>3 DEF TypeOK
  <2>2. \A k \in sync'.todo : rd[k].cond = "Inactive" /\ k \notin Referenced
    BY <1>3, <2>1, VictimsInactive
  <2>3. Phased'
    <3>1. (\A a, b \in Rds : Elder(a, b)' <=> Elder(a, b)) /\ \A k \in Rds : Standing(k)' <=> Standing(k)
      BY <1>1 DEF Elder, Standing
    <3> QED BY <1>1, <2>1, <2>2, <3>1 DEF Phased, Deploying
  <2> QED BY <1>1, <2>1, <2>3, SyncGoesOn
<1> QED BY <1>2, <1>3 DEF MaintainHistoryLimit

LEMMA PruneSerial ==
  ASSUME TypeOK, TypeOK', InTurn, Cached, Syncing, Prune PROVE InTurn' /\ Cached' /\ Syncing'
<1>1. sync.pc = "prune" /\ Based /\ Phased /\ sync \in SyncRecords
      /\ UNCHANGED <<clock, seen, pending, runner, activated>>
  BY DEF Prune, Syncing, TypeOK, SyncRecords
<1>2. PICK o \in Rds : o = sync.rd
  BY <1>1 DEF TypeOK
<1>3. CASE sync' = Idle /\ UNCHANGED <<rd, stream>>
  BY <1>1, <1>3, SyncEnds
<1>4. ASSUME NEW r \in sync.todo, sync' = [sync EXCEPT !.todo = @ \ {r}], Delete(r) \/ UNCHANGED <<rd, stream>>
      PROVE  InTurn' /\ Cached' /\ Syncing'
  <2>1. /\ sync'.pc = "prune" /\ sync'.rd = sync.rd /\ sync'.all = sync.all /\ sync'.own = sync.own
        /\ sync'.todo = sync.todo \ {r} /\ r \in Rds
    BY <1>1, <1>4 DEF SyncRecords
  <2>2. rd[r].cond = "Inactive" /\ rd[r] \in Objects /\ Sound(rd[r]) /\ Standing(o)
        /\ rd[r].from <= clock /\ rd[r].to <= clock
    BY <1>1, <1>2, <2>1 DEF Phased, InTurn, OnTime, TypeOK, Based
  <2>3. ASSUME \A a, b \in Rds : Elder(a, b)' <=> Elder(a, b), \A k \in Rds : Standing(k)' => Standing(k),
               \A k \in Rds : rd[k].cond = "Inactive" => rd'[k].cond = "Inactive"
        PROVE  Phased'
    <3>1. \A k \in Rds : Elder(k, o)' => ~Standing(k)'
      BY <1>1, <1>2, <2>3 DEF Phased, Deploying
    <3>2. \A k \in sync'.todo : rd'[k].cond = "Inactive" /\ k \notin Referenced
      <4>1. \A k \in sync'.todo : k \in Rds /\ k \in sync.todo
        BY <1>1, <2>1 DEF SyncRecords
      <4> QED BY <1>1, <1>2, <2>3, <4>1 DEF Phased
    <3> QED BY <1>1, <1>2, <2>1, <3>1, <3>2 DEF Phased
  <2>4. CASE UNCHANGED <<rd, stream>>
    <3>1. (\A a, b \in Rds : Elder(a, b)' <=> Elder(a, b)) /\ \A k \in Rds : Standing(k)' <=> Standing(k)
      BY <2>4 DEF Elder, Standing
    <3>2. Phased'
      BY <2>3, <2>4, <3>1
    <3> QED BY <1>1, <2>1, <2>4, <3>2, SyncGoesOn
  <2>5. CASE Delete(r)
    <3> DEFINE new == [rd[r] EXCEPT !.exists = FALSE]
    <3>1. /\ ~new.exists /\ new.created = rd[r].created /\ new.from = rd[r].from /\ new.to = rd[r].to
          /\ new.cond = rd[r].cond /\ new.spec = rd[r].spec /\ new \in Objects
      BY <2>2 DEF Objects
    <3>2. Store(r, new)
      BY <2>5 DEF Delete
    <3> HIDE DEF new
    <3>3. rd[r].created # 0 /\ rd[r].spec \in Nat /\ ActiveFrom(rd[r]) \in Nat /\ rd[r].from # 0
      BY <2>2, SoundFacts, TimeType, Fields
    <3>4. ASSUME NEW k \in Rds, Standing(k), Elder(k, r) PROVE FALSE
      <4>1. ~Elder(k, o) /\ ~Elder(o, r)
        BY <1>1, <1>2, <2>1, <2>2, <3>4 DEF Phased, Deploying, Based
      <4>2. k = o \/ Elder(o, k)
        BY <2>2, <3>4, <4>1, Compared DEF Standing
      <4> QED BY <2>1, <3>4, <4>1, <4>2, ElderFacts
    <3>5. Allowed(r, new)
      <4>1. Sound(new) /\ ActiveFrom(new) = ActiveFrom(rd[r])
        BY <2>2, <3>1, <3>3 DEF Sound, ActiveFrom
      <4>2. rd[r].spec <= new.spec /\ ActiveFrom(rd[r]) <= ActiveFrom(new)
        BY <3>1, <3>3, <4>1, Numbers
      <4> QED BY <2>1, <2>2, <3>1, <3>3, <3>4, <4>1, <4>2 DEF Allowed
    <3>6. r \in activated' /\ seen[r].created # 0
      BY <1>1, <2>1, <2>2, <3>3 DEF InTurn, Reported, Cached, Met
    <3>7. /\ InTurn' /\ Cached'
          /\ \A a, b \in Rds : Elder(a, b)' <=> Elder(a, b)
          /\ \A k \in Rds : Version(rd[k], rd'[k])
          /\ rd'[r] = new /\ \A k \in Rds \ {r} : rd'[k] = rd[k]
      BY <1>1, <2>1, <3>1, <3>2, <3>5, <3>6, Advance
    <3>8. r # o /\ rd'[o] = rd[o]
      BY <2>2, <3>7 DEF Standing
    <3>9. Based'
      <4>1. Sound(sync.own) /\ Version(sync.own, rd'[o]) /\ sync.own.created = rd[o].created
        BY <1>1, <1>2, <3>8 DEF Based
      <4>2. rd'[o].cond # "Inactive" /\ \A k \in Rds : rd[k].cond = "" => rd'[k].cond = ""
        BY <2>2, <3>7, <3>8 DEF Standing
      <4>3. \A k \in Rds : seen[k].created # 0 => seen'[k].created # 0
        BY <1>1
      <4> QED BY <1>1, <1>2, <2>1, <3>7, <4>1, <4>2, <4>3, BasedKept
    <3>10. Phased'
      <4>1. \A k \in Rds : Standing(k)' => Standing(k)
        BY <2>2, <3>1, <3>7 DEF Standing
      <4>2. \A k \in Rds : rd[k].cond = "Inactive" => rd'[k].cond = "Inactive"
        BY <2>2, <3>1, <3>7
      <4> QED BY <2>3, <3>7, <4>1, <4>2
    <3> QED BY <3>7, <3>9, <3>10 DEF Syncing
  <2> QED BY <1>4, <2>4, <2>5
<1> QED BY <1>3, <1>4 DEF Prune

LEMMA SyncFailsSerial ==
  ASSUME TypeOK, TypeOK', InTurn, Cached, Syncing, SyncFails PROVE InTurn' /\ Cached' /\ Syncing'
<1>1. sync.pc # "idle" /\ Requeue /\ UNCHANGED <<clock, rd, seen, stream, runner>>
      /\ activated \subseteq activated'
  BY DEF SyncFails
<1> QED BY <1>1, NotTaken

LEMMA CrashSerial ==
  ASSUME TypeOK, TypeOK', InTurn, Cached, Syncing, Crash PROVE InTurn' /\ Cached' /\ Syncing'
<1>1. /\ UNCHANGED <<clock, rd, runner, activated>> /\ sync' = Idle /\ seen' = rd /\ stream' = <<>>
      /\ pending' = {r \in Rds : rd[r].exists /\ rd[r].cond # "Inactive"}
  BY DEF Crash
<1>2. InTurn'
  <2>1. clock \in Nat /\ clock <= clock'
    BY <1>1, Numbers DEF TypeOK
  <2> QED BY <1>1, <2>1, TurnSame
<1>3. \A r \in Rds : r \in pending' => rd[r].created # 0
  BY <1>1, SoundFacts DEF TypeOK, InTurn, OnTime
<1> QED BY <1>1, <1>2, <1>3, CachedAnew, IdleSyncing

LEMMA StartSyncSerial ==
  ASSUME TypeOK, TypeOK', InTurn, Cached, Syncing, NEW r \in Rds, StartSync(r)
  PROVE  InTurn' /\ Cached' /\ Syncing'
<1>1. /\ UNCHANGED <<clock, rd, seen, stream, runner, activated>> /\ Begin(r, 1)
      /\ r \in pending /\ pending' \subseteq pending
  BY DEF StartSync
<1>2. InTurn'
  <2>1. clock \in Nat /\ clock <= clock'
    BY <1>1, Numbers DEF TypeOK
  <2> QED BY <1>1, <2>1, TurnSame
<1>3. seen[r].created # 0
  BY <1>1 DEF Cached, Met
<1> QED BY <1>1, <1>2, <1>3, BegunBased, CachedSame

(* The Sync in progress does nothing. *)
LEMMA SyncUntouched ==
  ASSUME TypeOK, TypeOK', InTurn, Syncing, sync' = sync,
         \A k \in Rds : Version(rd[k], rd'[k]),
         \A a, b \in Rds : Elder(a, b)' => Elder(a, b) \/ (rd[b].created = 0 /\ rd'[b].cond = ""),
         \A k \in Rds : rd[k].cond = "" => rd'[k].cond = "",
         \A k \in Rds : seen[k].created # 0 => seen'[k].created # 0,
         \A k \in Rds : Standing(k) => rd'[k].cond # "Inactive"
  PROVE  Syncing'
<1> SUFFICES ASSUME sync.pc # "idle" PROVE Based' /\ Phased'
  BY DEF Syncing
<1>1. PICK o \in Rds : o = sync.rd
  BY DEF TypeOK
<1>2. Based /\ Phased
  BY DEF Syncing
<1>3. /\ Standing(o) /\ Sound(sync.own) /\ sync.own.created = rd[o].created /\ Version(sync.own, rd[o])
      /\ sync.own \in Objects /\ rd[o] \in Objects /\ rd'[o] \in Objects /\ rd[o].created # 0
  BY <1>1, <1>2 DEF Based, TypeOK, Standing
<1>4. Version(sync.own, rd'[o])
  BY <1>3, VersionTransitive
<1>5. Based'
  BY <1>1, <1>2, <1>3, <1>4, BasedKept
<1>6. \A k \in Rds : Elder(k, o)' <=> Elder(k, o)
  <2>1. \A k \in Rds : Elder(k, o)' => Elder(k, o)
    BY <1>3
  <2>2. \A k \in Rds : rd[k].created # 0 => rd'[k].created = rd[k].created
    BY DEF Version
  <2>3. \A k \in Rds : Elder(k, o) => Elder(k, o)'
    <3>1. \A k \in Rds : Elder(k, o) => rd[k].created # 0
      BY ElderFacts
    <3> QED BY <1>3, <2>2, <3>1 DEF Elder
  <2> QED BY <2>1, <2>3
<1>7. \A k \in Rds : Standing(k)' => Standing(k) \/ rd[k].created = 0
  BY DEF Version, Standing
<1>8. \A k \in Rds : rd[k].cond = "Inactive" => rd'[k].cond = "Inactive"
  BY DEF Version
<1>9. \A k \in Rds : Elder(k, sync.rd)' <=> Elder(k, sync.rd)
  BY <1>1, <1>6 DEF Elder
<1> QED BY <1>2, <1>5, <1>7, <1>8, <1>9, PhasedKept

LEMMA DeliverSerial ==
  ASSUME TypeOK, TypeOK', InTurn, Cached, Syncing, Deliver PROVE InTurn' /\ Cached' /\ Syncing'
<1>1. UNCHANGED <<clock, rd, sync, runner, activated>>
  BY DEF Deliver
<1>2. InTurn'
  <2>1. clock \in Nat /\ clock <= clock'
    BY <1>1, Numbers DEF TypeOK
  <2> QED BY <1>1, <2>1, TurnSame
<1>3. Cached'
  BY CachedDeliver
<1>4. \A k \in Rds : seen[k].created # 0 => seen'[k].created # 0
  <2>1. stream \in Seq(Changes) /\ stream # <<>> /\ seen \in [Rds -> Objects]
    BY DEF TypeOK, Changes, Deliver
  <2>2. 1 \in 1..Len(stream) /\ Head(stream) = stream[1]
    BY <2>1, EmptySeq, LenProperties
  <2>3. seen' = [seen EXCEPT ![stream[1].rd] = stream[1].object]
    BY <2>2 DEF Deliver
  <2>4. stream[1].object.created # 0
    BY <2>2 DEF Cached, Versions
  <2> QED BY <2>1, <2>3, <2>4
<1>5. Syncing'
  <2>1. \A k \in Rds : Version(rd[k], rd'[k])
    BY <1>1, VersionSame DEF TypeOK
  <2>2. \A a, b \in Rds : Elder(a, b)' => Elder(a, b)
    BY <1>1 DEF Elder
  <2>3. \A k \in Rds : Standing(k) => rd'[k].cond # "Inactive"
    BY <1>1 DEF Standing
  <2> QED BY <1>1, <1>4, <2>1, <2>2, <2>3, SyncUntouched
<1> QED BY <1>2, <1>3, <1>5

LEMMA EditRDSerial ==
  ASSUME TypeOK, TypeOK', InTurn, Cached, Syncing, NEW r \in Rds, EditRD(r)
  PROVE  InTurn' /\ Cached' /\ Syncing'
<1> DEFINE new == [rd[r] EXCEPT !.spec = @ + 1]
<1>1. /\ rd[r].exists /\ rd[r].cond = "Active" /\ Store(r, new)
      /\ UNCHANGED <<clock, seen, pending, sync, runner, activated>>
  BY DEF EditRD
<1>2. rd[r] \in Objects /\ Sound(rd[r]) /\ rd[r].spec \in Nat /\ rd[r].from <= clock /\ rd[r].to <= clock
      /\ ActiveFrom(rd[r]) \in Nat
  BY RdType, Fields, TimeType DEF InTurn, OnTime
<1>3. rd[r].created # 0 /\ rd[r].from # 0
  BY <1>1, <1>2, SoundFacts
<1>4. /\ new.exists /\ new.created = rd[r].created /\ new.from = rd[r].from /\ new.to = rd[r].to
      /\ new.cond = rd[r].cond /\ new.spec = rd[r].spec + 1
  BY <1>1, <1>2 DEF Objects
<1>5. new \in Objects
  <2>1. rd[r].spec + 1 \in Nat
    BY <1>2
  <2> QED BY <1>2, <2>1 DEF Objects
<1>6. rd[r].spec <= new.spec
  BY <1>2, <1>4
<1> HIDE DEF new
<1>7. Allowed(r, new)
  <2>1. Sound(new) /\ ActiveFrom(new) = ActiveFrom(rd[r])
    BY <1>1, <1>2, <1>3, <1>4 DEF Sound, ActiveFrom
  <2>2. ActiveFrom(rd[r]) <= ActiveFrom(new)
    BY <1>2, <2>1, Numbers
  <2> QED BY <1>1, <1>2, <1>3, <1>4, <1>6, <2>1, <2>2 DEF Allowed
<1>8. r \in activated' /\ seen[r].created # 0
  BY <1>1, <1>3 DEF InTurn, Reported, Cached, Met
<1>9. /\ InTurn' /\ Cached'
      /\ \A a, b \in Rds : Elder(a, b)' <=> Elder(a, b)
      /\ \A k \in Rds : Version(rd[k], rd'[k])
      /\ rd'[r] = new /\ \A k \in Rds \ {r} : rd'[k] = rd[k]
  BY <1>1, <1>5, <1>7, <1>8, Advance
<1>10. Syncing'
  <2>1. \A k \in Rds : rd'[k].cond = rd[k].cond
    BY <1>4, <1>9
  <2> QED BY <1>1, <1>9, <2>1, SyncUntouched DEF Standing
<1> QED BY <1>9, <1>10

LEMMA CreateRDSerial ==
  ASSUME OneByOne, TypeOK, TypeOK', InTurn, Cached, Syncing, NEW r \in Rds, CreateRD(r)
  PROVE  InTurn' /\ Cached' /\ Syncing'
<1> DEFINE new == [Absent EXCEPT !.exists = TRUE, !.created = clock]
<1>1. Store(r, new) /\ UNCHANGED <<clock, seen, pending, sync, activated>> /\ rd[r] = Absent
  BY DEF CreateRD
<1>2. clock \in Nat /\ 0 < clock
  BY DEF TypeOK, InTurn, OnTime
<1>3. new.exists /\ new.created = clock /\ new.from = 0 /\ new.cond = "" /\ new.spec = 0 /\ new \in Objects
  BY <1>2 DEF Absent, Objects, Conditions
<1> HIDE DEF new
<1>4. InTurn' /\ \A a, b \in Rds : Elder(a, b)' => Elder(a, b) \/ (b = r /\ rd[r].created = 0)
  BY TurnCreate
<1>5. Sound(new) /\ new.created # 0
  BY <1>2, <1>3, Numbers, Order DEF Sound
<1>6. Version(rd[r], new)
  <2>1. 0 <= new.spec
    BY <1>3, Numbers
  <2> QED BY <1>1, <1>3, <2>1, AbsentCreated DEF Version
<1>7. Cached'
  BY <1>1, <1>3, <1>4, <1>5, <1>6, CachedStore
<1>8. rd'[r] = new /\ \A k \in Rds \ {r} : rd'[k] = rd[k]
  BY <1>1 DEF TypeOK, Store
<1>9. Syncing'
  <2>1. \A k \in Rds : Version(rd[k], rd'[k])
    <3> TAKE k \in Rds
    <3>1. rd[k] \in Objects
      BY DEF TypeOK
    <3> QED BY <1>6, <1>8, <3>1, VersionSame
  <2>2. \A k \in Rds : (rd[k].cond = "" => rd'[k].cond = "") /\ (Standing(k) => rd'[k].cond # "Inactive")
    BY <1>3, <1>8 DEF Standing
  <2>3. \A a, b \in Rds : Elder(a, b)' => Elder(a, b) \/ (rd[b].created = 0 /\ rd'[b].cond = "")
    BY <1>3, <1>4, <1>8
  <2> QED BY <1>1, <2>1, <2>2, <2>3, SyncUntouched
<1> QED BY <1>4, <1>7, <1>9

(* Nothing happens to the RadixDeployments, nor to the Sync. *)
LEMMA OtherSerial ==
  ASSUME TypeOK, TypeOK', InTurn, Cached, Syncing, UNCHANGED <<rd, seen, stream, sync, activated>>,
         clock' \in Nat, clock <= clock',
         \/ runner' = runner
         \/ \E r \in Rds : rd[r].from # 0 /\ runner' = [runner EXCEPT ![r] = "active"],
         \A k \in Rds : k \in pending' => k \in pending \/ seen[k].created # 0
  PROVE  InTurn' /\ Cached' /\ Syncing'
<1>1. InTurn'
  BY TurnSame
<1>2. Cached'
  BY CachedSame
<1>3. Syncing'
  <2>1. \A k \in Rds : Version(rd[k], rd'[k])
    BY VersionSame DEF TypeOK
  <2>2. \A a, b \in Rds : Elder(a, b)' => Elder(a, b)
    BY DEF Elder
  <2>3. \A k \in Rds : Standing(k) => rd'[k].cond # "Inactive"
    BY DEF Standing
  <2> QED BY <2>1, <2>2, <2>3, SyncUntouched
<1> QED BY <1>1, <1>2, <1>3

(* No pipeline gives up, and the registration does not change. *)
LEMMA NobodyGivesUp ==
  ASSUME TypeOK, InTurn, Patient PROVE ~RegistrationChanges /\ \A r \in Rds : ~RunnerGivesUp(r)
<1>1. ~Spend("timeout") /\ ~Spend("registration")
  BY Numbers DEF Patient, Spend
<1>2. ASSUME NEW r \in Rds, RunnerGivesUp(r) PROVE FALSE
  <2>1. Waiting(r) /\ ~rd[r].exists
    BY <1>1, <1>2 DEF RunnerGivesUp
  <2>2. Standing(r)
    BY <2>1 DEF InTurn, Turns, Latest
  <2> QED BY <2>1, <2>2 DEF Standing, InTurn, OnTime, Sound
<1> QED BY <1>1, <1>2 DEF RegistrationChanges

LEMMA PatientKept == ASSUME TypeOK, Patient, left' = left \/ \E d \in Disturbances : Spend(d) PROVE Patient'
<1>1. ASSUME NEW d \in Disturbances, Spend(d) PROVE Patient'
  <2>1. d # "timeout" /\ d # "registration"
    BY <1>1, Numbers DEF Patient, Spend
  <2> QED BY <1>1, <2>1 DEF Patient, Spend, TypeOK, Disturbances
<1> QED BY <1>1 DEF Patient

LEMMA PlacedKept ==
  ASSUME Placed, Syncing, \A k \in Rds : seen[k].created # 0 => seen'[k].created # 0,
         \A c \in Components : \/ deployed'[c].rd = deployed[c].rd
                               \/ deployed'[c].rd = NoRd
                               \/ deployed'[c].rd = sync.rd /\ sync.pc # "idle"
  PROVE  Placed'
<1> SUFFICES ASSUME NEW c \in Components, NEW r \in Rds, deployed'[c].rd = r PROVE seen'[r].created # 0
  BY DEF Placed
<1>1. NoRd \notin Rds
  BY ConstantsAssumption, Zenon
<1>2. CASE deployed[c].rd = r
  BY <1>2 DEF Placed
<1>3. CASE r = sync.rd /\ sync.pc # "idle"
  BY <1>3 DEF Syncing, Based
<1> QED BY <1>1, <1>2, <1>3

LEMMA PlacedStep ==
  ASSUME TypeOK, InTurn, Cached, Syncing, Placed, Patient, [Next]_vars PROVE Placed'
<1>v. ASSUME NEW r \in Rds PROVE seen[r].created # 0 => rd[r].created # 0
  BY DEF Cached, Versions, Version
<1>1. \A k \in Rds : seen[k].created # 0 => seen'[k].created # 0
  <2>1. CASE Deliver
    <3>1. stream \in Seq(Changes) /\ stream # <<>> /\ seen \in [Rds -> Objects]
      BY <2>1 DEF TypeOK, Changes, Deliver
    <3>2. 1 \in 1..Len(stream) /\ Head(stream) = stream[1]
      BY <3>1, EmptySeq, LenProperties
    <3>3. seen' = [seen EXCEPT ![stream[1].rd] = stream[1].object]
      BY <2>1, <3>2 DEF Deliver
    <3>4. stream[1].object.created # 0
      BY <3>2 DEF Cached, Versions
    <3> QED BY <3>1, <3>3, <3>4
  <2>2. CASE Crash
    BY <2>2, <1>v DEF Crash
  <2>3. CASE UNCHANGED seen
    BY <2>3
  <2> QED BY <2>1, <2>2, <2>3 DEF Next, SyncStep, CreateRD, RunnerSeesActive, RunnerGivesUp, EditRD,
                  OwnedObjectEvent, StartSync, SetActive, SetInactive, SyncDeployment, SyncStatus,
                  MaintainHistoryLimit, Prune, SyncDeploymentFails, SyncFails, RegistrationChanges, Tick, vars
<1>2. \A c \in Components : \/ deployed'[c].rd = deployed[c].rd
                            \/ deployed'[c].rd = NoRd
                            \/ deployed'[c].rd = sync.rd /\ sync.pc # "idle"
  <2>1. CASE SyncDeployment \/ SyncDeploymentFails
    <3>1. sync.pc = "deploy" /\ \A c \in Components :
            \/ deployed'[c] = deployed[c] \/ deployed'[c] = Nothing \/ deployed'[c] = ResourcesOf(sync.rd, sync.own)[c]
      BY <2>1 DEF SyncDeployment, SyncDeploymentFails
    <3>2. Nothing.rd = NoRd /\ \A c \in Components : LET x == ResourcesOf(sync.rd, sync.own)[c]
                                                     IN x = Nothing \/ x.rd = sync.rd
      BY DEF ResourcesOf, Nothing
    <3> QED BY <3>1, <3>2
  <2>2. ASSUME NEW r \in Rds, Delete(r)
        PROVE  \A c \in Components : deployed'[c].rd = deployed[c].rd \/ deployed'[c].rd = NoRd
    BY <2>2 DEF Delete, Nothing
  <2>3. CASE Prune
    <3>1. sync.todo \subseteq Rds
      BY DEF TypeOK
    <3> QED BY <2>2, <2>3, <3>1 DEF Prune
  <2>4. CASE UNCHANGED deployed
    BY <2>4
  <2> QED BY <2>1, <2>3, <2>4, NobodyGivesUp DEF Next, SyncStep, CreateRD, RunnerSeesActive, EditRD,
                  OwnedObjectEvent, StartSync, SetActive, SetInactive, SyncStatus,
                  MaintainHistoryLimit, SyncFails, Deliver, Crash, RegistrationChanges, Tick, vars
<1> QED BY <1>1, <1>2, PlacedKept

LEMMA PatientStep == ASSUME TypeOK, InTurn, Patient, [Next]_vars PROVE Patient'
<1>1. left' = left \/ \E d \in Disturbances : Spend(d)
  <2>1. CASE UNCHANGED left
    BY <2>1
  <2>2. CASE \E d \in Disturbances : Spend(d)
    BY <2>2
  <2> QED BY <2>1, <2>2, NobodyGivesUp DEF Next, SyncStep, CreateRD, RunnerSeesActive, EditRD,
                  OwnedObjectEvent, StartSync, SetActive, SetInactive, SyncStatus, SyncDeployment,
                  SyncDeploymentFails, Prune, MaintainHistoryLimit, SyncFails, Deliver, Crash,
                  RegistrationChanges, Tick, vars, Disturbances
<1> QED BY <1>1, PatientKept

LEMMA SerialStep ==
  ASSUME OneByOne, TypeOK, TypeOK', PeriodInv, SerialInv, [Next]_vars PROVE SerialInv'
<1>0. InTurn /\ Cached /\ Syncing /\ Placed /\ Patient
  BY DEF SerialInv
<1>c. clock \in Nat /\ clock <= clock
  BY Numbers DEF TypeOK
<1>1. InTurn' /\ Cached' /\ Syncing'
  <2>1. ASSUME NEW r \in Rds, CreateRD(r) PROVE InTurn' /\ Cached' /\ Syncing'
    BY <1>0, <2>1, CreateRDSerial
  <2>2. ASSUME NEW r \in Rds, RunnerSeesActive(r) PROVE InTurn' /\ Cached' /\ Syncing'
    BY <1>0, <1>c, <2>2, OtherSerial DEF RunnerSeesActive
  <2>3. ASSUME NEW r \in Rds, EditRD(r) PROVE InTurn' /\ Cached' /\ Syncing'
    BY <1>0, <2>3, EditRDSerial
  <2>4. ASSUME NEW r \in Rds, OwnedObjectEvent(r) PROVE InTurn' /\ Cached' /\ Syncing'
    <3>1. seen[r].created # 0 /\ pending' = pending \cup {r}
          /\ UNCHANGED <<clock, rd, seen, stream, sync, runner, activated>>
      BY <1>0, <2>4 DEF Placed, OwnedObjectEvent
    <3> QED BY <1>0, <1>c, <3>1, OtherSerial
  <2>5. ASSUME NEW r \in Rds, StartSync(r) PROVE InTurn' /\ Cached' /\ Syncing'
    BY <1>0, <2>5, StartSyncSerial
  <2>6. CASE SyncStep
    BY <1>0, <2>6, SetActiveSerial, SetInactiveSerial, SyncDeploymentSerial, SyncStatusSerial,
       MaintainSerial, PruneSerial DEF SyncStep
  <2>7. CASE Deliver \/ SyncDeploymentFails \/ SyncFails \/ Crash
    BY <1>0, <2>7, DeliverSerial, SyncDeploymentSerial, SyncFailsSerial, CrashSerial
  <2>8. CASE Tick
    <3>1. clock' \in Nat /\ clock <= clock'
      BY <1>c, <2>8 DEF Tick
    <3> QED BY <1>0, <2>8, <3>1, OtherSerial DEF Tick
  <2>9. CASE UNCHANGED vars
    BY <1>0, <1>c, <2>9, OtherSerial DEF vars
  <2> QED BY <1>0, <2>1, <2>2, <2>3, <2>4, <2>5, <2>6, <2>7, <2>8, <2>9, NobodyGivesUp DEF Next
<1>2. Placed' /\ Patient'
  BY <1>0, PlacedStep, PatientStep
<1> QED BY <1>1, <1>2 DEF SerialInv

LEMMA SerialInit == ASSUME OneByOne, TypeOK, Init PROVE SerialInv
<1>1. /\ clock = Clock0 /\ rd = Rd0 /\ seen = Rd0 /\ stream = <<>> /\ pending = {} /\ sync = Idle
      /\ runner = [r \in Rds |-> ""] /\ activated = {r \in Rds : Rd0[r].from # 0} /\ left \in Budgets
      /\ clock \in Nat /\ 0 < clock
  <2>1. Clock0 \in Nat \ {0}
    BY ConstantsAssumption, Zenon
  <2> QED BY <2>1, Numbers DEF Init
<1>2. \A r \in Rds : \/ rd[r] = Absent
                     \/ /\ rd[r].exists /\ rd[r].cond # "" /\ 0 < rd[r].created /\ rd[r].created <= rd[r].from
                        /\ rd[r].from <= clock /\ rd[r].to <= clock
  BY <1>1 DEF OneByOne
<1>3. \A r, k \in Rds : r # k /\ rd[r].exists /\ rd[k].exists =>
        /\ rd[r].created # rd[k].created
        /\ rd[r].created < rd[k].created =>
             rd[r].cond = "Inactive" /\ rd[r].from < rd[k].created /\ rd[r].to <= rd[k].from
  BY <1>1 DEF OneByOne
<1>4. \A r \in Rds : rd[r] \in Objects /\ Sound(rd[r]) /\ (rd[r].created # 0 => rd[r].exists)
  <2> TAKE r \in Rds
  <2>1. rd[r] \in Objects
    BY DEF TypeOK
  <2>2. CASE rd[r] = Absent
    BY <2>1, <2>2, AbsentCreated DEF Sound
  <2>3. CASE rd[r] # Absent
    <3>1. rd[r].exists /\ rd[r].cond # "" /\ 0 < rd[r].created /\ rd[r].created <= rd[r].from
      BY <1>2, <2>3
    <3> QED BY <2>1, <3>1, Fields, Numbers DEF Sound
  <2> QED BY <2>1, <2>2, <2>3
<1>5. ASSUME NEW r \in Rds, NEW k \in Rds, Elder(r, k)
      PROVE  /\ rd[r].cond = "Inactive" /\ rd[r].from < rd[k].created /\ rd[r].to <= ActiveFrom(rd[k])
  <2>1. r # k /\ rd[r].created # 0 /\ rd[k].created # 0
    BY <1>5, ElderFacts
  <2>2. rd[r].cond = "Inactive" /\ rd[r].from < rd[k].created /\ rd[r].to <= rd[k].from
    BY <1>3, <1>4, <1>5, <2>1 DEF Elder
  <2>3. rd[k].cond # ""
    BY <1>2, <2>1, AbsentCreated
  <2> QED BY <1>4, <2>2, <2>3, SoundFacts
<1>o. OnTime
  <2> SUFFICES ASSUME NEW r \in Rds PROVE rd[r].created <= clock /\ rd[r].from <= clock /\ rd[r].to <= clock
    BY <1>1, <1>4 DEF OnTime
  <2>1. CASE rd[r] = Absent
    <3>1. Absent.created = 0 /\ Absent.from = 0 /\ Absent.to = 0
      BY DEF Absent
    <3> QED BY <1>1, <2>1, <3>1, Numbers
  <2>2. CASE rd[r] # Absent
    BY <1>1, <1>2, <2>2, RdType, Transitive
  <2> QED BY <2>1, <2>2
<1>a. Apart
  <2> SUFFICES ASSUME NEW r \in Rds, NEW k \in Rds, r # k, rd[r].created # 0 PROVE rd[r].created # rd[k].created
    BY DEF Apart
  <2>1. CASE rd[k].created = 0
    BY <2>1
  <2>2. CASE rd[k].created # 0
    BY <1>3, <1>4, <2>2
  <2> QED BY <2>1, <2>2
<1>t. Turns
  <2>1. \A r \in Rds : ~Waiting(r)
    BY <1>1 DEF Waiting
  <2>2. \A r \in Rds : rd[r].created # 0 => rd[r].cond # ""
    BY <1>2, AbsentCreated
  <2> QED BY <2>1, <2>2 DEF Turns
<1>h. Headed
  <2>1. ASSUME NEW n \in Rds, rd[n].cond = "Active" PROVE Latest(n)
    <3>1. Standing(n)
      BY <1>4, <2>1, SoundFacts DEF Standing
    <3>2. \A k \in Rds : ~Elder(n, k)
      BY <1>5, <2>1
    <3> QED BY <3>1, <3>2 DEF Latest
  <2>2. ASSUME NEW r \in Rds, rd[r].created # 0 PROVE \E n \in Rds : rd[n].cond = "Active"
    <3>1. rd[r].cond = "Active" \/ rd[r].cond = "Inactive"
      BY <1>2, <1>4, <2>2, AbsentCreated, Fields
    <3>2. rd[r].cond = "Inactive" => \E n \in Rds : rd[n].cond = "Active"
      BY <1>1 DEF OneByOne
    <3> QED BY <3>1, <3>2
  <2> QED BY <2>1, <2>2 DEF Headed
<1>p. Passed
  BY <1>5 DEF Passed, Standing
<1>r. Reported
  BY <1>1 DEF Reported
<1>6. InTurn
  BY <1>o, <1>a, <1>t, <1>h, <1>p, <1>r DEF InTurn
<1>7. Cached
  <2>1. Len(stream) = 0 /\ 1..0 = {}
    <3>1. stream = <<>>
      BY <1>1
    <3>2. 1..0 = {}
      OBVIOUS
    <3> QED BY <3>1, <3>2, EmptySeq
  <2>2. \A r \in Rds : Sound(rd[r]) /\ Version(rd[r], rd[r]) /\ (rd[r].cond # "" => rd[r].created # 0)
    BY <1>4, VersionSame, SoundFacts
  <2>3. Versions /\ CatchesUp /\ WillBeAware
    BY <1>1, <2>1, <2>2 DEF Versions, CatchesUp, WillBeAware
  <2>4. Met
    BY <1>1, <2>2 DEF Met
  <2>5. Aware
    BY <1>1, <1>5 DEF Aware
  <2> QED BY <2>3, <2>4, <2>5 DEF Cached, InOrder
<1>8. Syncing
  BY <1>1, IdleType DEF Syncing
<1>9. Placed
  <2> SUFFICES ASSUME NEW c \in Components, NEW r \in Rds, deployed[c].rd = r PROVE rd[r].created # 0
    BY <1>1 DEF Placed
  <2>1. NoRd \notin Rds
    BY ConstantsAssumption, Zenon
  <2>2. ASSUME NEW k \in Rds, rd[k].cond = "Active", deployed = ResourcesOf(k, rd[k]) PROVE rd[r].created # 0
    <3>1. r = k
      BY <2>1, <2>2 DEF ResourcesOf, Nothing
    <3> QED BY <1>4, <2>2, <3>1, SoundFacts
  <2>3. CASE deployed = [d \in Components |-> Nothing]
    BY <2>1, <2>3 DEF Nothing
  <2> QED BY <1>1, <2>2, <2>3 DEF Init
<1>10. Patient
  BY <1>1 DEF OneByOne, Patient
<1> QED BY <1>6, <1>7, <1>8, <1>9, <1>10 DEF SerialInv

LEMMA SerialInvariant == ASSUME OneByOne PROVE Spec => []SerialInv
<1>1. TypeOK /\ Init => SerialInv
  BY SerialInit
<1>2. TypeOK /\ TypeOK' /\ PeriodInv /\ SerialInv /\ [Next]_vars => SerialInv'
  BY SerialStep
<1> QED BY TypeCorrect, PeriodInvariant, <1>1, <1>2, PTL DEF Spec

(* What WaitForActive reports to a pipeline as active has been active: when the
   pipelines follow each other none takes the active-from time that an inactivated
   RadixDeployment is given for one. *)
THEOREM ReportedWasActiveHolds == ASSUME OneByOne PROVE Spec => []ReportedWasActive
<1>1. SerialInv => ReportedWasActive
  BY DEF SerialInv, InTurn, Reported, ReportedWasActive
<1> QED BY SerialInvariant, <1>1, PTL

(* The periods that inactive RadixDeployments have been active do not overlap. *)
THEOREM PeriodsDisjointHolds == ASSUME OneByOne PROVE Spec => []PeriodsDisjoint
<1>1. TypeOK /\ SerialInv => PeriodsDisjoint
  <2> SUFFICES ASSUME TypeOK, SerialInv, NEW r \in Rds, NEW k \in Rds,
                      rd[r].cond = "Inactive", rd[k].cond = "Inactive", rd[r].from < rd[k].from
               PROVE  rd[r].to <= rd[k].from
    BY DEF PeriodsDisjoint, TypeOK
  <2>1. \A m \in Rds : rd[m] \in Objects /\ Sound(rd[m]) /\ Version(rd[m], rd[m])
    BY VersionSame DEF TypeOK, SerialInv, InTurn, OnTime
  <2>2. /\ rd[r].created # 0 /\ ActiveFrom(rd[r]) = rd[r].from
        /\ rd[k].created # 0 /\ ActiveFrom(rd[k]) = rd[k].from
    BY <2>1, SoundFacts
  <2>3. rd[r].from \in Nat /\ rd[k].from \in Nat
    BY RdType
  <2>4. r # k
    BY <2>3, Numbers
  <2>5. ~Elder(k, r)
    <3> SUFFICES ASSUME Elder(k, r) PROVE FALSE
      OBVIOUS
    <3>1. ActiveFrom(rd[k]) < ActiveFrom(rd[r])
      BY <2>1, <2>2, TimesInTurn DEF SerialInv
    <3> QED BY <2>2, <2>3, <3>1, Order
  <2>6. Elder(r, k)
    BY <2>2, <2>4, <2>5, Compared DEF SerialInv
  <2> QED BY <2>2, <2>6 DEF SerialInv, InTurn, Passed
<1> QED BY TypeCorrect, SerialInvariant, <1>1, PTL

(* The history limit deletes inactive RadixDeployments only, and none that a
   RadixBatch refers to, although the operator picks them from a cache that lags. *)
THEOREM PruneIsSafeHolds == ASSUME OneByOne PROVE Spec => PruneIsSafe
<1>1. TypeOK /\ SerialInv /\ [Next]_vars =>
        [sync.pc = "prune" =>
           \A r \in Rds : rd[r].exists /\ ~rd'[r].exists /\ runner'[r] = runner[r] =>
             rd[r].cond = "Inactive" /\ r \notin Referenced]_vars
  <2> SUFFICES ASSUME TypeOK, SerialInv, Next, sync.pc = "prune", NEW r \in Rds, rd[r].exists, ~rd'[r].exists
               PROVE  rd[r].cond = "Inactive" /\ r \notin Referenced
    OBVIOUS
  <2>0. rd \in [Rds -> Objects] /\ InTurn /\ Patient /\ Phased /\ sync.rd \in Rds /\ sync.todo \subseteq Rds
    BY DEF TypeOK, SerialInv, Syncing
  <2>1. CASE Prune
    <3>1. PICK k \in sync.todo : Delete(k)
      BY <2>1 DEF Prune
    <3>2. k = r
      BY <2>0, <3>1 DEF Delete, Store
    <3> QED BY <2>0, <3>1, <3>2 DEF Phased
  <2>2. ASSUME NEW k \in Rds, CreateRD(k) PROVE FALSE
    <3>1. rd' = [rd EXCEPT ![k] = [Absent EXCEPT !.exists = TRUE, !.created = clock]]
      BY <2>2 DEF CreateRD, Store
    <3> QED BY <2>0, <3>1 DEF Absent
  <2>3. ASSUME NEW k \in Rds, EditRD(k) PROVE FALSE
    <3>1. rd' = [rd EXCEPT ![k] = [rd[k] EXCEPT !.spec = @ + 1]] /\ rd[k] \in Objects
      BY <2>0, <2>3 DEF EditRD, Store
    <3> QED BY <2>0, <3>1 DEF Objects
  <2>4. CASE UNCHANGED rd
    BY <2>4
  <2> QED BY <2>0, <2>1, <2>2, <2>3, <2>4, NobodyGivesUp DEF Next, SyncStep, RunnerSeesActive,
             OwnedObjectEvent, StartSync, SetActive, SetInactive, SyncDeployment, SyncStatus,
             MaintainHistoryLimit, SyncDeploymentFails, SyncFails, Deliver, Crash, RegistrationChanges, Tick
<1> QED BY TypeCorrect, SerialInvariant, <1>1, PTL DEF Spec, PruneIsSafe

-----------------------------------------------------------------------------
(* What brings the latest to be served.                                    *)

Stale(k) == ~seen[k].exists \/ seen[k].cond # rd[k].cond \/ seen[k].spec # rd[k].spec

Noticed(k) == k \in pending \/ Stale(k)

Attended(k) == Noticed(k) \/ (sync.rd = k /\ sync.pc \in {"activate", "inactivate"})

(* The latest has not been active yet, or an elder has not given way. *)
Unfinished(k) == rd[k].cond = "" \/ \E r \in Rds : Standing(r) /\ Elder(r, k)

Called == \A k \in Rds : Latest(k) /\ Unfinished(k) => Attended(k)

(* A Sync that is no longer the latest's is followed by another, and so is one that
   works from an older spec. *)
Recalled ==
  sync.pc # "idle" => \A o \in Rds : o = sync.rd =>
    /\ \A k \in Rds : Elder(o, k) => Noticed(k)
    /\ sync.own.spec # rd[o].spec => Noticed(o)

InHand(k) ==
  sync.rd = k /\ \/ sync.pc \in {"activate", "inactivate", "deploy"}
                 \/ sync.pc = "status" /\ sync.failed

Installed == \A k \in Rds : Latest(k) => Noticed(k) \/ deployed = ResourcesOf(k, rd[k]) \/ InHand(k)

Served == Called /\ Recalled /\ Installed

(* What a step does to the RadixDeployments, and whether the cache knows. *)
LEMMA Changed ==
  ASSUME OneByOne, TypeOK, PeriodInv, SerialInv, [Next]_vars
  PROVE  /\ rd' = rd \/ seen' = seen
         /\ \A k \in Rds : Version(rd[k], rd'[k]) /\ (rd'[k].created = rd[k].created \/ rd'[k].cond = "")
<1>0. InTurn /\ Patient /\ (sync.pc # "idle" => sync.rd \in Rds) /\ sync.todo \subseteq Rds
      /\ sync.own \in Objects /\ \A k \in Rds : rd[k] \in Objects /\ sync.all[k] \in Objects
  BY DEF SerialInv, TypeOK
<1>k. AllKept
  BY PeriodStep
<1>u. ASSUME UNCHANGED rd
      PROVE  \A k \in Rds : Version(rd[k], rd'[k]) /\ (rd'[k].created = rd[k].created \/ rd'[k].cond = "")
  BY <1>0, <1>u, VersionSame
<1>s. ASSUME NEW r \in Rds, NEW new, Store(r, new), new.created = rd[r].created, new.exists => rd[r].exists,
             new.cond = "" => rd[r].cond = "", rd[r].spec <= new.spec
      PROVE  \A k \in Rds : Version(rd[k], rd'[k]) /\ (rd'[k].created = rd[k].created \/ rd'[k].cond = "")
  <2>1. rd'[r] = new /\ \A k \in Rds \ {r} : rd'[k] = rd[k]
    BY <1>s DEF TypeOK, Store
  <2>2. Version(rd[r], new)
    BY <1>k, <1>s, <2>1 DEF AllKept, Keeps, Version
  <2> QED BY <1>0, <1>s, <2>1, <2>2, VersionSame
<1>d. ASSUME NEW r \in Rds, Delete(r)
      PROVE  \A k \in Rds : Version(rd[k], rd'[k]) /\ (rd'[k].created = rd[k].created \/ rd'[k].cond = "")
  <2> DEFINE new == [rd[r] EXCEPT !.exists = FALSE]
  <2>1. Store(r, new) /\ rd[r] \in Objects
    BY <1>0, <1>d DEF Delete
  <2>2. new.created = rd[r].created /\ ~new.exists /\ new.cond = rd[r].cond /\ new.spec = rd[r].spec
    BY <2>1 DEF Objects
  <2>3. rd[r].spec <= new.spec
    BY <2>1, <2>2, Fields, Numbers
  <2> HIDE DEF new
  <2> QED BY <1>s, <2>1, <2>2, <2>3
<1>e. rd' = rd \/ seen' = seen
  BY DEF Next, SyncStep, CreateRD, RunnerSeesActive, RunnerGivesUp, EditRD,
         OwnedObjectEvent, StartSync, SetActive, SetInactive, SyncStatus, SyncDeployment,
         SyncDeploymentFails, Prune, MaintainHistoryLimit, SyncFails, Deliver, Crash,
         RegistrationChanges, Tick, vars
<1>1. ASSUME NEW r \in Rds, CreateRD(r)
      PROVE  \A k \in Rds : Version(rd[k], rd'[k]) /\ (rd'[k].created = rd[k].created \/ rd'[k].cond = "")
  <2> DEFINE new == [Absent EXCEPT !.exists = TRUE, !.created = clock]
  <2>1. Store(r, new) /\ rd[r] = Absent
    BY <1>1 DEF CreateRD
  <2>2. new.cond = "" /\ new.spec = 0 /\ new.from = 0
    BY DEF Absent
  <2> HIDE DEF new
  <2>3. rd'[r] = new /\ \A k \in Rds \ {r} : rd'[k] = rd[k]
    BY <2>1 DEF TypeOK, Store
  <2>4. Version(rd[r], new)
    <3>1. 0 <= new.spec
      BY <2>2, Numbers
    <3> QED BY <2>1, <2>2, <3>1, AbsentCreated DEF Version
  <2> QED BY <1>0, <2>2, <2>3, <2>4, VersionSame
<1>2. ASSUME NEW r \in Rds, EditRD(r)
      PROVE  \A k \in Rds : Version(rd[k], rd'[k]) /\ (rd'[k].created = rd[k].created \/ rd'[k].cond = "")
  <2> DEFINE new == [rd[r] EXCEPT !.spec = @ + 1]
  <2>1. Store(r, new) /\ rd[r] \in Objects
    BY <1>0, <1>2 DEF EditRD
  <2>2. new.created = rd[r].created /\ new.exists = rd[r].exists /\ new.cond = rd[r].cond
        /\ new.spec = rd[r].spec + 1 /\ rd[r].spec \in Nat
    BY <2>1 DEF Objects
  <2>3. rd[r].spec <= new.spec
    BY <2>2
  <2> HIDE DEF new
  <2> QED BY <1>s, <2>1, <2>2, <2>3
<1>3. CASE SetActive
  <2> DEFINE own == IF sync.own.cond = "Active" THEN sync.own
                      ELSE [sync.own EXCEPT !.cond = "Active", !.from = clock]
  <2>1. sync.rd \in Rds /\ (UNCHANGED rd \/ (rd[sync.rd] = sync.own /\ Store(sync.rd, own)))
    BY <1>0, <1>3 DEF SetActive, Update
  <2>2. own.created = sync.own.created /\ own.exists = sync.own.exists /\ own.cond = "Active"
        /\ own.spec = sync.own.spec
    BY <1>0 DEF Objects
  <2>3. sync.own.spec <= own.spec
    BY <1>0, <2>2, Fields, Numbers
  <2> HIDE DEF own
  <2>4. ASSUME rd[sync.rd] = sync.own, Store(sync.rd, own)
        PROVE  \A k \in Rds : Version(rd[k], rd'[k]) /\ (rd'[k].created = rd[k].created \/ rd'[k].cond = "")
    <3>1. /\ own.created = rd[sync.rd].created /\ own.exists = rd[sync.rd].exists
          /\ (own.cond = "" => rd[sync.rd].cond = "") /\ rd[sync.rd].spec <= own.spec
      BY <2>2, <2>3, <2>4
    <3> QED BY <1>s, <2>1, <2>4, <3>1
  <2> QED BY <1>e, <1>u, <2>1, <2>4
<1>4. CASE SetInactive
  <2>1. PICK r \in sync.todo : \E p \in Previous(r) :
          \/ UNCHANGED rd
          \/ rd[r] = sync.all[r] /\ Store(r,
               [sync.all[r] EXCEPT !.cond = "Inactive", !.to = p, !.from = ActiveFrom(sync.all[r])])
    BY <1>4 DEF SetInactive, Update
  <2>2. PICK p : \/ UNCHANGED rd
                 \/ rd[r] = sync.all[r] /\ Store(r,
                      [sync.all[r] EXCEPT !.cond = "Inactive", !.to = p, !.from = ActiveFrom(sync.all[r])])
    BY <2>1
  <2> DEFINE new == [sync.all[r] EXCEPT !.cond = "Inactive", !.to = p, !.from = ActiveFrom(sync.all[r])]
  <2>3. r \in Rds /\ sync.all[r] \in Objects
    BY <1>0
  <2>4. new.created = sync.all[r].created /\ new.exists = sync.all[r].exists /\ new.cond = "Inactive"
        /\ new.spec = sync.all[r].spec
    BY <2>3 DEF Objects
  <2>5. sync.all[r].spec <= new.spec
    BY <2>3, <2>4, Fields, Numbers
  <2>6. UNCHANGED rd \/ (rd[r] = sync.all[r] /\ Store(r, new))
    BY <2>2
  <2> HIDE DEF new
  <2>7. ASSUME rd[r] = sync.all[r], Store(r, new)
        PROVE  \A k \in Rds : Version(rd[k], rd'[k]) /\ (rd'[k].created = rd[k].created \/ rd'[k].cond = "")
    <3>1. /\ new.created = rd[r].created /\ new.exists = rd[r].exists
          /\ new.cond # "" /\ rd[r].spec <= new.spec
      BY <2>4, <2>5, <2>7
    <3> QED BY <1>s, <2>3, <2>7, <3>1
  <2> QED BY <1>e, <1>u, <2>6, <2>7
<1>5. CASE SyncStatus
  <2> DEFINE own == [sync.own EXCEPT !.reconciled = TRUE]
  <2>1. sync.rd \in Rds /\ (UNCHANGED rd \/ (rd[sync.rd] = sync.own /\ Store(sync.rd, own)))
    BY <1>0, <1>5 DEF SyncStatus, Update
  <2>2. own.created = sync.own.created /\ own.exists = sync.own.exists /\ own.cond = sync.own.cond
        /\ own.spec = sync.own.spec
    BY <1>0 DEF Objects
  <2>3. sync.own.spec <= own.spec
    BY <1>0, <2>2, Fields, Numbers
  <2> HIDE DEF own
  <2>4. ASSUME rd[sync.rd] = sync.own, Store(sync.rd, own)
        PROVE  \A k \in Rds : Version(rd[k], rd'[k]) /\ (rd'[k].created = rd[k].created \/ rd'[k].cond = "")
    <3>1. /\ own.created = rd[sync.rd].created /\ own.exists = rd[sync.rd].exists
          /\ (own.cond = "" => rd[sync.rd].cond = "") /\ rd[sync.rd].spec <= own.spec
      BY <2>2, <2>3, <2>4
    <3> QED BY <1>s, <2>1, <2>4, <3>1
  <2> QED BY <1>e, <1>u, <2>1, <2>4
<1>6. CASE Prune
  BY <1>0, <1>6, <1>d, <1>u DEF Prune
<1>7. \A k \in Rds : Version(rd[k], rd'[k]) /\ (rd'[k].created = rd[k].created \/ rd'[k].cond = "")
  BY <1>0, <1>1, <1>2, <1>3, <1>4, <1>5, <1>6, <1>u, NobodyGivesUp DEF Next, SyncStep, RunnerSeesActive,
     OwnedObjectEvent, StartSync, SyncDeployment, SyncDeploymentFails, MaintainHistoryLimit, SyncFails,
     Deliver, Crash, RegistrationChanges, Tick, vars
<1> QED BY <1>e, <1>7

LEMMA Between ==
  ASSUME NEW l \in Nat, NEW m \in Nat, NEW n \in Nat, l <= m, m <= n, l # m \/ m # n
  PROVE  l # n
  OBVIOUS

(* A new RadixDeployment is not in the cache yet. *)
LEMMA NewIsStale ==
  ASSUME TypeOK, Cached, NEW k \in Rds, rd[k].created = 0, rd'[k].created # 0, rd' = rd \/ seen' = seen
  PROVE  Stale(k)'
<1>1. Sound(seen[k]) /\ Version(seen[k], rd[k])
  BY DEF Cached, Versions
<1>2. ~seen[k].exists
  BY <1>1, AbsentCreated DEF Sound, Version
<1> QED BY <1>2 DEF Stale

LEMMA StaleKept ==
  ASSUME TypeOK, TypeOK', Cached, NEW k \in Rds, Stale(k), seen' = seen, Version(rd[k], rd'[k])
  PROVE  Stale(k)'
<1>1. Version(seen[k], rd[k]) /\ seen[k] \in Objects /\ rd[k] \in Objects /\ rd'[k] \in Objects
  BY DEF Cached, Versions, TypeOK
<1>2. CASE seen[k].cond # rd[k].cond
  <2>1. rd'[k].cond # seen[k].cond
    BY <1>1, <1>2, Fields DEF Version
  <2> QED BY <2>1 DEF Stale
<1>3. CASE seen[k].spec # rd[k].spec
  <2>1. seen[k].spec <= rd[k].spec /\ rd[k].spec <= rd'[k].spec
    BY <1>1 DEF Version
  <2>2. seen[k].spec # rd'[k].spec
    BY <1>1, <1>3, <2>1, Fields, Between
  <2> QED BY <2>2 DEF Stale
<1> QED BY <1>2, <1>3 DEF Stale

(* An edit is not in the cache yet. *)
LEMMA EditIsStale ==
  ASSUME TypeOK, TypeOK', Cached, NEW k \in Rds, rd'[k].spec # rd[k].spec, Version(rd[k], rd'[k]),
         rd' = rd \/ seen' = seen
  PROVE  Stale(k)'
<1>1. Version(seen[k], rd[k]) /\ seen[k] \in Objects /\ rd[k] \in Objects /\ rd'[k] \in Objects
  BY DEF Cached, Versions, TypeOK
<1>2. seen[k].spec <= rd[k].spec /\ rd[k].spec <= rd'[k].spec
  BY <1>1 DEF Version
<1>3. seen[k].spec # rd'[k].spec
  BY <1>1, <1>2, Fields, Between
<1> QED BY <1>3 DEF Stale

(* The latest is one that was, or the cache does not know of it. *)
LEMMA Follows ==
  ASSUME OneByOne, TypeOK, PeriodInv, SerialInv, SerialInv', [Next]_vars, NEW k \in Rds, Latest(k)', ~Stale(k)'
  PROVE  Latest(k) /\ (Unfinished(k)' => Unfinished(k))
<1>1. /\ rd' = rd \/ seen' = seen
      /\ \A m \in Rds : Version(rd[m], rd'[m]) /\ (rd'[m].created = rd[m].created \/ rd'[m].cond = "")
  BY Changed
<1>2. rd[k].created # 0 /\ Standing(k)' /\ \A m \in Rds : ~Elder(k, m)'
  BY <1>1, NewIsStale DEF Latest, Standing, SerialInv
<1>3. \A m \in Rds : rd[m].created # 0 => rd'[m].created = rd[m].created
  BY <1>1 DEF Version
<1>4. \A a, b \in Rds : Elder(a, b) => Elder(a, b)'
  <2> SUFFICES ASSUME NEW a \in Rds, NEW b \in Rds, Elder(a, b) PROVE Elder(a, b)'
    OBVIOUS
  <2>1. rd[a].created # 0 /\ rd[b].created # 0
    BY ElderFacts
  <2>2. 0 < rd[a].created /\ rd[a].created < rd[b].created
    BY DEF Elder
  <2> QED BY <1>3, <2>1, <2>2 DEF Elder
<1>5. \A m \in Rds : Standing(m)' /\ rd[m].created # 0 => Standing(m)
  BY <1>1 DEF Standing, Version
<1>6. Latest(k)
  BY <1>2, <1>4, <1>5 DEF Latest
<1>7. ASSUME NEW r \in Rds, Standing(r)', Elder(r, k)' PROVE Standing(r) /\ Elder(r, k)
  <2>1. rd'[r].cond # ""
    BY <1>7 DEF SerialInv, InTurn, Passed
  <2>2. rd'[r].created = rd[r].created /\ rd'[k].created = rd[k].created
    BY <1>1, <1>2, <1>3, <2>1
  <2> QED BY <1>5, <1>7, <2>2 DEF Elder, Standing
<1>8. rd'[k].cond = "" => rd[k].cond = ""
  BY <1>1 DEF Version
<1> QED BY <1>6, <1>7, <1>8 DEF Unfinished

(* The latest one's Sync always begins. *)
LEMMA LatestBegins ==
  ASSUME TypeOK, InTurn, Cached, NEW k \in Rds, Latest(k), NEW try, Begin(k, try)
  PROVE  sync'.pc = "activate" /\ sync'.rd = k /\ sync'.own = rd[k]
<1>1. Standing(k) /\ rd[k] \in Objects /\ Sound(rd[k]) /\ \A m \in Rds : ~Elder(k, m)
  BY DEF Latest, TypeOK, InTurn, OnTime
<1>2. rd[k].exists /\ rd[k].cond # "Inactive" /\ rd[k].created # 0
  BY <1>1 DEF Standing, Sound
<1>3. IsLatest(k, rd[k], seen)
  <2> SUFFICES ASSUME NEW m \in Existing(seen) \ {k} PROVE ActiveFrom(rd[k]) >= ActiveFrom(seen[m])
    BY DEF IsLatest
  <2>1. m \in Rds /\ seen[m].exists /\ seen[m] \in Objects /\ Sound(seen[m]) /\ Version(seen[m], rd[m])
    BY DEF Existing, TypeOK, Cached, Versions
  <2>2. seen[m].created # 0 /\ rd[m].created # 0
    BY <2>1, SoundFacts DEF Version
  <2>3. Elder(m, k)
    BY <1>1, <1>2, <2>1, <2>2, Compared
  <2>4. ActiveFrom(seen[m]) < ActiveFrom(rd[k])
    BY <1>1, <1>2, <2>1, <2>2, <2>3, TimesInTurn, VersionSame
  <2>5. ActiveFrom(seen[m]) \in Nat /\ ActiveFrom(rd[k]) \in Nat
    BY <1>1, <2>1, TimeType
  <2> QED BY <2>4, <2>5
<1>4. sync' = [Idle EXCEPT !.pc = "activate", !.rd = k, !.tries = try, !.own = rd[k], !.all = seen]
  BY <1>2, <1>3 DEF Begin
<1> QED BY <1>4 DEF Idle

(* Nothing but its Sync takes one off the queue that stands. *)
LEMMA NoticedStep ==
  ASSUME OneByOne, TypeOK, TypeOK', PeriodInv, SerialInv, [Next]_vars,
         NEW k \in Rds, Standing(k), Standing(k)', Noticed(k), ~StartSync(k)
  PROVE  Noticed(k)'
<1>0. Cached /\ InTurn /\ Version(rd[k], rd'[k])
  BY Changed DEF SerialInv
<1>1. CASE Deliver
  <2>1. stream \in Seq(Changes) /\ stream # <<>> /\ seen \in [Rds -> Objects]
    BY <1>1 DEF TypeOK, Changes, Deliver
  <2>2. 1 \in 1..Len(stream) /\ Head(stream) = stream[1]
    BY <2>1, EmptySeq, LenProperties
  <2>3. PICK r \in Rds : r = stream[1].rd
    BY <2>2, StreamTypes
  <2>4. PICK new \in Objects : new = stream[1].object
    BY <2>2, StreamTypes
  <2>5. seen' = [seen EXCEPT ![r] = new] /\ pending' = pending \cup Notified(r, seen[r], new) /\ rd' = rd
    BY <1>1, <2>2, <2>3, <2>4 DEF Deliver
  <2>6. CASE r # k \/ k \in pending
    BY <2>1, <2>5, <2>6 DEF Noticed, Stale
  <2>7. CASE r = k /\ Stale(k)
    <3>1. seen'[k] = new
      BY <2>1, <2>5, <2>7
    <3>2. CASE ~new.exists \/ new.cond # rd[k].cond \/ new.spec # rd[k].spec
      BY <2>5, <3>1, <3>2 DEF Noticed, Stale
    <3>3. CASE new.exists /\ new.cond = rd[k].cond /\ new.spec = rd[k].spec
      <4>1. new.cond # "Inactive"
        BY <3>3 DEF Standing
      <4>2. k \in Notified(k, seen[k], new)
        BY <2>7, <3>3, <4>1 DEF Notified, Stale
      <4> QED BY <2>5, <2>7, <4>2 DEF Noticed
    <3> QED BY <3>2, <3>3
  <2> QED BY <2>6, <2>7 DEF Noticed
<1>2. CASE Crash
  <2>1. rd[k].exists /\ rd[k].cond # "Inactive"
    BY <1>0 DEF InTurn, OnTime, Sound, Standing
  <2> QED BY <1>2, <2>1 DEF Crash, Noticed
<1>3. CASE seen' = seen /\ (k \in pending => k \in pending')
  BY <1>0, <1>3, StaleKept DEF Noticed
<1>4. ASSUME NEW r \in Rds, StartSync(r) PROVE seen' = seen /\ (k \in pending => k \in pending')
  BY <1>4 DEF StartSync
<1>5. Retry \/ Requeue => pending \subseteq pending'
  BY DEF Retry, Requeue
<1>6. SetActive \/ SetInactive \/ SyncStatus => seen' = seen /\ pending \subseteq pending'
  BY <1>5 DEF SetActive, SetInactive, SyncStatus, Update
<1>7. SyncFails => seen' = seen /\ pending \subseteq pending'
  BY <1>5 DEF SyncFails
<1> QED BY <1>1, <1>2, <1>3, <1>4, <1>6, <1>7 DEF Next, SyncStep, CreateRD, RunnerSeesActive, RunnerGivesUp,
           EditRD, OwnedObjectEvent, SyncDeployment, SyncDeploymentFails, Prune, MaintainHistoryLimit,
           RegistrationChanges, Tick, vars

(* A Sync that has yet to deploy does, or is made up for. *)
LEMMA InHandStep ==
  ASSUME TypeOK, SerialInv, [Next]_vars, NEW k \in Rds, Latest(k), InHand(k)
  PROVE  k \in pending' \/ InHand(k)' \/ (SyncDeployment /\ sync.rd = k)
<1>0. InTurn /\ Cached /\ sync.rd = k /\ sync.pc \in {"activate", "inactivate", "deploy", "status"}
      /\ (sync.pc = "status" => sync.failed) /\ sync \in SyncRecords
  BY DEF SerialInv, InHand, TypeOK, SyncRecords
<1>1. CASE UNCHANGED sync
  BY <1>1 DEF InHand
<1>2. Retry \/ Requeue => k \in pending' \/ InHand(k)'
  <2>1. ASSUME Begin(k, sync.tries + 1) PROVE InHand(k)'
    BY <1>0, <2>1, LatestBegins DEF InHand
  <2>2. Requeue => k \in pending'
    BY <1>0 DEF Requeue
  <2> QED BY <1>0, <2>1, <2>2 DEF Retry
<1>3. CASE SetActive
  <2> DEFINE own == IF sync.own.cond = "Active" THEN sync.own
                      ELSE [sync.own EXCEPT !.cond = "Active", !.from = clock]
             others == {j \in Existing(sync.all) \ {sync.rd} : sync.all[j].cond # "Inactive"}
             then == [sync EXCEPT !.own = own, !.todo = others,
                                  !.pc = IF others = {} THEN "deploy" ELSE "inactivate"]
  <2>1. then.rd = k /\ then.pc \in {"deploy", "inactivate"}
    BY <1>0 DEF SyncRecords
  <2>2. Update(sync.rd, sync.own, own, then)
    BY <1>3 DEF SetActive
  <2> HIDE DEF own, others, then
  <2>3. sync' = then => InHand(k)'
    BY <2>1 DEF InHand
  <2> QED BY <1>2, <2>2, <2>3 DEF Update
<1>4. CASE SetInactive
  <2>1. PICK r \in sync.todo : \E p \in Previous(r) :
          Update(r, sync.all[r],
                 [sync.all[r] EXCEPT !.cond = "Inactive", !.to = p, !.from = ActiveFrom(sync.all[r])],
                 [sync EXCEPT !.todo = @ \ {r}, !.pc = IF sync.todo = {r} THEN "deploy" ELSE @])
    BY <1>4 DEF SetInactive
  <2> DEFINE then == [sync EXCEPT !.todo = @ \ {r}, !.pc = IF sync.todo = {r} THEN "deploy" ELSE @]
  <2>2. then.rd = k /\ then.pc \in {"deploy", "inactivate"}
    BY <1>0, <1>4 DEF SyncRecords, SetInactive
  <2>3. sync' = then \/ Retry \/ Requeue
    BY <2>1 DEF Update
  <2> HIDE DEF then
  <2>4. sync' = then => InHand(k)'
    BY <2>2 DEF InHand
  <2> QED BY <1>2, <2>3, <2>4
<1>5. CASE SyncDeploymentFails
  <2>1. sync'.pc = "status" /\ sync'.failed /\ sync'.rd = k
    BY <1>0, <1>5 DEF SyncDeploymentFails, SyncRecords
  <2> QED BY <2>1 DEF InHand
<1>6. CASE SyncStatus
  BY <1>0, <1>2, <1>6 DEF SyncStatus
<1>7. CASE SyncFails
  BY <1>2, <1>7 DEF SyncFails
<1>8. CASE Crash
  <2>1. rd[k].exists /\ rd[k].cond # "Inactive"
    BY <1>0 DEF InTurn, OnTime, Sound, Standing, Latest
  <2> QED BY <1>8, <2>1 DEF Crash
<1>9. ~MaintainHistoryLimit /\ ~Prune /\ \A r \in Rds : ~StartSync(r)
  BY <1>0 DEF MaintainHistoryLimit, Prune, StartSync
<1> QED BY <1>0, <1>1, <1>3, <1>4, <1>5, <1>6, <1>7, <1>8, <1>9 DEF Next, SyncStep, CreateRD, RunnerSeesActive,
           RunnerGivesUp, EditRD, OwnedObjectEvent, Deliver, RegistrationChanges, Tick, vars

LEMMA BegunFrom ==
  ASSUME NEW r \in Rds, NEW try, Begin(r, try), sync'.pc # "idle"
  PROVE  sync'.rd = r /\ sync'.own = rd[r] /\ sync'.all = seen
<1>1. sync' = [Idle EXCEPT !.pc = "activate", !.rd = r, !.tries = try, !.own = rd[r], !.all = seen]
  BY IdleType DEF Begin
<1> QED BY <1>1 DEF Idle

(* The Sync in progress goes on with the spec that it has, or begins anew. *)
LEMMA SyncStays ==
  ASSUME TypeOK, [Next]_vars, sync'.pc # "idle"
  PROVE  \/ /\ sync.pc # "idle" /\ sync'.rd = sync.rd
            /\ sync'.own.spec = sync.own.spec \/ (sync'.own = rd[sync.rd] /\ rd' = rd)
         \/ \E r \in Rds : StartSync(r) /\ sync'.rd = r /\ sync'.own = rd[r] /\ sync'.all = seen
<1> DEFINE Goes == /\ sync.pc # "idle" /\ sync'.rd = sync.rd
                   /\ sync'.own.spec = sync.own.spec \/ (sync'.own = rd[sync.rd] /\ rd' = rd)
<1>0. sync \in SyncRecords /\ (sync.pc # "idle" => sync.rd \in Rds) /\ sync.own \in Objects
  BY DEF TypeOK, SyncRecords
<1>1. CASE UNCHANGED sync
  BY <1>1
<1>2. ASSUME NEW r \in Rds, StartSync(r)
      PROVE  sync'.rd = r /\ sync'.own = rd[r] /\ sync'.all = seen
  BY <1>2, BegunFrom DEF StartSync
<1>3. ASSUME sync.pc # "idle", Retry \/ Requeue, UNCHANGED rd PROVE Goes
  <2>1. CASE Begin(sync.rd, sync.tries + 1)
    BY <1>0, <1>3, <2>1, BegunFrom
  <2>2. ~Requeue
    BY IdleType DEF Requeue
  <2> QED BY <1>3, <2>1, <2>2 DEF Retry
<1>4. CASE SetActive
  <2> DEFINE own == IF sync.own.cond = "Active" THEN sync.own
                      ELSE [sync.own EXCEPT !.cond = "Active", !.from = clock]
             others == {j \in Existing(sync.all) \ {sync.rd} : sync.all[j].cond # "Inactive"}
             then == [sync EXCEPT !.own = own, !.todo = others,
                                  !.pc = IF others = {} THEN "deploy" ELSE "inactivate"]
  <2>1. then.rd = sync.rd /\ then.own = own /\ own.spec = sync.own.spec
    BY <1>0 DEF SyncRecords, Objects
  <2>2. Update(sync.rd, sync.own, own, then) /\ sync.pc # "idle"
    BY <1>4 DEF SetActive
  <2> HIDE DEF own, others, then
  <2> QED BY <1>3, <2>1, <2>2 DEF Update
<1>5. CASE SetInactive
  <2>1. PICK r \in sync.todo : \E p \in Previous(r) :
          Update(r, sync.all[r],
                 [sync.all[r] EXCEPT !.cond = "Inactive", !.to = p, !.from = ActiveFrom(sync.all[r])],
                 [sync EXCEPT !.todo = @ \ {r}, !.pc = IF sync.todo = {r} THEN "deploy" ELSE @])
    BY <1>5 DEF SetInactive
  <2> DEFINE then == [sync EXCEPT !.todo = @ \ {r}, !.pc = IF sync.todo = {r} THEN "deploy" ELSE @]
  <2>2. then.rd = sync.rd /\ then.own = sync.own /\ sync.pc # "idle"
    BY <1>0, <1>5 DEF SyncRecords, SetInactive
  <2>3. PICK new : Update(r, sync.all[r], new, then)
    BY <2>1
  <2> HIDE DEF then
  <2> QED BY <1>3, <2>2, <2>3 DEF Update
<1>6. CASE SyncStatus
  <2> DEFINE own == [sync.own EXCEPT !.reconciled = TRUE]
             then == [sync EXCEPT !.pc = "history", !.own = own]
  <2>1. then.rd = sync.rd /\ then.own = own /\ own.spec = sync.own.spec /\ sync.pc # "idle"
    BY <1>0, <1>6 DEF SyncRecords, Objects, SyncStatus
  <2>2. \/ sync' = then
        \/ (Retry \/ Requeue) /\ UNCHANGED rd
        \/ Requeue
    BY <1>6 DEF SyncStatus, Update
  <2> HIDE DEF own, then
  <2>3. ~Requeue
    BY IdleType DEF Requeue
  <2> QED BY <1>3, <2>1, <2>2, <2>3
<1>7. CASE SyncDeployment \/ SyncDeploymentFails \/ MaintainHistoryLimit \/ Prune
  <2>1. sync.pc # "idle" /\ sync'.rd = sync.rd /\ sync'.own = sync.own
    BY <1>0, <1>7, IdleType DEF SyncDeployment, SyncDeploymentFails, MaintainHistoryLimit, Prune, SyncRecords
  <2> QED BY <2>1
<1>8. ~SyncFails /\ ~Crash
  BY IdleType DEF SyncFails, Requeue, Crash
<1> QED BY <1>1, <1>2, <1>4, <1>5, <1>6, <1>7, <1>8 DEF Next, SyncStep, CreateRD, RunnerSeesActive,
           RunnerGivesUp, EditRD, OwnedObjectEvent, Deliver, RegistrationChanges, Tick, vars

LEMMA CalledStep ==
  ASSUME OneByOne, TypeOK, TypeOK', PeriodInv, SerialInv, SerialInv', Called, [Next]_vars PROVE Called'
<1> SUFFICES ASSUME NEW k \in Rds, Latest(k)', Unfinished(k)', ~Stale(k)' PROVE Attended(k)'
  BY DEF Called, Attended, Noticed
<1>0. InTurn /\ Cached /\ Latest(k) /\ Attended(k) /\ Standing(k) /\ Standing(k)'
  BY Follows DEF SerialInv, Called, Latest
<1>1. CASE Noticed(k) /\ ~StartSync(k)
  BY <1>0, <1>1, NoticedStep DEF Attended
<1>2. CASE StartSync(k)
  <2>1. sync'.pc = "activate" /\ sync'.rd = k
    BY <1>0, <1>2, LatestBegins DEF StartSync
  <2> QED BY <2>1 DEF Attended
<1>3. CASE sync.rd = k /\ sync.pc \in {"activate", "inactivate"}
  <2>1. InHand(k) /\ ~SyncDeployment
    BY <1>3 DEF InHand, SyncDeployment
  <2>2. k \in pending' \/ InHand(k)'
    BY <1>0, <2>1, InHandStep
  <2>3. ~(sync'.rd = k /\ sync'.pc \in Deploying)
    <3> SUFFICES ASSUME sync'.rd = k, sync'.pc \in Deploying PROVE FALSE
      OBVIOUS
    <3>1. Based' /\ Phased'
      BY DEF SerialInv, Syncing, Deploying
    <3>2. \A r \in Rds : Elder(r, k)' => ~Standing(r)'
      BY <3>1 DEF Phased
    <3>3. sync'.own.cond = "Active" /\ Version(sync'.own, rd'[k])
      BY <3>1 DEF Phased, Based, Deploying
    <3>4. rd'[k].cond # ""
      BY <3>3 DEF Version
    <3> QED BY <3>2, <3>4 DEF Unfinished
  <2> QED BY <2>2, <2>3 DEF InHand, Attended, Noticed, Deploying
<1> QED BY <1>0, <1>1, <1>2, <1>3 DEF Attended

LEMMA ElderCreated ==
  ASSUME TypeOK', NEW r \in Rds, NEW k \in Rds, Elder(r, k)' PROVE rd'[k].created # 0
<1>1. rd'[r].created \in Nat /\ rd'[k].created \in Nat
  <2>1. rd'[r] \in Objects /\ rd'[k] \in Objects
    BY DEF TypeOK
  <2> QED BY <2>1, Fields
<1> QED BY <1>1 DEF Elder

LEMMA RecalledStep ==
  ASSUME OneByOne, TypeOK, TypeOK', PeriodInv, SerialInv, SerialInv', Recalled, [Next]_vars PROVE Recalled'
<1> SUFFICES ASSUME sync'.pc # "idle", NEW o \in Rds, o = sync'.rd
             PROVE  /\ \A k \in Rds : Elder(o, k)' => Noticed(k)'
                    /\ sync'.own.spec # rd'[o].spec => Noticed(o)'
  BY DEF Recalled
<1>0. Cached /\ Based' /\ Standing(o)'
  BY DEF SerialInv, Syncing, Based
<1>c. /\ rd' = rd \/ seen' = seen
      /\ \A k \in Rds : Version(rd[k], rd'[k]) /\ (rd'[k].created = rd[k].created \/ rd'[k].cond = "")
  BY Changed
<1>1. CASE /\ sync.pc # "idle" /\ sync.rd = o
           /\ sync'.own.spec = sync.own.spec \/ (sync'.own = rd[o] /\ rd' = rd)
  <2>0. Based /\ Standing(o) /\ \A r \in Rds : ~StartSync(r)
    BY <1>1 DEF SerialInv, Syncing, Based, StartSync
  <2>1. ASSUME NEW k \in Rds, Elder(o, k)' PROVE Noticed(k)'
    <3>1. rd'[k].created # 0 /\ rd'[k].cond = ""
      BY <1>0, <2>1, ElderCreated DEF Based
    <3>2. CASE rd[k].created = 0
      BY <1>0, <1>c, <3>1, <3>2, NewIsStale DEF Noticed
    <3>3. CASE rd[k].created # 0
      <4>1. rd[o].created # 0 /\ rd'[o].created = rd[o].created /\ rd'[k].created = rd[k].created
        BY <1>c, <2>0, <3>3 DEF Standing, Version
      <4>2. Elder(o, k)
        BY <2>1, <4>1 DEF Elder
      <4>3. Noticed(k) /\ Standing(k) /\ Standing(k)'
        BY <1>1, <2>0, <3>1, <3>3, <4>2 DEF Recalled, Based, Standing
      <4> QED BY <2>0, <4>3, NoticedStep
    <3> QED BY <3>2, <3>3
  <2>2. ASSUME sync'.own.spec # rd'[o].spec PROVE Noticed(o)'
    <3>1. CASE rd'[o].spec # rd[o].spec
      BY <1>0, <1>c, <3>1, EditIsStale DEF Noticed
    <3>2. CASE rd'[o].spec = rd[o].spec
      <4>1. Noticed(o)
        BY <1>1, <2>2, <3>2 DEF Recalled
      <4> QED BY <1>0, <2>0, <4>1, NoticedStep
    <3> QED BY <3>1, <3>2
  <2> QED BY <2>1, <2>2
<1>2. ASSUME NEW r \in Rds, StartSync(r), sync'.rd = r, sync'.own = rd[r], sync'.all = seen
      PROVE  /\ \A k \in Rds : Elder(o, k)' => Noticed(k)'
             /\ sync'.own.spec # rd'[o].spec => Noticed(o)'
  <2>1. rd' = rd /\ seen' = seen
    BY <1>2 DEF StartSync
  <2>2. \A k \in Rds : Elder(o, k)' => ~seen'[k].exists
    BY <1>0, <1>2, <2>1 DEF Based
  <2> QED BY <1>2, <2>1, <2>2 DEF Noticed, Stale
<1> QED BY <1>1, <1>2, SyncStays

LEMMA InstalledStep ==
  ASSUME OneByOne, TypeOK, TypeOK', PeriodInv, SerialInv, SerialInv', Recalled, Installed, [Next]_vars
  PROVE  Installed'
<1> SUFFICES ASSUME NEW k \in Rds, Latest(k)', ~Stale(k)'
             PROVE  Noticed(k)' \/ deployed' = ResourcesOf(k, rd'[k]) \/ InHand(k)'
  BY DEF Installed, Noticed, ResourcesOf
<1>0. InTurn /\ Cached /\ Patient /\ Latest(k) /\ Standing(k) /\ Standing(k)'
      /\ (Noticed(k) \/ deployed = ResourcesOf(k, rd[k]) \/ InHand(k))
  BY Follows DEF SerialInv, Latest, Installed
<1>c. (rd' = rd \/ seen' = seen) /\ Version(rd[k], rd'[k])
  BY Changed
<1>s. rd'[k].spec = rd[k].spec
  BY <1>0, <1>c, EditIsStale
<1>1. ASSUME Noticed(k) PROVE Noticed(k)' \/ InHand(k)'
  <2>1. CASE StartSync(k)
    <3>1. sync'.pc = "activate" /\ sync'.rd = k
      BY <1>0, <2>1, LatestBegins DEF StartSync
    <3> QED BY <3>1 DEF InHand
  <2> QED BY <1>0, <1>1, <2>1, NoticedStep
<1>2. CASE (SyncDeployment \/ SyncDeploymentFails) /\ sync.rd # k
  <2>1. PICK o \in Rds : o = sync.rd
    BY <1>2 DEF TypeOK, SyncDeployment, SyncDeploymentFails
  <2>2. sync.pc # "idle" /\ Standing(o)
    BY <1>2, <2>1 DEF SerialInv, Syncing, Based, SyncDeployment, SyncDeploymentFails
  <2>3. Elder(o, k)
    BY <1>0, <1>2, <2>1, <2>2, Compared DEF Latest, Standing
  <2> QED BY <1>1, <2>1, <2>2, <2>3 DEF Recalled
<1>3. CASE InHand(k)
  <2>1. CASE SyncDeployment /\ sync.rd = k
    <3>1. rd[k].exists /\ rd' = rd /\ sync.pc # "idle"
      BY <1>0, <2>1 DEF InTurn, OnTime, Sound, Standing, SyncDeployment
    <3>2. deployed' = ResourcesOf(k, sync.own)
      BY <2>1, <3>1 DEF SyncDeployment
    <3>3. CASE sync.own.spec = rd[k].spec
      BY <3>1, <3>2, <3>3 DEF ResourcesOf
    <3>4. CASE sync.own.spec # rd[k].spec
      BY <1>1, <2>1, <3>1, <3>4 DEF Recalled
    <3> QED BY <3>3, <3>4
  <2> QED BY <1>0, <1>3, <2>1, InHandStep DEF Noticed
<1>4. CASE (SyncDeployment \/ SyncDeploymentFails) /\ sync.rd = k
  BY <1>3, <1>4 DEF InHand, SyncDeployment, SyncDeploymentFails
<1>5. ASSUME deployed = ResourcesOf(k, rd[k]), ~SyncDeployment, ~SyncDeploymentFails
      PROVE  deployed' = ResourcesOf(k, rd'[k])
  <2>1. ResourcesOf(k, rd'[k]) = ResourcesOf(k, rd[k])
    BY <1>s DEF ResourcesOf
  <2>2. ASSUME NEW r \in Rds, Delete(r), rd[r].cond = "Inactive" PROVE deployed' = deployed
    <3>1. r # k /\ r # NoRd
      BY <1>0, <2>2, ConstantsAssumption, Zenon DEF Standing
    <3>2. \A c \in Components : deployed[c].rd # r
      BY <1>5, <3>1 DEF ResourcesOf, Nothing
    <3> QED BY <1>5, <2>2, <3>2 DEF Delete, ResourcesOf
  <2>3. CASE Prune
    <3>1. \A r \in sync.todo : r \in Rds /\ rd[r].cond = "Inactive"
      BY <2>3 DEF SerialInv, Syncing, Phased, Prune, TypeOK
    <3> QED BY <1>5, <2>1, <2>2, <2>3, <3>1 DEF Prune
  <2>4. CASE UNCHANGED deployed
    BY <1>5, <2>1, <2>4
  <2> QED BY <1>0, <1>5, <2>3, <2>4, NobodyGivesUp DEF Next, SyncStep, CreateRD, RunnerSeesActive,
             EditRD, OwnedObjectEvent, StartSync, SetActive, SetInactive, SyncStatus,
             MaintainHistoryLimit, SyncFails, Deliver, Crash, RegistrationChanges, Tick, vars
<1> QED BY <1>0, <1>1, <1>2, <1>3, <1>4, <1>5

LEMMA ServedInit == ASSUME OneByOne, TypeOK, SerialInv, Init PROVE Served
<1>1. /\ rd = Rd0 /\ sync = Idle
      /\ \/ \E r \in Rds : rd[r].cond = "Active" /\ deployed = ResourcesOf(r, rd[r])
         \/ (\A r \in Rds : rd[r].cond # "Active") /\ deployed = [c \in Components |-> Nothing]
  BY DEF Init
<1>2. \A r, k \in Rds : Elder(r, k) => rd[r].cond = "Inactive"
  <2> SUFFICES ASSUME NEW r \in Rds, NEW k \in Rds, Elder(r, k) PROVE rd[r].cond = "Inactive"
    OBVIOUS
  <2>1. r # k /\ rd[r].created # 0 /\ rd[k].created # 0
    BY ElderFacts
  <2>2. \A m \in Rds : rd[m] # Absent => rd[m].exists
    BY <1>1 DEF OneByOne
  <2> QED BY <1>1, <2>1, <2>2, AbsentCreated DEF OneByOne, Elder
<1>3. ASSUME NEW k \in Rds, Latest(k)
      PROVE  ~Unfinished(k) /\ deployed = ResourcesOf(k, rd[k])
  <2>1. Standing(k) /\ \A m \in Rds : ~Elder(k, m)
    BY <1>3 DEF Latest
  <2>2. rd[k].cond = "Active"
    <3>1. rd[k] # Absent /\ rd[k] \in Objects
      BY <2>1, AbsentCreated DEF Standing, TypeOK
    <3>2. rd[k].cond # ""
      BY <1>1, <3>1 DEF OneByOne
    <3> QED BY <2>1, <3>1, <3>2, Fields DEF Standing
  <2>3. \A r \in Rds : rd[r].cond = "Active" => r = k
    <3> SUFFICES ASSUME NEW r \in Rds, rd[r].cond = "Active", r # k PROVE FALSE
      OBVIOUS
    <3>1. rd[r].created # 0 /\ rd[k].created # 0
      BY <2>1, SoundFacts DEF Standing, SerialInv, InTurn, OnTime, TypeOK
    <3>2. Elder(r, k)
      BY <2>1, <3>1, Compared DEF SerialInv
    <3> QED BY <1>2, <3>2
  <2> QED BY <1>1, <1>2, <2>2, <2>3 DEF Unfinished, Standing
<1>4. Called /\ Installed
  BY <1>3 DEF Called, Installed
<1>5. Recalled
  BY <1>1, IdleType DEF Recalled
<1> QED BY <1>4, <1>5 DEF Served

LEMMA ServedInvariant == ASSUME OneByOne PROVE Spec => []Served
<1>1. TypeOK /\ SerialInv /\ Init => Served
  BY ServedInit
<1>2. TypeOK /\ TypeOK' /\ PeriodInv /\ SerialInv /\ SerialInv' /\ Served /\ [Next]_vars => Served'
  BY CalledStep, RecalledStep, InstalledStep DEF Served
<1> QED BY TypeCorrect, PeriodInvariant, SerialInvariant, <1>1, <1>2, PTL DEF Spec

(* When nothing is left to do, the cache is what the API server has. *)
LEMMA QuietCalm ==
  ASSUME TypeOK, SerialInv, Served, Quiet, NEW k \in Rds, Latest(k)
  PROVE  ~Unfinished(k) /\ deployed = ResourcesOf(k, rd[k])
<1>1. sync.pc = "idle" /\ pending = {} /\ Len(stream) = 0 /\ 1..0 = {}
  BY EmptySeq DEF Quiet
<1>2. seen[k] = rd[k]
  BY <1>1 DEF SerialInv, Cached, CatchesUp
<1>3. rd[k].exists
  BY DEF SerialInv, InTurn, OnTime, Sound, Latest, Standing
<1>4. ~Noticed(k)
  BY <1>1, <1>2, <1>3 DEF Noticed, Stale
<1> QED BY <1>1, <1>4 DEF Served, Called, Installed, Attended, InHand

(* When pipelines follow each other and the operator has nothing left to do, the
   newest RadixDeployment is active: whatever cache lag, conflict, failed call or
   restart came between, no Sync of it was forgotten. *)
THEOREM NewestIsActiveHolds == ASSUME OneByOne PROVE Spec => []NewestIsActive
<1>1. TypeOK /\ SerialInv /\ Served => NewestIsActive
  <2> SUFFICES ASSUME TypeOK, SerialInv, Served, Quiet, NEW r \in Rds, Newest(r) PROVE Active(r)
    BY DEF NewestIsActive
  <2>1. \A m \in Rds : rd[m] \in Objects /\ Sound(rd[m]) /\ rd[m].created \in Nat
    BY RdType DEF SerialInv, InTurn, OnTime
  <2>2. rd[r].exists /\ rd[r].created # 0
    BY <2>1, SoundFacts DEF Newest
  <2>3. PICK n \in Rds : Latest(n)
    BY <2>2 DEF SerialInv, InTurn, Headed
  <2>4. rd[n].exists /\ rd[n].created # 0
    BY <2>1, <2>3 DEF Latest, Standing, Sound
  <2>5. n = r
    <3> SUFFICES ASSUME n # r PROVE FALSE
      OBVIOUS
    <3>1. Elder(r, n)
      BY <2>2, <2>3, <2>4, Compared DEF SerialInv, Latest
    <3>2. rd[n].created <= rd[r].created
      BY <2>4 DEF Newest, Existing
    <3> QED BY <2>1, <3>1, <3>2, Order DEF Elder
  <2>6. rd[r].cond # "" /\ rd[r].cond # "Inactive"
    BY <2>3, <2>5, QuietCalm DEF Unfinished, Latest, Standing
  <2> QED BY <2>1, <2>2, <2>6, Fields DEF Active
<1> QED BY TypeCorrect, SerialInvariant, ServedInvariant, <1>1, PTL

(* ... it is the only active one, and the resources of the environment are those of
   its current spec: no edit was lost, and no older Sync has deployed over it. *)
THEOREM ActiveIsDeployedHolds == ASSUME OneByOne PROVE Spec => []ActiveIsDeployed
<1>1. TypeOK /\ SerialInv /\ Served => ActiveIsDeployed
  <2> SUFFICES ASSUME TypeOK, SerialInv, Served, Quiet, NEW r \in Rds, Active(r)
               PROVE  (\A k \in Rds \ {r} : ~Active(k)) /\ deployed = ResourcesOf(r, rd[r])
    BY DEF ActiveIsDeployed
  <2>1. \A m \in Rds : Active(m) => Standing(m)
    BY SoundFacts DEF SerialInv, InTurn, OnTime, TypeOK, Active, Standing
  <2>2. PICK n \in Rds : Latest(n)
    BY <2>1 DEF SerialInv, InTurn, Headed, Standing
  <2>3. ASSUME NEW m \in Rds, Active(m) PROVE m = n
    <3> SUFFICES ASSUME m # n PROVE FALSE
      OBVIOUS
    <3>1. Elder(m, n)
      BY <2>1, <2>2, <2>3, Compared DEF SerialInv, Latest, Standing
    <3> QED BY <2>1, <2>2, <2>3, <3>1, QuietCalm DEF Unfinished
  <2> QED BY <2>2, <2>3, QuietCalm
<1> QED BY TypeCorrect, SerialInvariant, ServedInvariant, <1>1, PTL
=============================================================================
