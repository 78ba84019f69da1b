------------------------ MODULE PipelineOutcomeProofs ------------------------
(***************************************************************************)
(* Proofs about how deployment pipelines end: what one that succeeds has   *)
(* deployed, and what one that fails leaves behind, for any environments,  *)
(* any pipelines that run together in any way, and any number of faults.   *)
(***************************************************************************)
EXTENDS PipelineRunnerProofs

Deploying(r) == r.args.type \in {"build-deploy", "deploy"}

(* Places a deployment pipeline passes before it deploys. *)
NotYet == {"asked", "read", "images", "apply", "build"}

(* In the RadixDeployments s: those that job j created in e. *)
Mine(s, j, e) == {i \in DOMAIN s[e] : s[e][i].job = j}

Distinct(seq) == \A i, k \in DOMAIN seq : seq[i] = seq[k] => i = k

(* The environments that a run has yet to create a RadixDeployment in. *)
Ahead(r) == IF r.pc = "wait" THEN Members(Tail(r.todo)) ELSE Members(r.todo)

Awaited(r, e) == r.pc = "wait" /\ e = Head(r.todo)

(* What is created is created when it is due, from what the run has read, and is new
   only where the run waits for it. *)
Accounted(s, j, r, e, i) ==
  /\ r.pc \notin NotYet
  /\ s[e][i].commit = r.commit /\ s[e][i].conf = r.conf
  /\ r.pc \in {"deploy", "wait"} => e \notin Ahead(r)
  /\ s[e][i].cond = "New" => r.pc \in {"killed", "undeleted"} \/ Awaited(r, e)

MineSound(s, j, r) ==
  \A e \in Environments : \A i \in Mine(s, j, e) :
    Accounted(s, j, r, e, i) /\ \A k \in Mine(s, j, e) : k = i

Was == {"Active", "Inactive"}

Served(s, j, e) == \E i \in Mine(s, j, e) : s[e][i].cond \in Was

(* Every target environment is either still to do or has been deployed to. *)
Reached(s, j, r) ==
  r.pc \in {"build", "deploy", "wait", "succeeded"} =>
    \A e \in TargetsOf(r) : (r.pc # "succeeded" /\ e \in Members(r.todo)) \/ Served(s, j, e)

Elsewhere == {"promote", "config", "create", "await"}

(* Where deployment pipeline j is, and what it has left in the environments. *)
Outcome(s, j, r) ==
  /\ r.pc \notin Elsewhere
  /\ r.pc \in {"build", "deploy", "wait"} => Distinct(r.todo)
  /\ MineSound(s, j, r)
  /\ Reached(s, j, r)

OInv == \A j \in Jobs : Deploying(run[j]) => Outcome(rds, j, run[j])

-----------------------------------------------------------------------------
LEMMA MappedDistinct ==
  ASSUME NEW conf \in Configs
  PROVE  Distinct(Mapped[conf])
BY ConstantsAssumption, Zenon DEF Distinct

LEMMA TargetsDistinct ==
  ASSUME NEW args \in Arguments, NEW conf \in Configs
  PROVE  Distinct(Targets(args, conf))
<1>1. Distinct(<<>>)
  BY DEF Distinct
<1>2. Distinct(<<args.to>>)
  BY DEF Distinct
<1>3. Targets(args, conf) \in {<<>>, <<args.to>>, Mapped[conf]}
  BY DEF Targets
<1> QED BY <1>1, <1>2, <1>3, MappedDistinct

LEMMA TailDistinct ==
  ASSUME NEW s \in Seq(Environments), s # <<>>, Distinct(s)
  PROVE  /\ Distinct(Tail(s)) /\ Head(s) \notin Members(Tail(s))
         /\ Members(s) = {Head(s)} \cup Members(Tail(s))
<1>1. /\ Tail(s) \in Seq(Environments) /\ Len(s) \in Nat \ {0} /\ Head(s) = s[1]
      /\ DOMAIN s = 1..Len(s) /\ DOMAIN Tail(s) = 1..(Len(s) - 1)
  OBVIOUS
<1>2. \A i \in DOMAIN Tail(s) : Tail(s)[i] = s[i + 1] /\ i + 1 \in DOMAIN s
  BY <1>1
<1>3. Distinct(Tail(s))
  <2> SUFFICES ASSUME NEW i \in DOMAIN Tail(s), NEW k \in DOMAIN Tail(s), Tail(s)[i] = Tail(s)[k]
               PROVE  i = k
    BY DEF Distinct
  <2>1. i + 1 = k + 1
    BY <1>2 DEF Distinct
  <2> QED BY <1>1, <2>1
<1>4. Head(s) \notin Members(Tail(s))
  <2> SUFFICES ASSUME NEW i \in DOMAIN Tail(s), Tail(s)[i] = s[1] PROVE FALSE
    BY <1>1 DEF Members
  <2>1. i + 1 = 1
    BY <1>1, <1>2 DEF Distinct
  <2> QED BY <1>1, <2>1
<1>5. \A i \in DOMAIN s : s[i] = Head(s) \/ s[i] \in Members(Tail(s))
  <2> SUFFICES ASSUME NEW i \in DOMAIN s, i # 1 PROVE s[i] \in Members(Tail(s))
    BY <1>1
  <2>1. i - 1 \in DOMAIN Tail(s) /\ Tail(s)[i - 1] = s[i]
    BY <1>1
  <2> QED BY <2>1 DEF Members
<1>6. Members(s) = {Head(s)} \cup Members(Tail(s))
  <2>1. Head(s) \in Members(s) /\ Members(Tail(s)) \subseteq Members(s)
    BY TailMembers
  <2> QED BY <1>5, <2>1 DEF Members
<1> QED BY <1>3, <1>4, <1>6

-----------------------------------------------------------------------------
(* The RadixDeployments of job k when others do something, or the operator: they stay,
   and may become active or inactive. *)
Evolves(s, t, k) ==
  \A e \in Environments :
    /\ Mine(t, k, e) = Mine(s, k, e)
    /\ \A i \in Mine(s, k, e) :
         /\ t[e][i].commit = s[e][i].commit /\ t[e][i].conf = s[e][i].conf
         /\ t[e][i].cond = s[e][i].cond \/ t[e][i].cond \in Was

LEMMA EvolvesKeeps ==
  ASSUME NEW s, NEW t, NEW k \in Jobs, NEW r \in Runs, Outcome(s, k, r), Evolves(s, t, k)
  PROVE  Outcome(t, k, r)
<1>1. ASSUME NEW e \in Environments, NEW i \in Mine(t, k, e)
      PROVE  Accounted(t, k, r, e, i) /\ \A h \in Mine(t, k, e) : h = i
  <2>1. /\ i \in Mine(s, k, e) /\ Mine(t, k, e) = Mine(s, k, e)
        /\ t[e][i].commit = s[e][i].commit /\ t[e][i].conf = s[e][i].conf
        /\ t[e][i].cond = "New" => s[e][i].cond = "New"
    BY <1>1 DEF Evolves, Was
  <2>2. Accounted(s, k, r, e, i) /\ \A h \in Mine(s, k, e) : h = i
    BY <2>1 DEF Outcome, MineSound
  <2> QED BY <2>1, <2>2 DEF Accounted
<1>2. ASSUME NEW e \in Environments, Served(s, k, e) PROVE Served(t, k, e)
  BY <1>2 DEF Served, Evolves, Was
<1>3. TargetsOf(r) \subseteq Environments
  <2>1. r.args \in Arguments /\ r.conf \in Configs
    BY RunParts
  <2> QED BY <2>1, TargetsTyped DEF TargetsOf
<1>4. Reached(t, k, r)
  BY <1>2, <1>3 DEF Outcome, Reached
<1> QED BY <1>1, <1>4 DEF Outcome, MineSound

(* Where the run goes while nothing is deployed. *)
LEMMA NothingYet ==
  ASSUME NEW s, NEW j \in Jobs, NEW r, NEW q, Outcome(s, j, r), r.pc \in NotYet,
         q.pc \notin Elsewhere,
         q.pc \in {"build", "deploy", "wait", "succeeded"} =>
           Distinct(q.todo) /\ TargetsOf(q) \subseteq Members(q.todo) /\ q.pc # "succeeded"
  PROVE  Outcome(s, j, q)
<1>1. \A e \in Environments : Mine(s, j, e) = {}
  BY DEF Outcome, MineSound, Accounted
<1>2. MineSound(s, j, q)
  BY <1>1 DEF MineSound
<1>3. Reached(s, j, q)
  BY DEF Reached
<1> QED BY <1>2, <1>3 DEF Outcome

(* A run that ends. *)
LEMMA EndOutcome ==
  ASSUME NEW s, NEW j \in Jobs, NEW r, NEW q, Outcome(s, j, r),
         q.commit = r.commit, q.conf = r.conf, r.pc # "wait" \/ q.pc \in {"killed", "undeleted"},
         r.pc \notin {"killed", "undeleted"},
         q.pc \in {"failed", "stopped", "killed", "undeleted"}
  PROVE  Outcome(s, j, q)
<1>1. ASSUME NEW e \in Environments, NEW i \in Mine(s, j, e)
      PROVE  Accounted(s, j, q, e, i) /\ \A h \in Mine(s, j, e) : h = i
  <2>1. Accounted(s, j, r, e, i) /\ \A h \in Mine(s, j, e) : h = i
    BY <1>1 DEF Outcome, MineSound
  <2> QED BY <2>1 DEF Accounted, NotYet, Awaited
<1>2. MineSound(s, j, q)
  BY <1>1 DEF MineSound
<1> QED BY <1>2 DEF Outcome, Reached, Elsewhere

(* A run that builds or has built. *)
LEMMA BuildOutcome ==
  ASSUME NEW s, NEW j \in Jobs, NEW r \in Runs, NEW q, Outcome(s, j, r), r.pc = "build",
         q.args = r.args, q.conf = r.conf, q.todo = r.todo, q.pc \in {"build", "deploy"}
  PROVE  Outcome(s, j, q)
<1>1. TargetsOf(q) = TargetsOf(r) /\ TargetsOf(r) \subseteq Environments
  <2>1. r.args \in Arguments /\ r.conf \in Configs
    BY RunParts
  <2> QED BY <2>1, TargetsTyped DEF TargetsOf
<1>2. \A e \in Environments : Mine(s, j, e) = {}
  BY DEF Outcome, MineSound, Accounted, NotYet
<1>3. TargetsOf(r) \subseteq Members(r.todo)
  BY <1>1, <1>2 DEF Outcome, Reached, Served
<1>4. Distinct(r.todo)
  BY DEF Outcome
<1>5. r.pc \in NotYet /\ q.pc \notin Elsewhere
  BY DEF NotYet, Elsewhere
<1> QED BY <1>1, <1>3, <1>4, <1>5, NothingYet

(* The last environment is done. *)
LEMMA SuccessOutcome ==
  ASSUME NEW s, NEW j \in Jobs, NEW r \in Runs, NEW q, Outcome(s, j, r), r.pc = "deploy",
         r.todo = <<>>, q.args = r.args, q.conf = r.conf, q.commit = r.commit, q.pc = "succeeded"
  PROVE  Outcome(s, j, q)
<1>1. ASSUME NEW e \in Environments, NEW i \in Mine(s, j, e)
      PROVE  Accounted(s, j, q, e, i) /\ \A h \in Mine(s, j, e) : h = i
  <2>1. Accounted(s, j, r, e, i) /\ \A h \in Mine(s, j, e) : h = i
    BY <1>1 DEF Outcome, MineSound
  <2> QED BY <2>1 DEF Accounted, NotYet, Awaited
<1>2. MineSound(s, j, q)
  BY <1>1 DEF MineSound
<1>3. Members(r.todo) = {}
  BY DEF Members
<1>4. Reached(s, j, q)
  <2>1. TargetsOf(q) = TargetsOf(r)
    BY DEF TargetsOf
  <2> QED BY <1>3, <2>1 DEF Outcome, Reached
<1> QED BY <1>2, <1>4 DEF Outcome, Elsewhere

(* The RadixDeployment of the next environment is created. *)
LEMMA CreateOutcome ==
  ASSUME NEW s \in [Environments -> Seq(Deployments)], NEW t, NEW j \in Jobs,
         NEW r \in Runs, NEW q, NEW x \in Deployments,
         Outcome(s, j, r), r.pc = "deploy", r.todo # <<>>,
         x.job = j, x.commit = r.commit, x.conf = r.conf,
         \A f \in Environments \ {Head(r.todo)} : t[f] = s[f],
         t[Head(r.todo)] = Append(s[Head(r.todo)], x),
         q.args = r.args, q.conf = r.conf, q.commit = r.commit, q.todo = r.todo, q.pc = "wait"
  PROVE  /\ Outcome(t, j, q)
         /\ \A k \in Jobs \ {j} : Evolves(s, t, k)
<1> DEFINE e == Head(r.todo)
           n == Len(s[e]) + 1
<1>1. r.todo \in Seq(Environments) /\ e \in Environments /\ s[e] \in Seq(Deployments)
  <2>1. r.todo \in Seq(Environments)
    BY RunParts
  <2>2. e \in Environments
    BY <2>1
  <2> QED BY <2>1, <2>2
<1>2. /\ DOMAIN s[e] = 1..Len(s[e]) /\ Len(s[e]) \in Nat
      /\ DOMAIN t[e] = DOMAIN s[e] \cup {n} /\ n \notin DOMAIN s[e]
      /\ t[e][n] = x /\ \A i \in DOMAIN s[e] : t[e][i] = s[e][i]
  BY <1>1
<1>3. Distinct(r.todo)
  BY DEF Outcome
<1>4. e \notin Members(Tail(r.todo)) /\ Members(r.todo) = {e} \cup Members(Tail(r.todo))
  BY <1>1, <1>3, TailDistinct
<1> HIDE DEF e, n
<1>5. Mine(s, j, e) = {}
  <2>1. \A i \in Mine(s, j, e) : e \notin Members(r.todo)
    BY <1>1 DEF Outcome, MineSound, Accounted, Ahead
  <2> QED BY <1>4, <2>1
<1>6. Mine(t, j, e) = {n}
  BY <1>2, <1>5 DEF Mine
<1>7. \A f \in Environments \ {e} : t[f] = s[f]
  BY DEF e
<1>8. ASSUME NEW f \in Environments, NEW i \in Mine(t, j, f)
      PROVE  Accounted(t, j, q, f, i) /\ \A h \in Mine(t, j, f) : h = i
  <2>1. CASE f = e
    <3>1. i = n
      BY <1>6, <1>8, <2>1
    <3>2. Accounted(t, j, q, e, n)
      BY <1>2, <1>4 DEF Accounted, Ahead, Awaited, NotYet, e
    <3> QED BY <1>6, <2>1, <3>1, <3>2
  <2>2. CASE f # e
    <3>1. Mine(t, j, f) = Mine(s, j, f) /\ t[f] = s[f]
      BY <1>7, <2>2 DEF Mine
    <3>2. Accounted(s, j, r, f, i) /\ \A h \in Mine(s, j, f) : h = i
      BY <1>8, <3>1 DEF Outcome, MineSound
    <3>3. Members(Tail(r.todo)) \subseteq Members(r.todo)
      BY <1>4
    <3> QED BY <3>1, <3>2, <3>3 DEF Accounted, Ahead, Awaited, NotYet
  <2> QED BY <2>1, <2>2
<1>9. Reached(t, j, q)
  <2>1. TargetsOf(q) = TargetsOf(r)
    BY DEF TargetsOf
  <2>2. ASSUME NEW f \in TargetsOf(r), f \notin Members(r.todo) PROVE Served(t, j, f)
    <3>1. Served(s, j, f)
      BY <2>2 DEF Outcome, Reached
    <3>2. f \in Environments /\ f # e
      <4>1. r.args \in Arguments /\ r.conf \in Configs
        BY RunParts
      <4> QED BY <1>4, <2>2, <4>1, TargetsTyped DEF TargetsOf
    <3> QED BY <1>7, <3>1, <3>2 DEF Served, Mine
  <2> QED BY <2>1, <2>2 DEF Reached
<1>10. Outcome(t, j, q)
  <2>1. MineSound(t, j, q)
    BY <1>8 DEF MineSound
  <2> QED BY <1>3, <1>9, <2>1 DEF Outcome, Elsewhere
<1>11. ASSUME NEW k \in Jobs \ {j} PROVE Evolves(s, t, k)
  <2>1. ASSUME NEW f \in Environments
        PROVE  Mine(t, k, f) = Mine(s, k, f) /\ \A i \in Mine(s, k, f) : t[f][i] = s[f][i]
    <3>1. CASE f = e
      BY <1>2, <3>1 DEF Mine
    <3>2. CASE f # e
      BY <1>7, <3>2 DEF Mine
    <3> QED BY <3>1, <3>2
  <2> QED BY <2>1 DEF Evolves
<1> QED BY <1>10, <1>11

(* What the run waits for has become active, or was. *)
LEMMA SeenOutcome ==
  ASSUME NEW s \in [Environments -> Seq(Deployments)], NEW j \in Jobs, NEW r \in Runs, NEW q,
         Outcome(s, j, r), r.pc = "wait", r.todo # <<>>,
         NEW i \in Mine(s, j, Head(r.todo)), s[Head(r.todo)][i].cond \in Was,
         q.args = r.args, q.conf = r.conf, q.commit = r.commit, q.todo = Tail(r.todo), q.pc = "deploy"
  PROVE  Outcome(s, j, q)
<1> DEFINE e == Head(r.todo)
<1>1. r.todo \in Seq(Environments) /\ e \in Environments
  <2>1. r.todo \in Seq(Environments)
    BY RunParts
  <2> QED BY <2>1
<1>2. Distinct(Tail(r.todo)) /\ Members(r.todo) = {e} \cup Members(Tail(r.todo))
      /\ e \notin Members(Tail(r.todo))
  <2>1. Distinct(r.todo)
    BY DEF Outcome
  <2> QED BY <1>1, <2>1, TailDistinct
<1>3. Served(s, j, e)
  BY DEF Served
<1>4. ASSUME NEW f \in Environments, NEW h \in Mine(s, j, f)
      PROVE  Accounted(s, j, q, f, h) /\ \A g \in Mine(s, j, f) : g = h
  <2>1. Accounted(s, j, r, f, h) /\ \A g \in Mine(s, j, f) : g = h
    BY <1>4 DEF Outcome, MineSound
  <2>2. s[f][h].cond # "New"
    <3>1. CASE f = e
      <4>1. h = i
        BY <2>1, <3>1
      <4> QED BY <3>1, <4>1 DEF Was
    <3>2. CASE f # e
      BY <2>1, <3>2 DEF Accounted, Awaited
    <3> QED BY <3>1, <3>2
  <2> QED BY <2>1, <2>2 DEF Accounted, Ahead, NotYet
<1>5. MineSound(s, j, q)
  BY <1>4 DEF MineSound
<1>6. Reached(s, j, q)
  <2>1. TargetsOf(q) = TargetsOf(r)
    BY DEF TargetsOf
  <2>2. \A f \in TargetsOf(r) : f \in Members(r.todo) \/ Served(s, j, f)
    BY DEF Outcome, Reached
  <2> HIDE DEF e
  <2> QED BY <1>2, <1>3, <2>1, <2>2 DEF Reached
<1> QED BY <1>2, <1>5, <1>6 DEF Outcome, Elsewhere

(* The run gives up and deletes what it created. *)
LEMMA GoneOutcome ==
  ASSUME NEW s \in [Environments -> Seq(Deployments)], NEW t, NEW j \in Jobs, NEW r \in Runs, NEW q,
         Outcome(s, j, r), r.pc = "wait", r.todo # <<>>,
         \A f \in Environments \ {Head(r.todo)} : t[f] = s[f],
         t[Head(r.todo)] = WithGone(j, s[Head(r.todo)]),
         q.conf = r.conf, q.commit = r.commit, q.pc \in {"failed", "stopped"}
  PROVE  /\ Outcome(t, j, q)
         /\ \A k \in Jobs \ {j} : Evolves(s, t, k)
<1> DEFINE e == Head(r.todo)
<1>1. e \in Environments /\ s[e] \in Seq(Deployments)
  <2>1. r.todo \in Seq(Environments)
    BY RunParts
  <2>2. e \in Environments
    BY <2>1
  <2> QED BY <2>2
<1>2. \A f \in Environments \ {e} : t[f] = s[f]
  OBVIOUS
<1>3. /\ DOMAIN t[e] = DOMAIN s[e]
      /\ \A i \in DOMAIN s[e] :
           /\ t[e][i].job = s[e][i].job /\ t[e][i].commit = s[e][i].commit
           /\ t[e][i].conf = s[e][i].conf
           /\ s[e][i].job # j => t[e][i] = s[e][i]
           /\ s[e][i].job = j => t[e][i].cond = "Gone"
  <2>1. \A i \in DOMAIN s[e] : s[e][i] \in Deployments
    BY <1>1, ElementOfSeq
  <2> QED BY <2>1 DEF WithGone, Deployments
<1> HIDE DEF e
<1>4. \A f \in Environments, k \in Jobs : Mine(t, k, f) = Mine(s, k, f)
  <2>1. \A k \in Jobs : Mine(t, k, e) = Mine(s, k, e)
    BY <1>3 DEF Mine
  <2>2. \A f \in Environments \ {e}, k \in Jobs : Mine(t, k, f) = Mine(s, k, f)
    BY <1>2 DEF Mine
  <2> QED BY <2>1, <2>2
<1>5. ASSUME NEW f \in Environments, NEW i \in Mine(t, j, f)
      PROVE  Accounted(t, j, q, f, i) /\ \A h \in Mine(t, j, f) : h = i
  <2>1. i \in Mine(s, j, f) /\ Mine(t, j, f) = Mine(s, j, f)
    BY <1>4, <1>5
  <2>2. Accounted(s, j, r, f, i) /\ \A h \in Mine(s, j, f) : h = i
    BY <2>1 DEF Outcome, MineSound
  <2>3. t[f][i].commit = s[f][i].commit /\ t[f][i].conf = s[f][i].conf /\ t[f][i].cond # "New"
    <3>1. CASE f = e
      <4>1. i \in DOMAIN s[e] /\ s[e][i].job = j
        BY <2>1, <3>1 DEF Mine
      <4> QED BY <1>3, <3>1, <4>1
    <3>2. CASE f # e
      <4>1. s[f][i].cond # "New"
        BY <2>2, <3>2 DEF Accounted, Awaited, e
      <4> QED BY <1>2, <3>2, <4>1
    <3> QED BY <3>1, <3>2
  <2> QED BY <2>1, <2>2, <2>3 DEF Accounted, NotYet
<1>6. Outcome(t, j, q)
  <2>1. MineSound(t, j, q)
    BY <1>5 DEF MineSound
  <2> QED BY <2>1 DEF Outcome, Elsewhere, Reached
<1>7. ASSUME NEW k \in Jobs \ {j} PROVE Evolves(s, t, k)
  <2>1. ASSUME NEW f \in Environments, NEW i \in Mine(s, k, f) PROVE t[f][i] = s[f][i]
    <3>1. CASE f = e
      BY <1>3, <2>1, <3>1 DEF Mine
    <3>2. CASE f # e
      BY <1>2, <3>2
    <3> QED BY <3>1, <3>2
  <2> QED BY <1>4, <2>1 DEF Evolves
<1> QED BY <1>6, <1>7

(* The operator activates a RadixDeployment, or makes it inactive. *)
LEMMA CondEvolves ==
  ASSUME NEW s \in [Environments -> Seq(Deployments)], NEW e \in Environments, NEW i \in DOMAIN s[e],
         NEW cond \in Was, NEW t, t = [s EXCEPT ![e][i].cond = cond], NEW k \in Jobs
  PROVE  Evolves(s, t, k)
<1>1. s[e][i] \in Deployments
  <2>1. s[e] \in Seq(Deployments)
    OBVIOUS
  <2> QED BY <2>1, ElementOfSeq
<1>2. /\ \A f \in Environments \ {e} : t[f] = s[f]
      /\ t[e] = [s[e] EXCEPT ![i] = [s[e][i] EXCEPT !.cond = cond]]
  OBVIOUS
<1>3. cond \in Conditions
  BY DEF Was, Conditions
<1> DEFINE x == [s[e][i] EXCEPT !.cond = cond]
<1>4. x.cond = cond /\ x.commit = s[e][i].commit /\ x.conf = s[e][i].conf /\ x.job = s[e][i].job
  BY <1>1 DEF Deployments
<1> HIDE DEF x
<1>5. /\ DOMAIN t[e] = DOMAIN s[e] /\ t[e][i] = x
      /\ \A h \in DOMAIN s[e] : h # i => t[e][h] = s[e][h]
  BY <1>2 DEF x
<1>6. ASSUME NEW f \in Environments
      PROVE  /\ Mine(t, k, f) = Mine(s, k, f)
             /\ \A h \in Mine(s, k, f) :
                  /\ t[f][h].commit = s[f][h].commit /\ t[f][h].conf = s[f][h].conf
                  /\ t[f][h].cond = s[f][h].cond \/ t[f][h].cond \in Was
  <2>1. CASE f = e
    BY <1>4, <1>5, <2>1 DEF Mine
  <2>2. CASE f # e
    BY <1>2, <2>2 DEF Mine
  <2> QED BY <2>1, <2>2
<1> QED BY <1>6 DEF Evolves

-----------------------------------------------------------------------------
(* What a step of runner j comes to. *)
OutStep(j) ==
  \E q \in Runs :
    /\ run' = [run EXCEPT ![j] = q]
    /\ q.args = run[j].args
    /\ Deploying(q) => Outcome(rds', j, q)
    /\ \A k \in Jobs \ {j} : Deploying(run[k]) => Evolves(rds, rds', k)

LEMMA OutStepKeeps ==
  ASSUME IInv, OInv, NEW j \in Jobs, OutStep(j)
  PROVE  OInv'
<1>1. PICK q \in Runs :
        /\ run' = [run EXCEPT ![j] = q]
        /\ q.args = run[j].args
        /\ Deploying(q) => Outcome(rds', j, q)
        /\ \A k \in Jobs \ {j} : Deploying(run[k]) => Evolves(rds, rds', k)
  BY DEF OutStep
<1>2. run \in [Jobs -> Runs]
  BY TypeParts DEF IInv
<1>3. ASSUME NEW k \in Jobs, Deploying(run'[k]) PROVE Outcome(rds', k, run'[k])
  <2>1. CASE k = j
    BY <1>1, <1>2, <1>3, <2>1
  <2>2. CASE k # j
    <3>1. run'[k] = run[k] /\ run[k] \in Runs
      BY <1>1, <1>2, <2>2
    <3>2. Outcome(rds, k, run[k])
      BY <1>3, <3>1 DEF OInv
    <3>3. Evolves(rds, rds', k)
      BY <1>1, <1>3, <2>2, <3>1
    <3> QED BY <3>1, <3>2, <3>3, EvolvesKeeps
  <2> QED BY <2>1, <2>2
<1> QED BY <1>3, Zenon DEF OInv, Deploying, Outcome, MineSound, Accounted, Mine, Ahead, Awaited, Reached,
     Served, Distinct, TargetsOf

(* Nothing of the RadixDeployments changes. *)
LEMMA SameEvolves ==
  ASSUME NEW s, NEW k PROVE Evolves(s, s, k)
BY DEF Evolves

LEMMA QuietStep ==
  ASSUME NEW j \in Jobs, NEW q \in Runs, run' = [run EXCEPT ![j] = q], q.args = run[j].args,
         UNCHANGED rds, Deploying(run[j]) => Outcome(rds, j, q)
  PROVE  OutStep(j)
<1>1. Deploying(q) <=> Deploying(run[j])
  BY DEF Deploying
<1>2. rds' = rds
  OBVIOUS
<1>3. \A k \in Jobs \ {j} : Evolves(rds, rds', k)
  BY <1>2, SameEvolves
<1> QED BY <1>1, <1>2, <1>3 DEF OutStep

LEMMA OutGoto ==
  ASSUME IInv, NEW j \in Jobs, NEW pc \in Places \ {"wait"}, Goto(j, pc), UNCHANGED rds,
         Deploying(run[j]) => Outcome(rds, j, At(run[j], pc))
  PROVE  OutStep(j)
<1>1. TypeOK
  BY DEF IInv
<1>2. /\ run[j] \in Runs /\ At(run[j], pc) \in Runs
      /\ run' = [run EXCEPT ![j] = At(run[j], pc)]
  BY <1>1, GotoIs
<1>3. At(run[j], pc).args = run[j].args
  BY <1>2, AtIs
<1> QED BY <1>2, <1>3, QuietStep

LEMMA RunOf ==
  ASSUME IInv, OInv, NEW j \in Jobs
  PROVE  /\ TypeOK /\ run[j] \in Runs /\ WellFormed(run[j]) /\ Local(run[j])
         /\ rds \in [Environments -> Seq(Deployments)]
         /\ run[j].args \in Arguments /\ run[j].conf \in Configs
         /\ run[j].todo \in Seq(Environments)
         /\ Deploying(run[j]) => Outcome(rds, j, run[j])
<1>1. TypeOK /\ run[j] \in Runs /\ WellFormed(run[j]) /\ Local(run[j])
  BY TypeParts DEF IInv
<1>2. rds \in [Environments -> Seq(Deployments)]
  BY <1>1 DEF TypeOK
<1> QED BY <1>1, <1>2, RunParts DEF OInv

LEMMA EarlySteps ==
  ASSUME IInv, OInv, NEW j \in Jobs, Start(j) \/ ReadActive(j) \/ Prepare(j) \/ SetImages(j)
  PROVE  OutStep(j)
<1>1. TypeOK
  BY DEF IInv
<1>2. \E q \in Runs : /\ run' = [run EXCEPT ![j] = q] /\ q.args = run[j].args
                      /\ q.pc \in {"read", "nochange", "images", "failed", "apply"} \/ q.pc = run[j].pc
  <2>1. CASE Start(j)
    BY <1>1, <2>1, StartIs
  <2>2. CASE ReadActive(j)
    BY <1>1, <2>2, ReadActiveIs
  <2>3. CASE Prepare(j)
    <3>1. "nochange" \in Places /\ "images" \in Places
      BY DEF Places, Ended
    <3>2. Goto(j, "nochange") \/ Goto(j, "images")
      BY <2>3 DEF Prepare
    <3>3. \A pc \in {"nochange", "images"} : Goto(j, pc) =>
            /\ At(run[j], pc) \in Runs /\ run' = [run EXCEPT ![j] = At(run[j], pc)]
            /\ At(run[j], pc).args = run[j].args /\ At(run[j], pc).pc = pc
      BY <1>1, <3>1, GotoIs, AtIs
    <3> QED BY <3>2, <3>3
  <2>4. CASE SetImages(j)
    BY <1>1, <2>4, SetImagesIs
  <2> QED BY <2>1, <2>2, <2>3, <2>4
<1>3. UNCHANGED rds /\ run[j].pc \in {"asked", "read", "config", "images"}
  <2>1. UNCHANGED rds
    BY Zenon DEF Start, ReadActive, Prepare, SetImages
  <2>2. ReadActive(j) => run[j].pc \in {"read", "config"}
    BY DEF ReadActive
  <2>3. (Start(j) => run[j].pc = "asked") /\ (Prepare(j) => run[j].pc = "read")
        /\ (SetImages(j) => run[j].pc = "images")
    BY Zenon DEF Start, Prepare, SetImages
  <2> QED BY <2>1, <2>2, <2>3
<1>4. PICK q \in Runs : /\ run' = [run EXCEPT ![j] = q] /\ q.args = run[j].args
                        /\ q.pc \in {"read", "nochange", "images", "failed", "apply"} \/ q.pc = run[j].pc
  BY <1>2
<1>5. ASSUME Deploying(run[j]) PROVE Outcome(rds, j, q)
  <2>1. Outcome(rds, j, run[j])
    BY <1>5, RunOf
  <2>2. run[j].pc \in NotYet
    BY <1>3, <2>1 DEF Outcome, Elsewhere, NotYet
  <2>3. q.pc \notin Elsewhere /\ q.pc \notin {"build", "deploy", "wait", "succeeded"}
    BY <1>3, <1>4, <2>1 DEF Outcome, Elsewhere
  <2> QED BY <2>1, <2>2, <2>3, NothingYet
<1> QED BY <1>3, <1>4, <1>5, QuietStep

LEMMA ApplyOutcome ==
  ASSUME IInv, OInv, NEW j \in Jobs, ApplyRadixApplication(j)
  PROVE  OutStep(j)
<1> DEFINE r == run[j]
           todo == IF r.args.type = "apply-config" THEN Envs[r.conf] ELSE Targets(r.args, r.conf)
           r1 == At(r, AfterApply(r))
           r2 == WithTodo(r1, todo)
<1>1. r \in Runs /\ r.pc = "apply" /\ r.args \in Arguments /\ r.conf \in Configs
  BY RunOf DEF ApplyRadixApplication
<1>2. run' = [run EXCEPT ![j] = r2] /\ UNCHANGED rds
  BY DEF ApplyRadixApplication, At, WithTodo
<1>3. Deploying(r) => Outcome(rds, j, r)
  BY RunOf
<1> HIDE DEF r
<1>4. AfterApply(r) \in Places /\ (Deploying(r) => AfterApply(r) \in {"build", "deploy"})
  <2>1. r.args.type \in Types
    BY <1>1, ArgumentParts
  <2> QED BY <2>1 DEF AfterApply, Places, Deploying
<1>5. todo \in Seq(Environments) /\ (Deploying(r) => todo = Targets(r.args, r.conf))
  BY <1>1, TargetsTyped, Constants DEF Deploying
<1> HIDE DEF todo
<1>6. r1 \in Runs /\ r1.pc = AfterApply(r) /\ r1.args = r.args /\ r1.conf = r.conf
  BY <1>1, <1>4, AtIs
<1> HIDE DEF r1
<1>7. r2 \in Runs /\ r2.pc = AfterApply(r) /\ r2.args = r.args /\ r2.conf = r.conf /\ r2.todo = todo
  BY <1>5, <1>6, WithTodoIs
<1> HIDE DEF r2
<1>8. ASSUME Deploying(r) PROVE Outcome(rds, j, r2)
  <2>1. Distinct(r2.todo) /\ TargetsOf(r2) = Members(r2.todo)
    BY <1>1, <1>5, <1>7, <1>8, TargetsDistinct DEF TargetsOf
  <2>2. r2.pc \in {"build", "deploy"}
    BY <1>4, <1>7, <1>8
  <2>3. r.pc \in NotYet /\ r2.pc \notin Elsewhere /\ r2.pc # "succeeded"
    BY <1>1, <2>2 DEF NotYet, Elsewhere
  <2> QED BY <1>3, <1>8, <2>1, <2>3, NothingYet
<1> QED BY <1>2, <1>7, <1>8, QuietStep DEF r

LEMMA BuildSteps ==
  ASSUME IInv, OInv, NEW j \in Jobs,
         (\E b \in Environments \X Components : Build(j, b)) \/ BuildsDone(j)
  PROVE  OutStep(j)
<1>1. run[j] \in Runs /\ (Deploying(run[j]) => Outcome(rds, j, run[j])) /\ run[j].pc = "build"
  BY RunOf DEF Build, BuildsDone
<1>2. ASSUME NEW b \in Environments \X Components, Build(j, b) PROVE OutStep(j)
  <2> DEFINE q == WithBuilt(run[j], run[j].built \cup {b})
  <2>1. run' = [run EXCEPT ![j] = q] /\ UNCHANGED rds
    BY <1>2 DEF Build, WithBuilt
  <2>2. run[j].built \cup {b} \in SUBSET (Environments \X Components)
    BY <1>1, RunParts
  <2>3. q \in Runs /\ q.pc = "build" /\ q.args = run[j].args /\ q.conf = run[j].conf
        /\ q.todo = run[j].todo
    BY <1>1, <2>2, WithBuiltIs
  <2> HIDE DEF q
  <2>4. Deploying(run[j]) => Outcome(rds, j, q)
    BY <1>1, <2>3, BuildOutcome
  <2> QED BY <2>1, <2>3, <2>4, QuietStep
<1>3. ASSUME BuildsDone(j) PROVE OutStep(j)
  <2>1. UNCHANGED rds /\ Goto(j, IF run[j].args.type = "build" THEN "succeeded" ELSE "deploy")
    BY <1>3 DEF BuildsDone
  <2>2. "succeeded" \in Places \ {"wait"} /\ "deploy" \in Places \ {"wait"}
    BY DEF Places, Ended
  <2>3. CASE run[j].args.type = "build"
    BY <2>1, <2>2, <2>3, OutGoto DEF Deploying
  <2>4. CASE run[j].args.type # "build"
    <3>1. At(run[j], "deploy").pc = "deploy" /\ At(run[j], "deploy").args = run[j].args
          /\ At(run[j], "deploy").conf = run[j].conf /\ At(run[j], "deploy").todo = run[j].todo
      BY <1>1, <2>2, AtIs
    <3>2. Deploying(run[j]) => Outcome(rds, j, At(run[j], "deploy"))
      BY <1>1, <3>1, BuildOutcome
    <3> QED BY <2>1, <2>2, <2>4, <3>2, OutGoto
  <2> QED BY <2>3, <2>4
<1> QED BY <1>2, <1>3

LEMMA DeployOutcome ==
  ASSUME IInv, OInv, NEW j \in Jobs, Deploy(j)
  PROVE  OutStep(j)
<1>1. /\ run[j] \in Runs /\ run[j].pc = "deploy" /\ Local(run[j]) /\ run[j].todo \in Seq(Environments)
      /\ rds \in [Environments -> Seq(Deployments)] /\ TypeOK
  BY RunOf DEF Deploy
<1>2. Outcome(rds, j, run[j]) /\ Deploying(run[j])
  <2>1. Deploying(run[j])
    BY <1>1 DEF Local, Deploying
  <2> QED BY <2>1, RunOf
<1>3. "succeeded" \in Places \ {"wait"} /\ "wait" \in Places
  BY DEF Places, Ended
<1>4. CASE run[j].todo = <<>> /\ Goto(j, "succeeded") /\ UNCHANGED rds
  <2>1. /\ At(run[j], "succeeded").pc = "succeeded" /\ At(run[j], "succeeded").args = run[j].args
        /\ At(run[j], "succeeded").conf = run[j].conf /\ At(run[j], "succeeded").commit = run[j].commit
    BY <1>1, <1>3, AtIs
  <2>2. Outcome(rds, j, At(run[j], "succeeded"))
    BY <1>1, <1>2, <1>4, <2>1, SuccessOutcome
  <2> QED BY <1>3, <1>4, <2>2, OutGoto
<1>5. CASE /\ run[j].todo # <<>> /\ Goto(j, "wait")
           /\ Create(Head(run[j].todo), Construct(j, run[j], Head(run[j].todo)))
  <2> DEFINE e == Head(run[j].todo)
             q == At(run[j], "wait")
             x == Construct(j, run[j], e)
  <2>1. e \in Environments
    BY <1>1, <1>5
  <2>2. /\ q \in Runs /\ run' = [run EXCEPT ![j] = q]
        /\ q.args = run[j].args /\ q.conf = run[j].conf /\ q.commit = run[j].commit
        /\ q.todo = run[j].todo /\ q.pc = "wait"
    BY <1>1, <1>3, <1>5, GotoIs, AtIs
  <2>3. x \in Deployments /\ x.job = j /\ x.commit = run[j].commit /\ x.conf = run[j].conf
    BY <1>1, <2>1, ConstructTyped, ConstructIs
  <2> HIDE DEF q, x
  <2>4. /\ \A f \in Environments \ {e} : rds'[f] = rds[f]
        /\ rds'[e] = Append(rds[e], x)
    <3>1. Create(e, x)
      BY <1>5 DEF x
    <3>2. RdsTyped
      BY <1>1 DEF RdsTyped
    <3> HIDE DEF e
    <3> QED BY <2>1, <2>3, <3>1, <3>2, CreateTyped
  <2>5. Outcome(rds', j, q) /\ \A k \in Jobs \ {j} : Evolves(rds, rds', k)
    BY <1>1, <1>2, <1>5, <2>2, <2>3, <2>4, CreateOutcome
  <2> QED BY <2>2, <2>5 DEF OutStep
<1> QED BY <1>4, <1>5 DEF Deploy

LEMMA SeesActiveOutcome ==
  ASSUME IInv, OInv, NEW j \in Jobs, SeesActive(j)
  PROVE  OutStep(j)
<1>1. /\ run[j] \in Runs /\ run[j].pc = "wait" /\ Local(run[j]) /\ run[j].todo \in Seq(Environments)
      /\ rds \in [Environments -> Seq(Deployments)] /\ TypeOK /\ run[j].todo # <<>>
  BY RunOf DEF SeesActive, WellFormed
<1>2. Outcome(rds, j, run[j])
  <2>1. Deploying(run[j])
    BY <1>1 DEF Local, Deploying
  <2> QED BY <2>1, RunOf
<1> DEFINE e == Head(run[j].todo)
           r1 == At(run[j], "deploy")
           q == WithTodo(r1, Tail(run[j].todo))
<1>3. e \in Environments /\ Tail(run[j].todo) \in Seq(Environments) /\ "deploy" \in Places
  BY <1>1 DEF Places
<1>4. run' = [run EXCEPT ![j] = q] /\ UNCHANGED rds
  BY DEF SeesActive, At, WithTodo
<1>5. PICK i \in Mine(rds, j, e) : rds[e][i].cond \in Was
  <2>1. PICK i \in Made(j, e) : rds[e][i].cond # "New"
    BY Zenon DEF SeesActive
  <2>2. i \in DOMAIN rds[e] /\ rds[e][i].job = j /\ rds[e][i].cond # "Gone"
    BY <2>1 DEF Made
  <2>3. rds[e][i] \in Deployments
    <3>1. rds[e] \in Seq(Deployments)
      BY <1>1, <1>3
    <3> QED BY <2>2, <3>1, ElementOfSeq
  <2>4. rds[e][i].cond \in Was
    BY <2>1, <2>2, <2>3 DEF Deployments, Conditions, Was
  <2>5. i \in Mine(rds, j, e)
    BY <2>2 DEF Mine
  <2> QED BY <2>4, <2>5
<1>6. /\ r1 \in Runs /\ r1.pc = "deploy" /\ r1.args = run[j].args /\ r1.conf = run[j].conf
      /\ r1.commit = run[j].commit
  BY <1>1, <1>3, AtIs
<1> HIDE DEF r1
<1>7. /\ q \in Runs /\ q.pc = "deploy" /\ q.args = run[j].args /\ q.conf = run[j].conf
      /\ q.commit = run[j].commit /\ q.todo = Tail(run[j].todo)
  BY <1>3, <1>6, WithTodoIs
<1> HIDE DEF q
<1>8. Outcome(rds, j, q)
  BY <1>1, <1>2, <1>5, <1>7, SeenOutcome
<1> QED BY <1>4, <1>7, <1>8, QuietStep

LEMMA EndSteps ==
  ASSUME IInv, OInv, NEW j \in Jobs, GiveUp(j) \/ Fail(j) \/ Kill(j)
  PROVE  OutStep(j)
<1>1. TypeOK /\ run[j] \in Runs /\ WellFormed(run[j]) /\ rds \in [Environments -> Seq(Deployments)]
      /\ (Deploying(run[j]) => Outcome(rds, j, run[j]))
  BY RunOf
<1>2. run[j].pc \notin Ended
  BY Zenon DEF GiveUp, Fail, Kill, Ended
<1>3. ASSUME NEW end \in {"failed", "stopped", "killed", "undeleted"}, Goto(j, end)
      PROVE  /\ end \in Places \ {"wait"} /\ At(run[j], end) \in Runs
             /\ run' = [run EXCEPT ![j] = At(run[j], end)]
             /\ At(run[j], end).args = run[j].args /\ At(run[j], end).conf = run[j].conf
             /\ At(run[j], end).commit = run[j].commit /\ At(run[j], end).pc = end
  <2>1. end \in Places \ {"wait"}
    BY DEF Places, Ended
  <2> QED BY <1>1, <1>3, <2>1, GotoIs, AtIs
<1>4. ASSUME NEW end \in {"failed", "stopped", "killed", "undeleted"}, Goto(j, end), UNCHANGED rds,
             run[j].pc # "wait" \/ end \in {"killed", "undeleted"}
      PROVE  OutStep(j)
  <2>1. Deploying(run[j]) => Outcome(rds, j, At(run[j], end))
    BY <1>1, <1>2, <1>3, <1>4, EndOutcome DEF Ended
  <2> QED BY <1>3, <1>4, <2>1, QuietStep
<1>5. CASE Fail(j)
  BY <1>4, <1>5 DEF Fail
<1>6. CASE Kill(j)
  BY <1>4, <1>6 DEF Kill
<1>7. ASSUME NEW end \in {"failed", "stopped"}, Goto(j, end), run[j].pc = "wait",
             rds' = [rds EXCEPT ![Head(run[j].todo)] = WithGone(j, rds[Head(run[j].todo)])]
      PROVE  OutStep(j)
  <2> DEFINE e == Head(run[j].todo)
             q == At(run[j], end)
  <2>1. run[j].todo # <<>> /\ e \in Environments
    <3>1. run[j].todo # <<>> /\ run[j].todo \in Seq(Environments)
      BY <1>1, <1>7, RunParts DEF WellFormed
    <3> QED BY <3>1
  <2>2. /\ \A f \in Environments \ {e} : rds'[f] = rds[f]
        /\ rds'[e] = WithGone(j, rds[e])
    BY <1>1, <1>7, <2>1
  <2>3. /\ q \in Runs /\ run' = [run EXCEPT ![j] = q] /\ q.args = run[j].args
        /\ q.conf = run[j].conf /\ q.commit = run[j].commit /\ q.pc = end
    BY <1>3, <1>7
  <2> HIDE DEF q
  <2>4. CASE Deploying(run[j])
    <3>1. Outcome(rds', j, q) /\ \A k \in Jobs \ {j} : Evolves(rds, rds', k)
      BY <1>1, <1>7, <2>1, <2>2, <2>3, <2>4, GoneOutcome
    <3> QED BY <2>3, <3>1 DEF OutStep
  <2>5. CASE ~Deploying(run[j])
    <3>1. Local(run[j])
      BY RunOf
    <3> QED BY <1>7, <2>5, <3>1 DEF Local, Deploying
  <2> QED BY <2>4, <2>5
<1>8. CASE GiveUp(j)
  <2>1. run[j].pc = "wait"
    BY <1>8 DEF GiveUp
  <2>2. \/ Goto(j, "undeleted") /\ UNCHANGED rds
        \/ /\ \E end \in {"failed", "stopped"} : Goto(j, end)
           /\ rds' = [rds EXCEPT ![Head(run[j].todo)] = WithGone(j, rds[Head(run[j].todo)])]
    BY <1>8 DEF GiveUp, WithGone
  <2> QED BY <1>4, <1>7, <2>1, <2>2
<1> QED BY <1>5, <1>6, <1>8

(* Other pipelines create RadixDeployments, too, but not those of deployment pipelines. *)
LEMMA OtherCreates ==
  ASSUME NEW s \in [Environments -> Seq(Deployments)], NEW t, NEW e \in Environments, NEW x,
         \A f \in Environments \ {e} : t[f] = s[f], t[e] = Append(s[e], x), NEW k, x.job # k
  PROVE  Evolves(s, t, k)
<1>1. /\ DOMAIN s[e] = 1..Len(s[e]) /\ Len(s[e]) \in Nat
      /\ DOMAIN t[e] = DOMAIN s[e] \cup {Len(s[e]) + 1} /\ t[e][Len(s[e]) + 1] = x
      /\ Len(s[e]) + 1 \notin DOMAIN s[e] /\ \A i \in DOMAIN s[e] : t[e][i] = s[e][i]
  OBVIOUS
<1>2. ASSUME NEW f \in Environments
      PROVE  Mine(t, k, f) = Mine(s, k, f) /\ \A i \in Mine(s, k, f) : t[f][i] = s[f][i]
  <2>1. CASE f = e
    BY <1>1, <2>1 DEF Mine
  <2>2. CASE f # e
    BY <2>2 DEF Mine
  <2> QED BY <2>1, <2>2
<1> QED BY <1>2 DEF Evolves

(* What a pipeline that is not a deployment pipeline does. *)
LEMMA OtherStep ==
  ASSUME IInv, OInv, NEW j \in Jobs, RunStep(j), ~Deploying(run[j]),
         UNCHANGED rds \/ \E e \in Environments, x \in Deployments : x.job = j /\ Create(e, x)
  PROVE  OutStep(j)
<1>1. PICK q \in Runs : run' = [run EXCEPT ![j] = q] /\ q.args = run[j].args
  BY DEF RunStep
<1>2. ~Deploying(q)
  BY <1>1 DEF Deploying
<1>3. ASSUME NEW k \in Jobs \ {j} PROVE Evolves(rds, rds', k)
  <2>1. CASE UNCHANGED rds
    <3>1. rds' = rds
      BY <2>1
    <3> QED BY <3>1, SameEvolves
  <2>2. CASE \E e \in Environments, x \in Deployments : x.job = j /\ Create(e, x)
    <3>1. PICK e \in Environments, x \in Deployments : x.job = j /\ Create(e, x)
      BY <2>2
    <3>2. RdsTyped /\ rds \in [Environments -> Seq(Deployments)]
      BY RunOf DEF RdsTyped
    <3>3. (\A f \in Environments \ {e} : rds'[f] = rds[f]) /\ rds'[e] = Append(rds[e], x)
      BY <3>1, <3>2, CreateTyped
    <3> QED BY <3>1, <3>2, <3>3, OtherCreates
  <2> QED BY <2>1, <2>2
<1> QED BY <1>1, <1>2, <1>3 DEF OutStep

LEMMA PromoteCreates ==
  ASSUME IInv, OInv, NEW j \in Jobs, Promote(j)
  PROVE  UNCHANGED rds \/ \E e \in Environments, x \in Deployments : x.job = j /\ Create(e, x)
<1> DEFINE r == run[j]
<1>1. TypeOK /\ r \in Runs /\ Local(r)
  BY RunOf
<1>2. r.pc = "promote"
  BY Zenon DEF Promote
<1>3. r.args.to \in Environments /\ r.args.from \in Environments
  <2>1. r.args.type = "promote"
    BY <1>1, <1>2 DEF Local
  <2> QED BY <1>1, <2>1, RunParts, ArgumentParts
<1>4. ASSUME NEW rd \in Members(rds[r.args.from])
      PROVE  /\ CopyOf(rd, j, PromotedComps(rd, r.args.to)) \in Deployments
             /\ CopyOf(rd, j, PromotedComps(rd, r.args.to)).job = j
  <2>1. rd \in Deployments
    BY <1>1, <1>3, MembersTyped DEF TypeOK
  <2> QED BY <1>1, <2>1, PromotedTyped, CopyIs
<1>5. \/ UNCHANGED rds
      \/ \E rd \in Members(rds[r.args.from]) :
           Create(r.args.to, CopyOf(rd, j, PromotedComps(rd, r.args.to)))
  BY Zenon DEF Promote, CopyOf, PromotedComps, NewSettings
<1> QED BY <1>3, <1>4, <1>5

LEMMA ApplyDeploymentCreates ==
  ASSUME IInv, OInv, NEW j \in Jobs, ApplyDeployment(j)
  PROVE  UNCHANGED rds \/ \E e \in Environments, x \in Deployments : x.job = j /\ Create(e, x)
<1> DEFINE r == run[j]
           e == Head(r.todo)
<1>1. r \in Runs /\ r.todo \in Seq(Environments)
  BY RunOf
<1>2. \/ UNCHANGED rds
      \/ r.todo # <<>> /\ r.base[e] # NoRd /\ Create(e, Redeployed(j, r, e))
  BY Zenon DEF ApplyDeployment, Candidates
<1>3. ASSUME r.todo # <<>>, r.base[e] # NoRd, Create(e, Redeployed(j, r, e))
      PROVE  e \in Environments /\ Redeployed(j, r, e) \in Deployments /\ Redeployed(j, r, e).job = j
  <2>1. e \in Environments
    BY <1>1, <1>3
  <2> HIDE DEF e, r
  <2>2. r.base[e] \in Deployments
    BY <1>1, <1>3, <2>1, RunParts
  <2>3. RedeployedComps(r, e) \in [Components -> DeployComponents \cup {Missing}]
    BY <2>2, RedeployedTyped
  <2> QED BY <2>1, <2>2, <2>3, RedeployedIs, CopyIs
<1> QED BY <1>2, <1>3

LEMMA OtherSteps ==
  ASSUME IInv, OInv, NEW j \in Jobs,
         Promote(j) \/ BuildDeployments(j) \/ ApplyDeployment(j) \/ AllActive(j)
  PROVE  OutStep(j)
<1>1. run[j].pc \in Elsewhere
  <2>1. ApplyDeployment(j) \/ Promote(j) \/ BuildDeployments(j) =>
          run[j].pc \in {"create", "promote", "config"}
    BY DEF ApplyDeployment, Promote, BuildDeployments
  <2>2. AllActive(j) => run[j].pc = "await"
    BY DEF AllActive
  <2> QED BY <2>1, <2>2 DEF Elsewhere
<1>2. ~Deploying(run[j])
  BY <1>1, RunOf DEF Outcome
<1>3. RunStep(j)
  BY PromoteStep, BuildDeploymentsStep, ApplyDeploymentStep, AllActiveStep
<1>4. UNCHANGED rds \/ \E e \in Environments, x \in Deployments : x.job = j /\ Create(e, x)
  <2>1. BuildDeployments(j) \/ AllActive(j) => UNCHANGED rds
    BY Zenon DEF BuildDeployments, AllActive
  <2> QED BY <2>1, PromoteCreates, ApplyDeploymentCreates
<1> QED BY <1>2, <1>3, <1>4, OtherStep

-----------------------------------------------------------------------------
LEMMA InitOInv == Init => OInv
<1> SUFFICES ASSUME Init, NEW j \in Jobs, Deploying(run[j]) PROVE Outcome(rds, j, run[j])
  BY DEF OInv
<1> DEFINE M == Members(Mapped[Conf0])
<1>1. /\ \A e \in Environments \cap M : DOMAIN rds[e] = {1} /\ rds[e][1] = OldDeployment(e)
      /\ \A e \in Environments \ M : DOMAIN rds[e] = {}
  <2>1. \A e \in Environments : rds[e] = IF e \in M THEN <<OldDeployment(e)>> ELSE <<>>
    BY DEF Init
  <2>2. \A x : DOMAIN <<x>> = {1} /\ <<x>>[1] = x
    OBVIOUS
  <2>3. DOMAIN <<>> = {}
    OBVIOUS
  <2> HIDE DEF M
  <2> QED BY <2>1, <2>2, <2>3, Zenon
<1> HIDE DEF M
<1>2. ASSUME NEW e \in Environments
      PROVE  /\ OldDeployment(e).job = Old /\ OldDeployment(e).cond = "Active"
             /\ OldDeployment(e).commit = OldRun.commit /\ OldDeployment(e).conf = OldRun.conf
  <2>1. Construct(Old, OldRun, e) \in Deployments
    BY OldRunIs, ConstructTyped, Constants
  <2>2. Construct(Old, OldRun, e).job = Old
    BY ConstructIs
  <2> QED BY <2>1, <2>2, ConstructIs DEF OldDeployment, Deployments, Conditions
<1>3. CASE j # Old
  <2>1. \A e \in Environments : Mine(rds, j, e) = {}
    BY <1>1, <1>2, <1>3 DEF Mine
  <2>2. run[j].pc = "asked"
    <3>1. PICK q \in Requests : run = [k \in Jobs |-> IF k = Old THEN OldRun ELSE NewRun(q[k])]
      BY DEF Init
    <3>2. q[j] \in Arguments
      BY Constants
    <3> QED BY <1>3, <3>1, <3>2, NewRunIs
  <2> QED BY <2>1, <2>2 DEF Outcome, MineSound, Reached, Elsewhere
<1>4. CASE j = Old
  <2>1. run[j] = OldRun
    BY <1>4 DEF Init
  <2>2. /\ OldRun.pc = "succeeded" /\ OldRun.args.type = "build-deploy" /\ OldRun.args.to = NoEnv
        /\ OldRun.conf = Conf0
    BY OldRunIs DEF OldRun, NewRun
  <2>3. TargetsOf(OldRun) = M
    BY <2>2 DEF TargetsOf, Targets, M
  <2>4. M \subseteq Environments
    BY Constants, MembersTyped DEF M
  <2>5. ASSUME NEW e \in Environments PROVE Mine(rds, j, e) = IF e \in M THEN {1} ELSE {}
    BY <1>1, <1>2, <1>4 DEF Mine
  <2>6. MineSound(rds, j, OldRun)
    <3>1. ASSUME NEW e \in Environments, NEW i \in Mine(rds, j, e)
          PROVE  Accounted(rds, j, OldRun, e, i) /\ \A k \in Mine(rds, j, e) : k = i
      <4>1. e \in M /\ i = 1 /\ rds[e][i] = OldDeployment(e)
        BY <1>1, <2>5, <3>1
      <4> QED BY <1>2, <2>2, <2>5, <4>1 DEF Accounted, NotYet
    <3> QED BY <3>1 DEF MineSound
  <2>7. Reached(rds, j, OldRun)
    BY <1>1, <1>2, <2>3, <2>4, <2>5 DEF Reached, Served, Was
  <2> QED BY <2>1, <2>2, <2>6, <2>7 DEF Outcome, Elsewhere
<1> QED BY <1>3, <1>4

LEMMA NextKeepsOInv == IInv /\ OInv /\ [Next]_vars => OInv'
<1> SUFFICES ASSUME IInv, OInv, [Next]_vars PROVE OInv'
  OBVIOUS
<1>1. ASSUME NEW j \in Jobs, RunnerStep(j) \/ GiveUp(j) \/ Fail(j) \/ Kill(j) PROVE OInv'
  <2>1. OutStep(j)
    BY <1>1, EarlySteps, ApplyOutcome, BuildSteps, DeployOutcome, SeesActiveOutcome, EndSteps,
       OtherSteps, Zenon DEF RunnerStep
  <2> QED BY <2>1, OutStepKeeps
<1>2. ASSUME UNCHANGED run, \A k \in Jobs : Evolves(rds, rds', k) PROVE OInv'
  <2>1. ASSUME NEW k \in Jobs, Deploying(run[k]) PROVE Outcome(rds', k, run[k])
    BY <1>2, <2>1, RunOf, EvolvesKeeps
  <2>2. \A k \in Jobs : Deploying(run'[k]) => Outcome(rds', k, run'[k])
    BY <1>2, <2>1
  <2> QED BY <2>2, Zenon DEF OInv, Deploying, Outcome, MineSound, Accounted, Mine, Ahead, Awaited,
       Reached, Served, Distinct, TargetsOf
<1>3. ASSUME NEW e \in Environments, NEW i \in DOMAIN rds[e], Activate(e, i) \/ Inactivate(e, i)
      PROVE  OInv'
  <2>1. PICK cond \in Was : rds' = [rds EXCEPT ![e][i].cond = cond]
    BY <1>3 DEF Activate, Inactivate, Was
  <2>2. rds \in [Environments -> Seq(Deployments)]
    BY TypeParts DEF IInv, TypeOK
  <2>3. UNCHANGED run
    BY <1>3 DEF Activate, Inactivate
  <2>4. \A k \in Jobs : Evolves(rds, rds', k)
    BY <2>1, <2>2, CondEvolves
  <2> QED BY <1>2, <2>3, <2>4
<1>4. CASE UNCHANGED vars
  <2>1. rds' = rds /\ UNCHANGED run
    BY <1>4 DEF vars
  <2> QED BY <1>2, <2>1, SameEvolves
<1> QED BY <1>1, <1>3, <1>4, Zenon DEF Next

(* Both invariants hold in every state. *)
LEMMA Invariants == Spec => [](IInv /\ OInv)
BY InitIInv, NextKeepsIInv, InitOInv, NextKeepsOInv, PTL DEF Spec

LEMMA LeftReported == IInv /\ OInv => LeftIsReported
<1> SUFFICES ASSUME IInv, OInv, NEW e \in Environments, NEW rd \in Members(rds[e]), rd.cond = "New",
                    Deploying(run[rd.job]), run[rd.job].pc \notin {"killed", "undeleted"}
             PROVE  run[rd.job].pc = "wait" /\ e = Head(run[rd.job].todo)
  BY DEF LeftIsReported, Deploying
<1>1. rd.job \in Jobs
  <2>1. rds \in [Environments -> Seq(Deployments)]
    BY TypeParts DEF IInv, TypeOK
  <2>2. rd \in Deployments
    BY <2>1, MembersTyped
  <2> QED BY <2>2 DEF Deployments
<1>2. PICK i \in Mine(rds, rd.job, e) : rds[e][i] = rd
  BY DEF Members, Mine
<1>3. Accounted(rds, rd.job, run[rd.job], e, i)
  BY <1>1, <1>2 DEF OInv, Outcome, MineSound
<1> QED BY <1>2, <1>3 DEF Accounted, Awaited

LEMMA SucceededDeployed == IInv /\ OInv => SucceededIsDeployed
<1> SUFFICES ASSUME IInv, OInv, NoPromotes, NEW j \in Jobs, run[j].pc = "succeeded", Deploying(run[j]),
                    NEW e \in TargetsOf(run[j])
             PROVE  \E rd \in Members(rds[e]) :
                      rd.job = j /\ rd.cond \in {"Active", "Inactive"} /\ AsWanted(run[j], e, rd)
  BY DEF SucceededIsDeployed, Deploying
<1>1. Outcome(rds, j, run[j]) /\ rds \in [Environments -> Seq(Deployments)]
  BY RunOf
<1>2. e \in Environments
  BY RunOf, TargetsTyped DEF TargetsOf
<1>3. PICK i \in Mine(rds, j, e) : rds[e][i].cond \in Was
  BY <1>1 DEF Outcome, Reached, Served
<1> DEFINE rd == rds[e][i]
<1>4. rd \in Members(rds[e]) /\ rd.job = j
  BY <1>3 DEF Members, Mine
<1>5. rd.commit = run[j].commit /\ rd.conf = run[j].conf
  BY <1>1, <1>2, <1>3 DEF Outcome, MineSound, Accounted
<1>6. GoodRd(rd, e) /\ Whole(rd, e)
  BY <1>2, <1>4 DEF IInv, Sound
<1> HIDE DEF rd
<1>7. AsWanted(run[j], e, rd)
  BY <1>5, <1>6 DEF AsWanted, GoodRd, GoodImage, Comparable, Whole
<1> QED BY <1>3, <1>4, <1>7 DEF Was, rd

(* The pipelines that fail, are stopped or end with nothing to do leave no RadixDeployment
   behind that may yet become active (deployToEnv, GiveUp): LeftIsReported, for any
   environments and any number of pipelines. *)
THEOREM LeftIsReportedHolds == Spec => []LeftIsReported
BY Invariants, LeftReported, PTL

(* The pipelines that report success have deployed what they cloned to every target
   environment (the deploy step): SucceededIsDeployed, in general. *)
THEOREM SucceededIsDeployedHolds == Spec => []SucceededIsDeployed
BY Invariants, SucceededDeployed, PTL
=============================================================================
