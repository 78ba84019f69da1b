------------------------- MODULE PipelineRunnerProofs -------------------------
(***************************************************************************)
(* Proofs about pipelines, for any environments, components, commits and   *)
(* configurations, any number of pipelines that run together in any way,   *)
(* and any number of faults.                                               *)
(***************************************************************************)
EXTENDS PipelineRunner, SequenceTheorems, TLAPS

Building == {"build", "build-deploy"}

WellFormed(r) ==
  /\ r.args.type \in Building => r.commit \in Commits
  /\ r.pc = "wait" => r.todo # <<>>

LEMMA Constants ==
  /\ NoJob \notin Jobs /\ NoEnv \notin Environments /\ NoCommit \notin Commits
  /\ NoRd \notin Deployments /\ Missing \notin DeployComponents
  /\ Envs \in [Configs -> Seq(Environments)] /\ Mapped \in [Configs -> Seq(Environments)]
  /\ Old \in Jobs /\ Conf0 \in Configs /\ Commit0 \in Commits /\ Secret0 \in Secrets
  /\ Requests \subseteq [Jobs -> Arguments]
  /\ MaxFaults \in Nat
BY ConstantsAssumption, Zenon

(* What a run is asked for and reads has its type. *)
LEMMA RunParts ==
  ASSUME NEW r \in Runs
  PROVE  /\ r.args \in Arguments /\ r.pc \in Places /\ r.conf \in Configs
         /\ r.commit \in Commits \cup {NoCommit} /\ r.secret \in Secrets
         /\ r.todo \in Seq(Environments)
         /\ r.base \in [Environments -> Deployments \cup {NoRd}]
         /\ r.built \in SUBSET (Environments \X Components)
BY DEF Runs

LEMMA RunMade ==
  ASSUME NEW args \in Arguments, NEW pc \in Places, NEW conf \in Configs,
         NEW commit \in Commits \cup {NoCommit}, NEW secret \in Secrets,
         NEW todo \in Seq(Environments), NEW base \in [Environments -> Deployments \cup {NoRd}],
         NEW built \in SUBSET (Environments \X Components)
  PROVE  [args |-> args, pc |-> pc, conf |-> conf, commit |-> commit, secret |-> secret,
          todo |-> todo, base |-> base, built |-> built] \in Runs
BY DEF Runs

LEMMA ArgumentParts ==
  ASSUME NEW args \in Arguments
  PROVE  /\ args.type \in Types /\ args.commit \in Commits \cup {NoCommit}
         /\ args.to \in Environments \cup {NoEnv} /\ args.from \in Environments \cup {NoEnv}
         /\ args.only \in SUBSET Components
         /\ args.type # "deploy" => args.only = {}
         /\ args.type \in {"deploy", "promote"} => args.to # NoEnv
         /\ args.type = "promote" => args.from # NoEnv
BY DEF Arguments

LEMMA MembersTyped ==
  ASSUME NEW S, NEW s \in Seq(S)
  PROVE  Members(s) \subseteq S
BY ElementOfSeq DEF Members

LEMMA TargetsTyped ==
  ASSUME NEW args \in Arguments, NEW conf \in Configs
  PROVE  /\ Targets(args, conf) \in Seq(Environments)
         /\ Members(Targets(args, conf)) \subseteq Environments
<1>1. /\ Mapped[conf] \in Seq(Environments)
      /\ args.to \in Environments \cup {NoEnv}
      /\ args.type \in {"deploy", "promote"} => args.to # NoEnv
  BY Constants, ArgumentParts
<1>2. args.to \in Environments => <<args.to>> \in Seq(Environments)
  OBVIOUS
<1>3. <<>> \in Seq(Environments)
  OBVIOUS
<1>4. Targets(args, conf) \in Seq(Environments)
  <2>1. CASE args.type \in {"promote", "deploy"} \/ (args.to # NoEnv /\ args.to \in Members(Mapped[conf]))
    BY <1>1, <1>2, <1>3, <2>1 DEF Targets
  <2>2. CASE ~(args.type \in {"promote", "deploy"} \/ (args.to # NoEnv /\ args.to \in Members(Mapped[conf])))
    BY <1>1, <1>3, <2>2 DEF Targets
  <2> QED BY <2>1, <2>2
<1> QED BY <1>4, MembersTyped

LEMMA DeploymentParts ==
  ASSUME NEW rd \in Deployments
  PROVE  /\ rd.job \in Jobs /\ rd.commit \in Commits \cup {NoCommit} /\ rd.conf \in Configs
         /\ rd.secret \in Secrets /\ rd.cond \in Conditions
         /\ rd.comps \in [Components -> DeployComponents \cup {Missing}]
BY DEF Deployments

LEMMA DeploymentMade ==
  ASSUME NEW job \in Jobs, NEW commit \in Commits \cup {NoCommit}, NEW conf \in Configs,
         NEW secret \in Secrets, NEW cond \in Conditions,
         NEW comps \in [Components -> DeployComponents \cup {Missing}]
  PROVE  [job |-> job, commit |-> commit, conf |-> conf, secret |-> secret, cond |-> cond,
          comps |-> comps] \in Deployments
BY DEF Deployments

(* A component that is not built is deployed already. *)
LEMMA ImageTyped ==
  ASSUME NEW j \in Jobs, NEW r \in Runs, NEW e \in Environments, NEW c \in Components
  PROVE  ImageOf(j, r, e, c) \in Images
<1>1. r.base[e] \in Deployments \cup {NoRd}
  BY RunParts
<1>2. c \in Fixed[r.conf][e] => ImageOf(j, r, e, c) \in Images
  BY DEF ImageOf, Images
<1>3. c \notin Fixed[r.conf][e] /\ FromBuild(r, e, c) => ImageOf(j, r, e, c) \in Images
  BY DEF ImageOf, Images
<1>4. ASSUME c \notin Fixed[r.conf][e], ~FromBuild(r, e, c)
      PROVE  ImageOf(j, r, e, c) \in Images
  <2>1. r.base[e] \in Deployments /\ r.base[e].comps[c] # Missing
    BY <1>1, <1>4 DEF FromBuild, Deployed
  <2>2. r.base[e].comps[c] \in DeployComponents
    BY <2>1, DeploymentParts
  <2>3. r.base[e].comps[c].image \in Images
    BY <2>2 DEF DeployComponents
  <2> QED BY <1>4, <2>3 DEF ImageOf
<1> QED BY <1>2, <1>3, <1>4

LEMMA ConstructTyped ==
  ASSUME NEW j \in Jobs, NEW r \in Runs, NEW e \in Environments
  PROVE  Construct(j, r, e) \in Deployments
<1> DEFINE comp(c) ==
      IF c \notin Enabled[r.conf][e] THEN Missing
      ELSE IF c \in Preserved(r, e) THEN r.base[e].comps[c]
      ELSE [image |-> ImageOf(j, r, e, c), conf |-> r.conf, dns |-> c \in Dns[r.conf][e]]
<1>1. ASSUME NEW c \in Components PROVE comp(c) \in DeployComponents \cup {Missing}
  <2>1. [image |-> ImageOf(j, r, e, c), conf |-> r.conf, dns |-> c \in Dns[r.conf][e]]
           \in DeployComponents
    <3>1. ImageOf(j, r, e, c) \in Images /\ r.conf \in Configs
      BY ImageTyped, RunParts
    <3>2. (c \in Dns[r.conf][e]) \in BOOLEAN
      OBVIOUS
    <3> QED BY <3>1, <3>2, Zenon DEF DeployComponents
  <2>2. c \in Preserved(r, e) => r.base[e].comps[c] \in DeployComponents \cup {Missing}
    <3>1. r.base[e] \in Deployments \cup {NoRd}
      BY RunParts
    <3>2. c \in Preserved(r, e) => r.base[e] \in Deployments
      BY <3>1 DEF Preserved, SameConfig
    <3> QED BY <3>2, DeploymentParts
  <2> QED BY <2>1, <2>2, Zenon
<1>2. [c \in Components |-> comp(c)] \in [Components -> DeployComponents \cup {Missing}]
  BY <1>1
<1>3. /\ r.commit \in Commits \cup {NoCommit} /\ r.conf \in Configs /\ r.secret \in Secrets
      /\ "New" \in Conditions
  BY RunParts DEF Conditions
<1>4. [job |-> j, commit |-> r.commit, conf |-> r.conf, secret |-> r.secret, cond |-> "New",
       comps |-> [c \in Components |-> comp(c)]] \in Deployments
  <2> HIDE DEF comp
  <2> QED BY <1>2, <1>3, DeploymentMade
<1> QED BY <1>4, Zenon DEF Construct

(* The updates of a run, and what they leave alone. *)
At(r, pc) == [r EXCEPT !.pc = pc]
WithConf(r, conf) == [r EXCEPT !.conf = conf]
WithCommit(r, commit) == [r EXCEPT !.commit = commit]
WithSecret(r, secret) == [r EXCEPT !.secret = secret]
WithTodo(r, todo) == [r EXCEPT !.todo = todo]
WithBase(r, e, rd) == [r EXCEPT !.base[e] = rd]
WithBuilt(r, built) == [r EXCEPT !.built = built]

LEMMA AtIs ==
  ASSUME NEW r \in Runs, NEW pc \in Places
  PROVE  /\ At(r, pc) \in Runs
         /\ At(r, pc).args = r.args
         /\ At(r, pc).pc = pc
         /\ At(r, pc).conf = r.conf
         /\ At(r, pc).commit = r.commit
         /\ At(r, pc).secret = r.secret
         /\ At(r, pc).todo = r.todo
         /\ At(r, pc).base = r.base
         /\ At(r, pc).built = r.built
BY DEF Runs, At

LEMMA WithConfIs ==
  ASSUME NEW r \in Runs, NEW conf \in Configs
  PROVE  /\ WithConf(r, conf) \in Runs
         /\ WithConf(r, conf).args = r.args
         /\ WithConf(r, conf).pc = r.pc
         /\ WithConf(r, conf).conf = conf
         /\ WithConf(r, conf).commit = r.commit
         /\ WithConf(r, conf).secret = r.secret
         /\ WithConf(r, conf).todo = r.todo
         /\ WithConf(r, conf).base = r.base
         /\ WithConf(r, conf).built = r.built
BY DEF Runs, WithConf

LEMMA WithCommitIs ==
  ASSUME NEW r \in Runs, NEW commit \in Commits \cup {NoCommit}
  PROVE  /\ WithCommit(r, commit) \in Runs
         /\ WithCommit(r, commit).args = r.args
         /\ WithCommit(r, commit).pc = r.pc
         /\ WithCommit(r, commit).conf = r.conf
         /\ WithCommit(r, commit).commit = commit
         /\ WithCommit(r, commit).secret = r.secret
         /\ WithCommit(r, commit).todo = r.todo
         /\ WithCommit(r, commit).base = r.base
         /\ WithCommit(r, commit).built = r.built
BY DEF Runs, WithCommit

LEMMA WithSecretIs ==
  ASSUME NEW r \in Runs, NEW secret \in Secrets
  PROVE  /\ WithSecret(r, secret) \in Runs
         /\ WithSecret(r, secret).args = r.args
         /\ WithSecret(r, secret).pc = r.pc
         /\ WithSecret(r, secret).conf = r.conf
         /\ WithSecret(r, secret).commit = r.commit
         /\ WithSecret(r, secret).secret = secret
         /\ WithSecret(r, secret).todo = r.todo
         /\ WithSecret(r, secret).base = r.base
         /\ WithSecret(r, secret).built = r.built
BY DEF Runs, WithSecret

LEMMA WithTodoIs ==
  ASSUME NEW r \in Runs, NEW todo \in Seq(Environments)
  PROVE  /\ WithTodo(r, todo) \in Runs
         /\ WithTodo(r, todo).args = r.args
         /\ WithTodo(r, todo).pc = r.pc
         /\ WithTodo(r, todo).conf = r.conf
         /\ WithTodo(r, todo).commit = r.commit
         /\ WithTodo(r, todo).secret = r.secret
         /\ WithTodo(r, todo).todo = todo
         /\ WithTodo(r, todo).base = r.base
         /\ WithTodo(r, todo).built = r.built
BY DEF Runs, WithTodo

LEMMA WithBaseIs ==
  ASSUME NEW r \in Runs, NEW e \in Environments, NEW rd \in Deployments \cup {NoRd}
  PROVE  /\ WithBase(r, e, rd) \in Runs
         /\ WithBase(r, e, rd).args = r.args
         /\ WithBase(r, e, rd).pc = r.pc
         /\ WithBase(r, e, rd).conf = r.conf
         /\ WithBase(r, e, rd).commit = r.commit
         /\ WithBase(r, e, rd).secret = r.secret
         /\ WithBase(r, e, rd).todo = r.todo
         /\ \A x \in Environments : WithBase(r, e, rd).base[x] = IF x = e THEN rd ELSE r.base[x]
         /\ WithBase(r, e, rd).built = r.built
BY DEF Runs, WithBase

LEMMA WithBuiltIs ==
  ASSUME NEW r \in Runs, NEW built \in SUBSET (Environments \X Components)
  PROVE  /\ WithBuilt(r, built) \in Runs
         /\ WithBuilt(r, built).args = r.args
         /\ WithBuilt(r, built).pc = r.pc
         /\ WithBuilt(r, built).conf = r.conf
         /\ WithBuilt(r, built).commit = r.commit
         /\ WithBuilt(r, built).secret = r.secret
         /\ WithBuilt(r, built).todo = r.todo
         /\ WithBuilt(r, built).base = r.base
         /\ WithBuilt(r, built).built = built
BY DEF Runs, WithBuilt

LEMMA WithCond ==
  ASSUME NEW rd \in Deployments, NEW cond \in Conditions
  PROVE  /\ [rd EXCEPT !.cond = cond] \in Deployments
         /\ [rd EXCEPT !.cond = cond].cond = cond
         /\ [rd EXCEPT !.cond = cond].commit = rd.commit
         /\ [rd EXCEPT !.cond = cond].conf = rd.conf
         /\ [rd EXCEPT !.cond = cond].comps = rd.comps
BY DEF Deployments

LEMMA NewRunIs ==
  ASSUME NEW args \in Arguments
  PROVE  /\ NewRun(args) \in Runs /\ NewRun(args).pc = "asked" /\ NewRun(args).conf = Conf0
         /\ NewRun(args).commit = Commit0 /\ NewRun(args).built = {}
         /\ NewRun(args).base = [e \in Environments |-> NoRd]
<1>1. "asked" \in Places
  BY DEF Places
<1>2. /\ Conf0 \in Configs /\ Commit0 \in Commits \cup {NoCommit} /\ Secret0 \in Secrets
      /\ <<>> \in Seq(Environments)
      /\ [e \in Environments |-> NoRd] \in [Environments -> Deployments \cup {NoRd}]
      /\ {} \in SUBSET (Environments \X Components)
  BY Constants
<1>3. NewRun(args) \in Runs
  BY <1>1, <1>2, RunMade DEF NewRun
<1> QED BY <1>3 DEF NewRun

LEMMA OldRunIs ==
  /\ OldRun \in Runs /\ OldRun.pc = "succeeded" /\ OldRun.conf = Conf0
  /\ OldRun.commit = Commit0 /\ OldRun.built = Environments \X Components
  /\ OldRun.base = [e \in Environments |-> NoRd]
<1> DEFINE args == [type |-> "build-deploy", commit |-> NoCommit, to |-> NoEnv, from |-> NoEnv,
                    rd |-> Old, only |-> {}]
<1>1. args \in Arguments
  BY Constants DEF Arguments, Types
<1>2. OldRun = WithBuilt(At(NewRun(args), "succeeded"), Environments \X Components)
  BY DEF OldRun, At, WithBuilt
<1>3. "succeeded" \in Places
  BY DEF Places, Ended
<1> HIDE DEF args
<1>4. At(NewRun(args), "succeeded") \in Runs
  BY <1>1, <1>3, NewRunIs, AtIs
<1> QED BY <1>1, <1>2, <1>3, <1>4, NewRunIs, AtIs, WithBuiltIs

LEMMA RunsAtFirst ==
  ASSUME Init, NEW j \in Jobs
  PROVE  run[j] = OldRun \/ \E args \in Arguments : run[j] = NewRun(args)
<1>1. PICK q \in Requests : run = [k \in Jobs |-> IF k = Old THEN OldRun ELSE NewRun(q[k])]
  BY Zenon DEF Init
<1>2. q[j] \in Arguments
  BY Constants
<1>3. run[j] = OldRun \/ run[j] = NewRun(q[j])
  BY <1>1
<1> QED BY <1>2, <1>3

-----------------------------------------------------------------------------
RdsTyped == rds \in [Environments -> Seq(Deployments)]

LEMMA TypeParts ==
  TypeOK <=> /\ RdsTyped /\ run \in [Jobs -> Runs] /\ ra \in Configs /\ faults \in 0..MaxFaults
             /\ \A j \in Jobs : WellFormed(run[j])
BY DEF TypeOK, RdsTyped, WellFormed, Building

LEMMA TypedStep ==
  ASSUME TypeOK, NEW j \in Jobs, NEW r \in Runs, WellFormed(r), run' = [run EXCEPT ![j] = r],
         RdsTyped', ra' \in Configs, faults' \in 0..MaxFaults
  PROVE  TypeOK'
<1>1. run \in [Jobs -> Runs] /\ \A k \in Jobs : WellFormed(run[k])
  BY TypeParts
<1>2. run' \in [Jobs -> Runs]
  BY <1>1
<1>3. \A k \in Jobs : WellFormed(run'[k])
  BY <1>1
<1>4. \A k \in Jobs : /\ run'[k].args.type \in {"build", "build-deploy"} => run'[k].commit \in Commits
                      /\ run'[k].pc = "wait" => run'[k].todo # <<>>
  BY <1>3 DEF WellFormed, Building
<1> QED BY <1>2, <1>4 DEF TypeOK, RdsTyped

LEMMA GotoIs ==
  ASSUME TypeOK, NEW j \in Jobs, NEW pc \in Places, Goto(j, pc), pc # "wait" \/ run[j].todo # <<>>
  PROVE  /\ run[j] \in Runs /\ At(run[j], pc) \in Runs /\ WellFormed(At(run[j], pc))
         /\ run' = [run EXCEPT ![j] = At(run[j], pc)]
<1>1. run[j] \in Runs /\ WellFormed(run[j])
  BY TypeParts
<1>2. At(run[j], pc) \in Runs /\ WellFormed(At(run[j], pc))
  BY <1>1, AtIs DEF WellFormed
<1> QED BY <1>1, <1>2 DEF Goto, At

LEMMA TypedGoto ==
  ASSUME TypeOK, NEW j \in Jobs, NEW pc \in Places, Goto(j, pc), pc # "wait" \/ run[j].todo # <<>>,
         RdsTyped', ra' \in Configs, faults' \in 0..MaxFaults
  PROVE  TypeOK'
BY GotoIs, TypedStep

LEMMA CreateTyped ==
  ASSUME RdsTyped, NEW e \in Environments, NEW rd \in Deployments, Create(e, rd)
  PROVE  /\ RdsTyped'
         /\ \A f \in Environments \ {e} : rds'[f] = rds[f]
         /\ rds'[e] = Append(rds[e], rd)
<1>1. rds[e] \in Seq(Deployments)
  BY DEF RdsTyped
<1>2. Append(rds[e], rd) \in Seq(Deployments)
  BY <1>1
<1> QED BY <1>2 DEF RdsTyped, Create

LEMMA UnchangedTyped ==
  ASSUME TypeOK
  PROVE  /\ UNCHANGED rds => RdsTyped'
         /\ UNCHANGED ra => ra' \in Configs
         /\ UNCHANGED faults => faults' \in 0..MaxFaults
         /\ Fault => faults' \in 0..MaxFaults
<1>1. MaxFaults \in Nat
  BY Constants
<1> QED BY <1>1 DEF TypeOK, RdsTyped, Fault

(* What GiveUp leaves of the RadixDeployments of an environment. *)
WithGone(j, s) == [i \in DOMAIN s |-> IF s[i].job = j THEN [s[i] EXCEPT !.cond = "Gone"] ELSE s[i]]

LEMMA GoneTyped ==
  ASSUME RdsTyped, NEW j \in Jobs, NEW e \in Environments,
         rds' = [rds EXCEPT ![e] = WithGone(j, rds[e])]
  PROVE  /\ RdsTyped'
         /\ \A f \in Environments \ {e} : rds'[f] = rds[f]
         /\ rds'[e] = WithGone(j, rds[e])
<1>1. rds[e] \in Seq(Deployments)
  BY DEF RdsTyped
<1>2. ASSUME NEW i \in DOMAIN rds[e]
      PROVE  WithGone(j, rds[e])[i] \in Deployments
  <2>1. rds[e][i] \in Deployments
    BY <1>1, ElementOfSeq
  <2>2. [rds[e][i] EXCEPT !.cond = "Gone"] \in Deployments
    BY <2>1 DEF Deployments, Conditions
  <2> QED BY <2>1, <2>2 DEF WithGone
<1>3. DOMAIN rds[e] = 1..Len(rds[e]) /\ Len(rds[e]) \in Nat
  BY <1>1
<1>4. WithGone(j, rds[e]) \in [1..Len(rds[e]) -> Deployments]
  BY <1>2, <1>3 DEF WithGone
<1>5. WithGone(j, rds[e]) \in Seq(Deployments)
  BY <1>3, <1>4
<1> QED BY <1>5 DEF RdsTyped

LEMMA InitTyped == Init => TypeOK
<1> SUFFICES ASSUME Init PROVE TypeOK
  OBVIOUS
<1>1. run \in [Jobs -> Runs]
  <2>1. ASSUME NEW j \in Jobs PROVE run[j] \in Runs
    <3>1. run[j] = OldRun \/ \E args \in Arguments : run[j] = NewRun(args)
      BY RunsAtFirst
    <3>2. \A args \in Arguments : NewRun(args) \in Runs
      BY NewRunIs
    <3> QED BY <3>1, <3>2, OldRunIs
  <2>2. run = [j \in Jobs |-> run[j]]
    BY DEF Init
  <2> QED BY <2>1, <2>2
<1>2. ASSUME NEW j \in Jobs PROVE WellFormed(run[j])
  <2>1. run[j].commit \in Commits /\ run[j].pc # "wait"
    <3>1. run[j] = OldRun \/ \E args \in Arguments : run[j] = NewRun(args)
      BY RunsAtFirst
    <3>2. \A args \in Arguments : NewRun(args).commit = Commit0 /\ NewRun(args).pc = "asked"
      BY NewRunIs
    <3> QED BY <3>1, <3>2, OldRunIs, Constants
  <2> QED BY <2>1 DEF WellFormed
<1>3. ASSUME NEW e \in Environments PROVE OldDeployment(e) \in Deployments
  <2>1. Construct(Old, OldRun, e) \in Deployments
    BY OldRunIs, ConstructTyped, Constants
  <2>2. "Active" \in Conditions
    BY DEF Conditions
  <2> QED BY <2>1, <2>2, WithCond DEF OldDeployment
<1>4. RdsTyped
  <2>1. \A e \in Environments : /\ <<OldDeployment(e)>> \in Seq(Deployments)
                                /\ <<>> \in Seq(Deployments)
    BY <1>3
  <2> QED BY <2>1 DEF Init, RdsTyped
<1>5. ra \in Configs /\ faults \in 0..MaxFaults
  BY Constants DEF Init
<1> QED BY <1>1, <1>2, <1>4, <1>5, TypeParts

LEMMA StartIs ==
  ASSUME TypeOK, NEW j \in Jobs, Start(j)
  PROVE  \E r \in Runs :
           /\ run' = [run EXCEPT ![j] = r] /\ WellFormed(r)
           /\ r.pc = "read" /\ r.args = run[j].args
           /\ r.base = run[j].base /\ r.built = run[j].built
<1>1. WellFormed(run[j]) /\ run[j] \in Runs
  BY TypeParts
<1>2. PICK conf \in Configs, commit \in CommitFor(run[j].args) :
        run' = [run EXCEPT ![j] = [run[j] EXCEPT !.pc = "read", !.conf = conf, !.commit = commit,
                                                 !.todo = Targets(run[j].args, conf)]]
  BY Zenon DEF Start
<1>3. Targets(run[j].args, conf) \in Seq(Environments)
  BY <1>1, RunParts, TargetsTyped
<1>4. commit \in Commits \cup {NoCommit} /\ (run[j].args.type \in Building => commit \in Commits)
  BY <1>1, RunParts, ArgumentParts DEF CommitFor, Building
<1>5. "read" \in Places
  BY DEF Places
<1> DEFINE r1 == At(run[j], "read")
           r2 == WithConf(r1, conf)
           r3 == WithCommit(r2, commit)
           r4 == WithTodo(r3, Targets(run[j].args, conf))
<1>6. run' = [run EXCEPT ![j] = r4]
  BY <1>2 DEF At, WithConf, WithCommit, WithTodo
<1>7. r1 \in Runs /\ r1.pc = "read" /\ r1.args = run[j].args
      /\ r1.base = run[j].base /\ r1.built = run[j].built
  BY <1>1, <1>5, AtIs
<1> HIDE DEF r1
<1>8. r2 \in Runs /\ r2.pc = "read" /\ r2.args = run[j].args
      /\ r2.base = run[j].base /\ r2.built = run[j].built
  BY <1>7, WithConfIs
<1> HIDE DEF r2
<1>9. r3 \in Runs /\ r3.pc = "read" /\ r3.args = run[j].args /\ r3.commit = commit
      /\ r3.base = run[j].base /\ r3.built = run[j].built
  BY <1>4, <1>8, WithCommitIs
<1> HIDE DEF r3
<1>10. r4 \in Runs /\ r4.pc = "read" /\ r4.args = run[j].args /\ r4.commit = commit
      /\ r4.base = run[j].base /\ r4.built = run[j].built
  BY <1>3, <1>9, WithTodoIs
<1> HIDE DEF r4
<1>11. WellFormed(r4)
  BY <1>4, <1>10 DEF WellFormed
<1> QED BY <1>6, <1>10, <1>11

LEMMA ReadActiveIs ==
  ASSUME TypeOK, NEW j \in Jobs, ReadActive(j)
  PROVE  \E r \in Runs, rd \in Deployments \cup {NoRd}, e \in Environments :
           /\ run' = [run EXCEPT ![j] = r] /\ WellFormed(r)
           /\ r.pc = run[j].pc /\ r.args = run[j].args /\ r.conf = run[j].conf
           /\ r.commit = run[j].commit /\ r.built = run[j].built
           /\ \A x \in Environments : r.base[x] = IF x = e THEN rd ELSE run[j].base[x]
           /\ rd = NoRd \/ rd \in Members(rds[e])
<1> DEFINE e == Head(run[j].todo)
<1>1. WellFormed(run[j]) /\ run[j] \in Runs /\ RdsTyped
  BY TypeParts
<1>2. run[j].todo \in Seq(Environments) /\ run[j].todo # <<>>
  BY <1>1, RunParts DEF ReadActive
<1>3. e \in Environments /\ Tail(run[j].todo) \in Seq(Environments)
  BY <1>2
<1>4. PICK rd \in IF ActiveIn(e) = {} THEN {NoRd} ELSE ActiveIn(e) :
        run' = [run EXCEPT ![j] = [run[j] EXCEPT !.base[e] = rd, !.todo = Tail(run[j].todo)]]
  BY Zenon DEF ReadActive
<1>5. rd = NoRd \/ rd \in Members(rds[e])
  BY <1>4 DEF ActiveIn
<1>6. rd \in Deployments \cup {NoRd}
  BY <1>1, <1>3, <1>5, MembersTyped DEF RdsTyped
<1>7. run' = [run EXCEPT ![j] = WithTodo(WithBase(run[j], e, rd), Tail(run[j].todo))]
  BY <1>4 DEF WithBase, WithTodo
<1> HIDE DEF e
<1> DEFINE r1 == WithBase(run[j], e, rd)
           r2 == WithTodo(r1, Tail(run[j].todo))
<1>8. r1 \in Runs /\ r1.pc = run[j].pc /\ r1.args = run[j].args /\ r1.conf = run[j].conf
      /\ r1.commit = run[j].commit /\ r1.built = run[j].built /\ r1.todo = run[j].todo
      /\ \A x \in Environments : r1.base[x] = IF x = e THEN rd ELSE run[j].base[x]
  BY <1>1, <1>3, <1>6, WithBaseIs
<1> HIDE DEF r1
<1>9. r2 \in Runs /\ r2.pc = run[j].pc /\ r2.args = run[j].args /\ r2.conf = run[j].conf
      /\ r2.commit = run[j].commit /\ r2.built = run[j].built
      /\ \A x \in Environments : r2.base[x] = IF x = e THEN rd ELSE run[j].base[x]
  <2>1. r2 \in Runs /\ r2.pc = r1.pc /\ r2.args = r1.args /\ r2.conf = r1.conf
        /\ r2.commit = r1.commit /\ r2.built = r1.built /\ r2.base = r1.base
    BY <1>3, <1>8, WithTodoIs
  <2> HIDE DEF r2
  <2> QED BY <1>8, <2>1, Zenon
<1>10. run' = [run EXCEPT ![j] = r2]
  BY <1>7 DEF r1
<1> HIDE DEF r2
<1>11. WellFormed(r2)
  <2>1. run[j].pc # "wait"
    BY DEF ReadActive
  <2> QED BY <1>1, <1>9, <2>1 DEF WellFormed
<1> QED BY <1>3, <1>5, <1>6, <1>9, <1>10, <1>11

LEMMA SetImagesIs ==
  ASSUME TypeOK, NEW j \in Jobs, SetImages(j)
  PROVE  \E r \in Runs :
           /\ run' = [run EXCEPT ![j] = r] /\ WellFormed(r)
           /\ r.pc \in {"failed", "apply"} /\ r.args = run[j].args /\ r.conf = run[j].conf
           /\ r.commit = run[j].commit /\ r.built = run[j].built /\ r.base = run[j].base
           /\ r.pc = "apply" => ~Invalid(r)
<1>1. WellFormed(run[j]) /\ run[j] \in Runs
  BY TypeParts
<1>2. PICK s \in Secrets : run' = [run EXCEPT ![j] =
         [[run[j] EXCEPT !.secret = s] EXCEPT
            !.pc = IF Invalid([run[j] EXCEPT !.secret = s]) THEN "failed" ELSE "apply"]]
  BY Zenon DEF SetImages
<1> DEFINE r1 == WithSecret(run[j], s)
           pc == IF Invalid(r1) THEN "failed" ELSE "apply"
           r2 == At(r1, pc)
<1>3. run' = [run EXCEPT ![j] = r2]
  BY <1>2 DEF At, WithSecret
<1>4. r1 \in Runs /\ r1.args = run[j].args /\ r1.conf = run[j].conf
      /\ r1.commit = run[j].commit /\ r1.built = run[j].built /\ r1.base = run[j].base
  BY <1>1, WithSecretIs
<1>5. pc \in Places /\ pc \in {"failed", "apply"} /\ (pc = "apply" => ~Invalid(r1))
  BY DEF Places, Ended
<1> HIDE DEF r1
<1>6. r2 \in Runs /\ r2.args = run[j].args /\ r2.conf = run[j].conf /\ r2.pc = pc
      /\ r2.commit = run[j].commit /\ r2.built = run[j].built /\ r2.base = run[j].base
  <2> HIDE DEF pc
  <2> QED BY <1>4, <1>5, AtIs
<1>7. Invalid(r2) <=> Invalid(r1)
  <2>1. r2.secret = r1.secret /\ r2.args = r1.args /\ r2.conf = r1.conf
        /\ r2.commit = r1.commit /\ r2.base = r1.base
    <3> HIDE DEF pc
    <3> QED BY <1>4, <1>5, AtIs
  <2> HIDE DEF r2, pc
  <2> QED BY <2>1 DEF Invalid, Builds, FromBuild, TargetsOf, HasContext, SameConfig, ChangedIn, Deployed
<1> HIDE DEF r2, pc
<1>8. WellFormed(r2)
  BY <1>1, <1>5, <1>6 DEF WellFormed
<1> QED BY <1>3, <1>5, <1>6, <1>7, <1>8

-----------------------------------------------------------------------------
(* What a run decides depends on what it was asked for and has read. *)
LEMMA SameChoices ==
  ASSUME NEW r, NEW s, s.args = r.args, s.conf = r.conf, s.commit = r.commit,
         s.secret = r.secret, s.base = r.base
  PROVE  /\ TargetsOf(s) = TargetsOf(r) /\ Builds(s) = Builds(r)
         /\ Invalid(s) <=> Invalid(r)
         /\ MayStop(s) <=> MayStop(r)
BY DEF Invalid, Builds, FromBuild, TargetsOf, HasContext, SameConfig, ChangedIn, Deployed, MayStop

(* What a component of a RadixDeployment in e runs is what conf and the commit say. *)
GoodImage(image, c, e, conf, commit) ==
  IF c \in Fixed[conf][e] THEN image.by = NoJob ELSE BuiltFrom(image, c, e, conf, commit)

(* Wherever a component with this radixconfig is, it was made for an environment alike. *)
Comparable(c, conf) == NoPromotes \/ SameEverywhere(c, conf)

GoodRd(rd, e) ==
  \A c \in Components : rd.comps[c] # Missing /\ Comparable(c, rd.conf) =>
    GoodImage(rd.comps[c].image, c, e, rd.conf, rd.commit)

(* rd has the components of environment e, as its radixconfig has them. *)
Whole(rd, e) ==
  \A c \in Components :
    /\ rd.comps[c] # Missing <=> c \in Enabled[rd.conf][e]
    /\ rd.comps[c] # Missing =>
         rd.comps[c].conf = rd.conf /\ AliasGiven(rd.comps[c].dns, c, e, rd.conf)

Sound(rd, e) == GoodRd(rd, e) /\ (NoPromotes => Whole(rd, e))

SoundBase(r) == \A e \in Environments, rd \in Deployments : r.base[e] = rd => Sound(rd, e)

(* Where a runner is, its decisions have been taken. *)
Local(r) ==
  /\ r.pc = "asked" => r.built = {}
  /\ r.pc = "build" => r.args.type \in Building
  /\ r.pc = "promote" => r.args.type = "promote"
  /\ r.pc \in {"config", "create"} => r.args.type = "apply-config"
  /\ r.pc = "nochange" => MayStop(r)
  /\ r.pc \in {"deploy", "wait"} => r.args.type \in {"build-deploy", "deploy"} /\ Builds(r) \subseteq r.built
  /\ r.pc \in {"build", "deploy", "wait"} => Members(r.todo) \subseteq TargetsOf(r)
  /\ r.pc \in {"apply", "deploy", "wait"} /\ r.args.type = "deploy" => Builds(r) = {}

IInv ==
  /\ TypeOK
  /\ \A e \in Environments : \A rd \in Members(rds[e]) : Sound(rd, e)
  /\ \A j \in Jobs : Local(run[j]) /\ SoundBase(run[j])

(* A run keeps what it built, and what it built it from. *)
Grown(r, s) ==
  /\ r.pc = "asked" \/ s.conf = r.conf
  /\ r.built = {} \/ (s.conf = r.conf /\ s.commit = r.commit /\ r.built \subseteq s.built)

(* What a step of runner j comes to. *)
RunStep(j) ==
  \E r \in Runs :
    /\ run' = [run EXCEPT ![j] = r]
    /\ WellFormed(r) /\ Local(r) /\ SoundBase(r) /\ Grown(run[j], r)
    /\ r.args = run[j].args /\ r.pc # "asked"

RdsStep ==
  /\ RdsTyped'
  /\ \A e \in Environments : \A rd \in Members(rds'[e]) : Sound(rd, e)

LEMMA SoundKept ==
  ASSUME TypeOK, NEW j \in Jobs, RunStep(j),
         NEW rd \in Deployments, NEW e \in Environments, Sound(rd, e)
  PROVE  Sound(rd, e)'
<1>1. PICK r \in Runs : /\ run' = [run EXCEPT ![j] = r] /\ Grown(run[j], r)
                        /\ r.args = run[j].args /\ r.pc # "asked"
  BY DEF RunStep
<1>2. run \in [Jobs -> Runs]
  BY TypeParts
<1>3. ASSUME NEW image \in Images, NEW c \in Components, NEW conf, NEW commit,
             BuiltFrom(image, c, e, conf, commit)
      PROVE  BuiltFrom(image, c, e, conf, commit)'
  <2>1. /\ image.by \in Jobs /\ <<image.env, c>> \in run[image.by].built
        /\ commit \in Commits
        /\ Source[run[image.by].conf][image.env][c][run[image.by].commit] = Source[conf][e][c][commit]
    BY <1>3 DEF BuiltFrom
  <2>2. /\ <<image.env, c>> \in run'[image.by].built
        /\ run'[image.by].conf = run[image.by].conf /\ run'[image.by].commit = run[image.by].commit
    <3>1. CASE image.by = j
      BY <1>1, <1>2, <2>1, <3>1 DEF Grown
    <3>2. CASE image.by # j
      BY <1>1, <1>2, <2>1, <3>2
    <3> QED BY <3>1, <3>2
  <2> QED BY <2>1, <2>2 DEF BuiltFrom
<1>4. /\ \A k \in Jobs : /\ run'[k].args = run[k].args /\ (run'[k].pc = "asked" => run[k].pc = "asked")
                         /\ run[k].pc # "asked" => run'[k].conf = run[k].conf /\ run'[k].pc # "asked"
      /\ NoPromotes' => NoPromotes
  <2>1. \A k \in Jobs : /\ run'[k].args = run[k].args /\ (run'[k].pc = "asked" => run[k].pc = "asked")
                        /\ run[k].pc # "asked" => run'[k].conf = run[k].conf /\ run'[k].pc # "asked"
    BY <1>1, <1>2 DEF Grown
  <2> QED BY <2>1 DEF NoPromotes
<1>5. GoodRd(rd, e)'
  <2> SUFFICES ASSUME NEW c \in Components, rd.comps[c] # Missing, Comparable(c, rd.conf)'
               PROVE  GoodImage(rd.comps[c].image, c, e, rd.conf, rd.commit)'
    BY DEF GoodRd
  <2>1. rd.comps[c].image \in Images
    BY DeploymentParts DEF DeployComponents
  <2>2. Comparable(c, rd.conf)
    BY <1>4 DEF Comparable, SameEverywhere
  <2>3. GoodImage(rd.comps[c].image, c, e, rd.conf, rd.commit)
    BY <2>2 DEF Sound, GoodRd
  <2> QED BY <1>3, <2>1, <2>3 DEF GoodImage
<1>6. Whole(rd, e) => Whole(rd, e)'
  <2>1. \A dns, c, conf : AliasGiven(dns, c, e, conf) => AliasGiven(dns, c, e, conf)'
    BY <1>4 DEF AliasGiven
  <2> QED BY <2>1 DEF Whole
<1> QED BY <1>4, <1>5, <1>6 DEF Sound

LEMMA StepKeepsIInv ==
  ASSUME IInv, NEW j \in Jobs, RunStep(j), RdsStep, ra' \in Configs, faults' \in 0..MaxFaults
  PROVE  IInv'
<1>1. PICK r \in Runs : /\ run' = [run EXCEPT ![j] = r]
                        /\ WellFormed(r) /\ Local(r) /\ SoundBase(r)
  BY DEF RunStep
<1>2. TypeOK /\ run \in [Jobs -> Runs]
  BY TypeParts DEF IInv
<1>3. TypeOK'
  BY <1>1, <1>2, TypedStep DEF RdsStep
<1>4. ASSUME NEW e \in Environments, NEW rd \in Members(rds'[e]) PROVE Sound(rd, e)'
  <2>1. rd \in Deployments
    BY MembersTyped DEF RdsStep, RdsTyped
  <2>2. Sound(rd, e)
    BY DEF RdsStep
  <2> QED BY <1>2, <2>1, <2>2, SoundKept
<1>5. ASSUME NEW k \in Jobs PROVE Local(run[k])' /\ SoundBase(run[k])'
  <2>1. run'[k] \in Runs /\ Local(run'[k]) /\ SoundBase(run'[k])
    BY <1>1, <1>2 DEF IInv
  <2>2. Local(run[k])'
    <3>1. Builds(run[k])' = Builds(run'[k])
      BY DEF Builds, FromBuild, TargetsOf, HasContext, SameConfig, ChangedIn, Deployed
    <3>2. TargetsOf(run[k])' = TargetsOf(run'[k])
      BY DEF TargetsOf
    <3>3. MayStop(run[k])' <=> MayStop(run'[k])
      BY DEF MayStop, TargetsOf, HasContext, SameConfig, ChangedIn
    <3> QED BY <2>1, <3>1, <3>2, <3>3 DEF Local
  <2>3. ASSUME NEW e \in Environments, NEW rd \in Deployments, run'[k].base[e] = rd
        PROVE  Sound(rd, e)'
    <3>1. Sound(rd, e)
      BY <2>1, <2>3 DEF SoundBase
    <3> QED BY <1>2, <3>1, SoundKept
  <2> QED BY <2>2, <2>3 DEF SoundBase
<1> QED BY <1>3, <1>4, <1>5 DEF IInv

-----------------------------------------------------------------------------
(* Where nothing has been decided yet, or all is over. *)
LEMMA LocalElsewhere ==
  ASSUME NEW r, r.pc \notin {"asked", "apply", "build", "promote", "config", "create", "nochange", "deploy", "wait"}
  PROVE  Local(r)
BY DEF Local

(* Goto leaves what the run has read and built. *)
LEMMA GotoStep ==
  ASSUME IInv, NEW j \in Jobs, NEW pc \in Places, Goto(j, pc), pc # "asked",
         pc # "wait" \/ run[j].todo # <<>>, Local(At(run[j], pc))
  PROVE  RunStep(j)
<1>1. TypeOK
  BY DEF IInv
<1>2. /\ run[j] \in Runs /\ At(run[j], pc) \in Runs /\ WellFormed(At(run[j], pc))
      /\ run' = [run EXCEPT ![j] = At(run[j], pc)]
  BY <1>1, GotoIs
<1> DEFINE r == At(run[j], pc)
<1>3. r.args = run[j].args /\ r.pc = pc /\ r.base = run[j].base /\ r.built = run[j].built
      /\ r.conf = run[j].conf /\ r.commit = run[j].commit
  BY <1>2, AtIs
<1>4. SoundBase(r)
  BY <1>3 DEF IInv, SoundBase
<1>5. Grown(run[j], r)
  BY <1>3 DEF Grown
<1> QED BY <1>2, <1>3, <1>4, <1>5 DEF RunStep

LEMMA SameRds ==
  ASSUME IInv, UNCHANGED rds
  PROVE  RdsStep
<1>1. RdsTyped
  BY TypeParts DEF IInv
<1> QED BY <1>1 DEF IInv, RdsStep, RdsTyped

LEMMA AppendMembers ==
  ASSUME NEW S, NEW s \in Seq(S), NEW x \in S
  PROVE  \A y \in Members(Append(s, x)) : y \in Members(s) \/ y = x
<1> SUFFICES ASSUME NEW i \in DOMAIN Append(s, x)
             PROVE  Append(s, x)[i] \in Members(s) \/ Append(s, x)[i] = x
  BY DEF Members
<1>1. Len(s) \in Nat /\ DOMAIN s = 1..Len(s) /\ DOMAIN Append(s, x) = 1..(Len(s) + 1)
  OBVIOUS
<1>2. i \in 1..Len(s) => Append(s, x)[i] = s[i]
  BY <1>1
<1>3. i = Len(s) + 1 => Append(s, x)[i] = x
  BY <1>1
<1>4. i \in 1..Len(s) \/ i = Len(s) + 1
  BY <1>1
<1> QED BY <1>1, <1>2, <1>3, <1>4 DEF Members

LEMMA TailMembers ==
  ASSUME NEW S, NEW s \in Seq(S), s # <<>>
  PROVE  Tail(s) \in Seq(S) /\ Members(Tail(s)) \subseteq Members(s) /\ Head(s) \in Members(s)
<1>1. Tail(s) \in Seq(S) /\ Len(s) \in Nat \ {0} /\ Len(Tail(s)) = Len(s) - 1
      /\ DOMAIN s = 1..Len(s) /\ DOMAIN Tail(s) = 1..(Len(s) - 1)
  OBVIOUS
<1>2. Head(s) \in Members(s)
  BY <1>1 DEF Members
<1>3. ASSUME NEW i \in DOMAIN Tail(s) PROVE Tail(s)[i] \in Members(s)
  <2>1. Tail(s)[i] = s[i + 1] /\ i + 1 \in DOMAIN s
    BY <1>1
  <2> QED BY <2>1 DEF Members
<1> QED BY <1>1, <1>2, <1>3 DEF Members

LEMMA CreateStep ==
  ASSUME IInv, NEW e \in Environments, NEW rd \in Deployments, Create(e, rd), Sound(rd, e)
  PROVE  RdsStep
<1>1. RdsTyped
  BY TypeParts DEF IInv
<1>2. /\ RdsTyped'
      /\ \A f \in Environments \ {e} : rds'[f] = rds[f]
      /\ rds'[e] = Append(rds[e], rd)
  BY <1>1, CreateTyped
<1>3. ASSUME NEW f \in Environments, NEW x \in Members(rds'[f]) PROVE Sound(x, f)
  <2>1. CASE f # e
    BY <1>2, <1>3, <2>1 DEF IInv
  <2>2. CASE f = e
    <3>1. rds[e] \in Seq(Deployments)
      BY <1>1 DEF RdsTyped
    <3>2. x \in Members(rds[e]) \/ x = rd
      <4>1. \A y \in Members(Append(rds[e], rd)) : y \in Members(rds[e]) \/ y = rd
        BY <3>1, AppendMembers
      <4> QED BY <1>2, <1>3, <2>2, <4>1
    <3> QED BY <2>2, <3>2 DEF IInv
  <2> QED BY <2>1, <2>2
<1> QED BY <1>2, <1>3 DEF RdsStep

(* Whether a RadixDeployment is active says nothing of what it deploys. *)
LEMMA SoundWithCond ==
  ASSUME NEW rd \in Deployments, NEW cond \in Conditions, NEW e, Sound(rd, e)
  PROVE  Sound([rd EXCEPT !.cond = cond], e)
<1> DEFINE x == [rd EXCEPT !.cond = cond]
<1>1. x.commit = rd.commit /\ x.conf = rd.conf /\ x.comps = rd.comps
  BY WithCond
<1> HIDE DEF x
<1>2. GoodRd(x, e)
  BY <1>1 DEF Sound, GoodRd
<1>3. NoPromotes => Whole(x, e)
  BY <1>1 DEF Sound, Whole
<1>4. Sound(x, e)
  BY <1>2, <1>3 DEF Sound
<1> QED BY <1>4 DEF x

LEMMA CondStep ==
  ASSUME IInv, NEW e \in Environments, NEW i \in DOMAIN rds[e], NEW cond \in Conditions,
         rds' = [rds EXCEPT ![e][i].cond = cond]
  PROVE  RdsStep
<1>1. RdsTyped
  BY TypeParts DEF IInv
<1>3. rds[e] \in Seq(Deployments) /\ rds[e][i] \in Deployments
  BY <1>1, ElementOfSeq DEF RdsTyped
<1>2. /\ RdsTyped'
      /\ \A f \in Environments \ {e} : rds'[f] = rds[f]
      /\ rds'[e] = [rds[e] EXCEPT ![i] = [rds[e][i] EXCEPT !.cond = cond]]
  <2>1. [rds[e][i] EXCEPT !.cond = cond] \in Deployments
    BY <1>3 DEF Deployments
  <2>2. [rds[e] EXCEPT ![i] = [rds[e][i] EXCEPT !.cond = cond]] \in Seq(Deployments)
    BY <1>3, <2>1, ExceptSeq
  <2>3. rds' = [rds EXCEPT ![e] = [rds[e] EXCEPT ![i] = [rds[e][i] EXCEPT !.cond = cond]]]
    OBVIOUS
  <2> QED BY <1>1, <2>2, <2>3 DEF RdsTyped
<1>4. \A k \in DOMAIN rds[e] : Sound(rds[e][k], e)
  BY DEF IInv, Members
<1>5. Sound([rds[e][i] EXCEPT !.cond = cond], e)
  BY <1>3, <1>4, SoundWithCond
<1>6. ASSUME NEW f \in Environments, NEW x \in Members(rds'[f]) PROVE Sound(x, f)
  <2>1. CASE f # e
    BY <1>2, <1>6, <2>1 DEF IInv
  <2>2. CASE f = e
    <3>1. PICK k \in DOMAIN rds'[e] : x = rds'[e][k]
      BY <1>6, <2>2 DEF Members
    <3>2. k \in DOMAIN rds[e] /\ (k # i => x = rds[e][k])
          /\ (k = i => x = [rds[e][i] EXCEPT !.cond = cond])
      BY <1>2, <3>1
    <3> QED BY <1>4, <1>5, <2>2, <3>2
  <2> QED BY <2>1, <2>2
<1> QED BY <1>2, <1>6 DEF RdsStep

LEMMA GoneStep ==
  ASSUME IInv, NEW j \in Jobs, NEW e \in Environments,
         rds' = [rds EXCEPT ![e] = WithGone(j, rds[e])]
  PROVE  RdsStep
<1>1. RdsTyped
  BY TypeParts DEF IInv
<1>2. /\ RdsTyped'
      /\ \A f \in Environments \ {e} : rds'[f] = rds[f]
      /\ rds'[e] = WithGone(j, rds[e])
  BY <1>1, GoneTyped
<1>3. \A k \in DOMAIN rds[e] : Sound(rds[e][k], e) /\ rds[e][k] \in Deployments
  BY <1>1, ElementOfSeq DEF IInv, Members, RdsTyped
<1>4. ASSUME NEW f \in Environments, NEW x \in Members(rds'[f]) PROVE Sound(x, f)
  <2>1. CASE f # e
    BY <1>2, <1>4, <2>1 DEF IInv
  <2>2. CASE f = e
    <3>1. PICK k \in DOMAIN rds'[e] : x = rds'[e][k]
      BY <1>4, <2>2 DEF Members
    <3>2. k \in DOMAIN rds[e] /\ x \in {rds[e][k], [rds[e][k] EXCEPT !.cond = "Gone"]}
      BY <1>2, <3>1 DEF WithGone
    <3>3. "Gone" \in Conditions
      BY DEF Conditions
    <3>4. Sound([rds[e][k] EXCEPT !.cond = "Gone"], e)
      BY <1>3, <3>2, <3>3, SoundWithCond
    <3> QED BY <1>3, <2>2, <3>2, <3>4
  <2> QED BY <2>1, <2>2
<1> QED BY <1>2, <1>4 DEF RdsStep

-----------------------------------------------------------------------------
(* What a deployment pipeline deploys has an image of the commit's source, whether it
   was built now, or before. *)
LEMMA KeptIsCurrent ==
  ASSUME NEW r \in Runs, NEW e \in Environments, NEW c \in Components, SoundBase(r),
         Comparable(c, r.conf),
         c \in Enabled[r.conf][e] \ Fixed[r.conf][e], c \notin ChangedIn(r, e),
         Deployed(r, e, c), SameConfig(r, e), r.commit \in Commits
  PROVE  BuiltFrom(r.base[e].comps[c].image, c, e, r.conf, r.commit)
<1> DEFINE rd == r.base[e]
<1>1. rd # NoRd /\ rd \in Deployments /\ rd.conf = r.conf /\ rd.comps[c] # Missing
  BY RunParts DEF SameConfig, Deployed
<1>2. GoodRd(rd, e)
  BY <1>1 DEF SoundBase, Sound
<1>3. /\ rd.commit \notin Lost \cup {NoCommit}
      /\ Source[r.conf][e][c][rd.commit] = Source[r.conf][e][c][r.commit]
  BY <1>1 DEF ChangedIn
<1> HIDE DEF rd
<1>4. BuiltFrom(rd.comps[c].image, c, e, r.conf, rd.commit)
  BY <1>1, <1>2 DEF GoodRd, GoodImage
<1>5. BuiltFrom(rd.comps[c].image, c, e, r.conf, r.commit)
  BY <1>3, <1>4 DEF BuiltFrom
<1> QED BY <1>5 DEF rd

ConstructedComp(j, r, e, c) ==
  IF c \notin Enabled[r.conf][e] THEN Missing
  ELSE IF c \in Preserved(r, e) THEN r.base[e].comps[c]
  ELSE [image |-> ImageOf(j, r, e, c), conf |-> r.conf, dns |-> c \in Dns[r.conf][e]]

LEMMA ConstructIs ==
  ASSUME NEW j, NEW r, NEW e
  PROVE  /\ Construct(j, r, e).conf = r.conf /\ Construct(j, r, e).commit = r.commit
         /\ Construct(j, r, e).job = j /\ Construct(j, r, e).cond = "New"
         /\ \A c \in Components : Construct(j, r, e).comps[c] = ConstructedComp(j, r, e, c)
BY DEF Construct, ConstructedComp

LEMMA ConstructedImage ==
  ASSUME NEW j \in Jobs, NEW r \in Runs, NEW e \in Environments, NEW c \in Components,
         r = run[j], SoundBase(r), Comparable(c, r.conf),
         c \in Enabled[r.conf][e] \ Fixed[r.conf][e], e \in TargetsOf(r),
         r.commit \in Commits, r.args.type = "build-deploy", r.args.only = {}, Builds(r) \subseteq r.built
  PROVE  BuiltFrom(ConstructedComp(j, r, e, c).image, c, e, r.conf, r.commit)
<1>1. CASE c \in Preserved(r, e)
  <2>1. Deployed(r, e, c) /\ SameConfig(r, e) /\ c \notin ChangedIn(r, e)
    BY <1>1 DEF Preserved
  <2>2. ConstructedComp(j, r, e, c) = r.base[e].comps[c]
    BY <1>1 DEF ConstructedComp
  <2> QED BY <2>1, <2>2, KeptIsCurrent
<1>2. CASE c \notin Preserved(r, e)
  <2>1. ConstructedComp(j, r, e, c).image = ImageOf(j, r, e, c)
    BY <1>2 DEF ConstructedComp
  <2>2. CASE FromBuild(r, e, c)
    <3>1. ImageOf(j, r, e, c) = [by |-> j, env |-> e]
      BY <2>2 DEF ImageOf
    <3>2. <<e, c>> \in r.built
      BY <2>2 DEF Builds
    <3>3. BuiltFrom([by |-> j, env |-> e], c, e, r.conf, r.commit)
      BY <3>2 DEF BuiltFrom
    <3> QED BY <2>1, <3>1, <3>3
  <2>3. CASE ~FromBuild(r, e, c)
    <3>1. Deployed(r, e, c) /\ SameConfig(r, e) /\ c \notin ChangedIn(r, e)
      BY <2>3 DEF FromBuild
    <3>2. ImageOf(j, r, e, c) = r.base[e].comps[c].image
      BY <2>3 DEF ImageOf
    <3> QED BY <2>1, <3>1, <3>2, KeptIsCurrent
  <2> QED BY <2>2, <2>3
<1> QED BY <1>1, <1>2

LEMMA GivenImage ==
  ASSUME NEW j \in Jobs, NEW r \in Runs, NEW e \in Environments, NEW c \in Components,
         SoundBase(r), Comparable(c, r.conf), c \in Enabled[r.conf][e] \cap Fixed[r.conf][e]
  PROVE  ConstructedComp(j, r, e, c).image.by = NoJob
<1>1. CASE c \in Preserved(r, e)
  <2>1. r.base[e] # NoRd /\ r.base[e].comps[c] # Missing /\ r.base[e].conf = r.conf
    BY <1>1 DEF Preserved, Deployed, SameConfig
  <2>2. r.base[e] \in Deployments
    BY <2>1, RunParts
  <2>3. GoodRd(r.base[e], e)
    BY <2>2 DEF SoundBase, Sound
  <2>4. r.base[e].comps[c].image.by = NoJob
    BY <2>1, <2>3 DEF GoodRd, GoodImage
  <2> QED BY <1>1, <2>4 DEF ConstructedComp
<1>2. CASE c \notin Preserved(r, e)
  <2>1. ImageOf(j, r, e, c) = [by |-> NoJob, env |-> e]
    BY DEF ImageOf
  <2> QED BY <1>2, <2>1 DEF ConstructedComp
<1> QED BY <1>1, <1>2

(* The components of the environment, and no other, with the settings of radixconfig. *)
LEMMA ConstructedWhole ==
  ASSUME NEW j \in Jobs, NEW r \in Runs, NEW e \in Environments, SoundBase(r), NoPromotes
  PROVE  Whole(Construct(j, r, e), e)
<1> SUFFICES ASSUME NEW c \in Components
             PROVE  /\ ConstructedComp(j, r, e, c) # Missing <=> c \in Enabled[r.conf][e]
                    /\ ConstructedComp(j, r, e, c) # Missing =>
                         /\ ConstructedComp(j, r, e, c).conf = r.conf
                         /\ AliasGiven(ConstructedComp(j, r, e, c).dns, c, e, r.conf)
  BY ConstructIs DEF Whole
<1>1. CASE c \notin Enabled[r.conf][e]
  BY <1>1 DEF ConstructedComp
<1>2. CASE c \in Enabled[r.conf][e] /\ c \in Preserved(r, e)
  <2>1. r.base[e] # NoRd /\ r.base[e].comps[c] # Missing /\ r.base[e].conf = r.conf
    BY <1>2 DEF Preserved, Deployed, SameConfig
  <2>2. r.base[e] \in Deployments
    BY <2>1, RunParts
  <2>3. Whole(r.base[e], e)
    BY <2>2 DEF SoundBase, Sound
  <2>4. r.base[e].comps[c].conf = r.conf /\ AliasGiven(r.base[e].comps[c].dns, c, e, r.conf)
    BY <2>1, <2>3 DEF Whole
  <2> QED BY <1>2, <2>1, <2>4 DEF ConstructedComp
<1>3. CASE c \in Enabled[r.conf][e] /\ c \notin Preserved(r, e)
  <2> DEFINE comp == [image |-> ImageOf(j, r, e, c), conf |-> r.conf, dns |-> c \in Dns[r.conf][e]]
  <2>1. comp \in DeployComponents
    <3>1. ImageOf(j, r, e, c) \in Images /\ r.conf \in Configs
      BY ImageTyped, RunParts
    <3>2. (c \in Dns[r.conf][e]) \in BOOLEAN
      OBVIOUS
    <3> QED BY <3>1, <3>2, Zenon DEF DeployComponents
  <2>2. comp.conf = r.conf /\ AliasGiven(comp.dns, c, e, r.conf)
    BY DEF AliasGiven
  <2>3. ConstructedComp(j, r, e, c) = comp
    BY <1>3 DEF ConstructedComp
  <2> HIDE DEF comp
  <2> QED BY <1>3, <2>1, <2>2, <2>3, Constants
<1> QED BY <1>1, <1>2, <1>3

LEMMA ConstructSoundOf ==
  ASSUME NEW j \in Jobs, NEW r \in Runs, r = run[j], WellFormed(r), SoundBase(r),
         NEW e \in Environments, e \in TargetsOf(r),
         r.args.type \in {"build-deploy", "deploy"}, Builds(r) \subseteq r.built,
         r.args.type = "deploy" => Builds(r) = {}
  PROVE  Sound(Construct(j, r, e), e)
<1>3. ASSUME NEW c \in Components, Construct(j, r, e).comps[c] # Missing, Comparable(c, r.conf)
      PROVE  GoodImage(Construct(j, r, e).comps[c].image, c, e, r.conf, r.commit)
  <2>1. Construct(j, r, e).comps[c] = ConstructedComp(j, r, e, c)
    BY ConstructIs
  <2>2. c \in Enabled[r.conf][e]
    BY <1>3, <2>1 DEF ConstructedComp
  <2>3. CASE c \in Fixed[r.conf][e]
    BY <1>3, <2>1, <2>2, <2>3, GivenImage DEF GoodImage
  <2>4. CASE c \notin Fixed[r.conf][e]
    <3>1. r.args.type = "build-deploy"
      <4>1. SUFFICES ASSUME r.args.type = "deploy" PROVE FALSE
        OBVIOUS
      <4>2. ~HasContext(r)
        BY <4>1 DEF HasContext
      <4>3. FromBuild(r, e, c)
        BY <2>4, <4>2 DEF FromBuild
      <4>4. <<e, c>> \in Builds(r)
        BY <2>2, <4>3 DEF Builds
      <4> QED BY <4>1, <4>4
    <3>2. r.commit \in Commits /\ r.args.only = {}
      BY <3>1, RunParts, ArgumentParts DEF WellFormed, Building
    <3>3. BuiltFrom(ConstructedComp(j, r, e, c).image, c, e, r.conf, r.commit)
      BY <1>3, <2>2, <2>4, <3>1, <3>2, ConstructedImage
    <3> QED BY <2>1, <2>4, <3>3 DEF GoodImage
  <2> QED BY <2>3, <2>4
<1>4. GoodRd(Construct(j, r, e), e)
  BY <1>3, ConstructIs DEF GoodRd
<1>5. NoPromotes => Whole(Construct(j, r, e), e)
  BY ConstructedWhole
<1> QED BY <1>4, <1>5 DEF Sound

LEMMA ConstructSound ==
  ASSUME IInv, NEW j \in Jobs, NEW e \in Environments, e \in TargetsOf(run[j]),
         run[j].pc \in {"deploy", "wait"}
  PROVE  Sound(Construct(j, run[j], e), e)
<1>1. run[j] \in Runs /\ WellFormed(run[j]) /\ Local(run[j]) /\ SoundBase(run[j])
  BY TypeParts DEF IInv
<1>2. /\ run[j].args.type \in {"build-deploy", "deploy"} /\ Builds(run[j]) \subseteq run[j].built
      /\ run[j].args.type = "deploy" => Builds(run[j]) = {}
  BY <1>1 DEF Local
<1> QED BY <1>1, <1>2, ConstructSoundOf

-----------------------------------------------------------------------------
(* The steps, one by one. *)
LEMMA StartStep ==
  ASSUME IInv, NEW j \in Jobs, Start(j)
  PROVE  RunStep(j) /\ RdsStep
<1>1. TypeOK /\ Local(run[j]) /\ SoundBase(run[j])
  BY DEF IInv
<1>2. PICK r \in Runs : /\ run' = [run EXCEPT ![j] = r] /\ WellFormed(r)
                        /\ r.pc = "read" /\ r.args = run[j].args
                        /\ r.base = run[j].base /\ r.built = run[j].built
  BY <1>1, StartIs
<1>3. Local(r)
  BY <1>2, LocalElsewhere
<1>4. SoundBase(r)
  BY <1>1, <1>2 DEF SoundBase
<1>5. Grown(run[j], r)
  BY <1>1 DEF Start, Local, Grown
<1>6. RdsStep
  BY SameRds DEF Start
<1> QED BY <1>2, <1>3, <1>4, <1>5, <1>6 DEF RunStep

LEMMA ReadActiveStep ==
  ASSUME IInv, NEW j \in Jobs, ReadActive(j)
  PROVE  RunStep(j) /\ RdsStep
<1>1. TypeOK /\ SoundBase(run[j])
  BY DEF IInv
<1>2. PICK r \in Runs, rd \in Deployments \cup {NoRd}, e \in Environments :
           /\ run' = [run EXCEPT ![j] = r] /\ WellFormed(r)
           /\ r.pc = run[j].pc /\ r.args = run[j].args /\ r.conf = run[j].conf
           /\ r.commit = run[j].commit /\ r.built = run[j].built
           /\ \A x \in Environments : r.base[x] = IF x = e THEN rd ELSE run[j].base[x]
           /\ rd = NoRd \/ rd \in Members(rds[e])
  BY <1>1, ReadActiveIs
<1>3. r.pc \in {"read", "config"}
  BY <1>2 DEF ReadActive
<1>4. Local(r)
  <2>1. Local(run[j])
    BY DEF IInv
  <2> QED BY <1>2, <1>3, <2>1 DEF Local
<1>5. SoundBase(r)
  <2> SUFFICES ASSUME NEW x \in Environments, NEW y \in Deployments, r.base[x] = y
               PROVE  Sound(y, x)
    BY DEF SoundBase
  <2>1. CASE x = e
    <3>1. y = rd /\ rd # NoRd
      BY <1>2, <2>1, Constants
    <3> QED BY <1>2, <2>1, <3>1 DEF IInv
  <2>2. CASE x # e
    BY <1>1, <1>2, <2>2 DEF SoundBase
  <2> QED BY <2>1, <2>2
<1>6. Grown(run[j], r)
  BY <1>2 DEF Grown
<1>7. RdsStep
  BY SameRds DEF ReadActive
<1> QED BY <1>2, <1>3, <1>4, <1>5, <1>6, <1>7 DEF RunStep

LEMMA PrepareStep ==
  ASSUME IInv, NEW j \in Jobs, Prepare(j)
  PROVE  RunStep(j) /\ RdsStep
<1>1. RdsStep
  BY SameRds DEF Prepare
<1>2. run[j] \in Runs
  BY TypeParts DEF IInv
<1>3. "nochange" \in Places /\ "images" \in Places
  BY DEF Places, Ended
<1>4. CASE MayStop(run[j]) /\ Goto(j, "nochange")
  <2>1. At(run[j], "nochange").pc = "nochange" /\ MayStop(At(run[j], "nochange"))
    <3> DEFINE r == At(run[j], "nochange")
    <3>1. r.pc = "nochange" /\ r.args = run[j].args /\ r.conf = run[j].conf
          /\ r.commit = run[j].commit /\ r.secret = run[j].secret /\ r.base = run[j].base
      BY <1>2, <1>3, AtIs
    <3> HIDE DEF r
    <3>2. MayStop(r)
      BY <1>4, <3>1, SameChoices
    <3> QED BY <3>1, <3>2 DEF r
  <2>2. Local(At(run[j], "nochange"))
    BY <2>1 DEF Local
  <2> QED BY <1>1, <1>3, <1>4, <2>2, GotoStep
<1>5. CASE Goto(j, "images")
  <2>1. Local(At(run[j], "images"))
    BY <1>2, <1>3, AtIs, LocalElsewhere
  <2> QED BY <1>1, <1>3, <1>5, <2>1, GotoStep
<1> QED BY <1>4, <1>5 DEF Prepare

LEMMA SetImagesStep ==
  ASSUME IInv, NEW j \in Jobs, SetImages(j)
  PROVE  RunStep(j) /\ RdsStep
<1>1. TypeOK /\ SoundBase(run[j])
  BY DEF IInv
<1>2. PICK r \in Runs :
           /\ run' = [run EXCEPT ![j] = r] /\ WellFormed(r)
           /\ r.pc \in {"failed", "apply"} /\ r.args = run[j].args /\ r.conf = run[j].conf
           /\ r.commit = run[j].commit /\ r.built = run[j].built /\ r.base = run[j].base
           /\ r.pc = "apply" => ~Invalid(r)
  BY <1>1, SetImagesIs
<1>3. Local(r)
  BY <1>2 DEF Local, Invalid
<1>4. SoundBase(r)
  BY <1>1, <1>2 DEF SoundBase
<1>5. Grown(run[j], r)
  BY <1>2 DEF Grown
<1>6. RdsStep
  BY SameRds DEF SetImages
<1> QED BY <1>2, <1>3, <1>4, <1>5, <1>6 DEF RunStep

LEMMA ApplyStep ==
  ASSUME IInv, NEW j \in Jobs, ApplyRadixApplication(j)
  PROVE  RunStep(j) /\ RdsStep /\ ra' \in Configs
<1> DEFINE r == run[j]
           todo == IF r.args.type = "apply-config" THEN Envs[r.conf] ELSE Targets(r.args, r.conf)
           r1 == At(r, AfterApply(r))
           r2 == WithTodo(r1, todo)
<1>1. r \in Runs /\ WellFormed(r) /\ Local(r) /\ SoundBase(r) /\ r.pc = "apply"
  BY TypeParts DEF IInv, ApplyRadixApplication
<1>2. run' = [run EXCEPT ![j] = r2]
  BY DEF ApplyRadixApplication, At, WithTodo
<1>3. RdsStep /\ ra' \in Configs
  BY <1>1, SameRds, RunParts DEF ApplyRadixApplication
<1> HIDE DEF r
<1>4. r.args.type \in Types /\ r.conf \in Configs /\ r.args \in Arguments
  BY <1>1, RunParts, ArgumentParts
<1>5. /\ AfterApply(r) \in Places \ {"asked", "apply", "wait", "nochange"}
      /\ AfterApply(r) = "build" => r.args.type \in Building
      /\ AfterApply(r) = "deploy" => r.args.type = "deploy"
      /\ AfterApply(r) = "promote" => r.args.type = "promote"
      /\ AfterApply(r) # "create" /\ (AfterApply(r) = "config" => r.args.type = "apply-config")
  BY <1>4 DEF AfterApply, Types, Places, Building, Ended
<1>6. todo \in Seq(Environments) /\ (r.args.type # "apply-config" => todo = Targets(r.args, r.conf))
  BY <1>4, TargetsTyped, Constants
<1> HIDE DEF todo
<1>7. r1 \in Runs /\ r1.pc = AfterApply(r) /\ r1.args = r.args /\ r1.conf = r.conf
      /\ r1.commit = r.commit /\ r1.secret = r.secret /\ r1.base = r.base /\ r1.built = r.built
  BY <1>1, <1>5, AtIs
<1> HIDE DEF r1
<1>8. r2 \in Runs /\ r2.pc = AfterApply(r) /\ r2.args = r.args /\ r2.conf = r.conf /\ r2.todo = todo
      /\ r2.commit = r.commit /\ r2.secret = r.secret /\ r2.base = r.base /\ r2.built = r.built
  BY <1>6, <1>7, WithTodoIs
<1> HIDE DEF r2
<1>9. Builds(r2) = Builds(r) /\ TargetsOf(r2) = TargetsOf(r)
  BY <1>8, SameChoices
<1>10. r.args.type = "deploy" => Builds(r) = {}
  BY <1>1 DEF Local
<1>11. Local(r2)
  <2>1. r2.pc \in {"build", "deploy"} => Members(r2.todo) \subseteq TargetsOf(r2)
    <3>1. r2.pc \in {"build", "deploy"} => r.args.type # "apply-config"
      BY <1>5, <1>8 DEF Building
    <3> QED BY <1>6, <1>8, <1>9, <3>1 DEF TargetsOf
  <2> QED BY <1>5, <1>8, <1>9, <1>10, <2>1 DEF Local
<1>12. WellFormed(r2)
  BY <1>1, <1>5, <1>8 DEF WellFormed
<1>13. SoundBase(r2)
  BY <1>1, <1>8 DEF SoundBase
<1>14. Grown(r, r2)
  BY <1>8 DEF Grown
<1> QED BY <1>2, <1>3, <1>5, <1>8, <1>11, <1>12, <1>13, <1>14 DEF RunStep, r

LEMMA BuildStep ==
  ASSUME IInv, NEW j \in Jobs, NEW b \in Environments \X Components, Build(j, b)
  PROVE  RunStep(j) /\ RdsStep
<1> DEFINE r == run[j]
           r1 == WithBuilt(r, r.built \cup {b})
<1>1. r \in Runs /\ WellFormed(r) /\ Local(r) /\ SoundBase(r) /\ r.pc = "build"
  BY TypeParts DEF IInv, Build
<1>2. run' = [run EXCEPT ![j] = r1]
  BY DEF Build, WithBuilt
<1>3. RdsStep
  BY SameRds DEF Build
<1> HIDE DEF r
<1>4. r.built \cup {b} \in SUBSET (Environments \X Components)
  BY <1>1, RunParts
<1>5. r1 \in Runs /\ r1.pc = "build" /\ r1.args = r.args /\ r1.conf = r.conf /\ r1.todo = r.todo
      /\ r1.commit = r.commit /\ r1.secret = r.secret /\ r1.base = r.base
      /\ r1.built = r.built \cup {b}
  BY <1>1, <1>4, WithBuiltIs
<1> HIDE DEF r1
<1>6. TargetsOf(r1) = TargetsOf(r)
  BY <1>5, SameChoices
<1>7. Local(r1)
  BY <1>1, <1>5, <1>6 DEF Local
<1>8. WellFormed(r1)
  BY <1>1, <1>5 DEF WellFormed
<1>9. SoundBase(r1)
  BY <1>1, <1>5 DEF SoundBase
<1>10. Grown(r, r1)
  BY <1>5 DEF Grown
<1> QED BY <1>2, <1>3, <1>5, <1>7, <1>8, <1>9, <1>10 DEF RunStep, r

(* Where a runner goes next, with what it has. *)
LEMMA LocalAt ==
  ASSUME NEW r \in Runs, NEW pc \in Places,
         pc \notin {"asked", "apply", "promote", "nochange"},
         pc = "build" => r.args.type \in Building,
         pc \in {"config", "create"} => r.args.type = "apply-config",
         pc \in {"deploy", "wait"} => /\ r.args.type \in {"build-deploy", "deploy"}
                                      /\ Builds(r) \subseteq r.built
                                      /\ r.args.type = "deploy" => Builds(r) = {},
         pc \in {"build", "deploy", "wait"} => Members(r.todo) \subseteq TargetsOf(r)
  PROVE  Local(At(r, pc))
<1> DEFINE s == At(r, pc)
<1>1. s.pc = pc /\ s.args = r.args /\ s.conf = r.conf /\ s.commit = r.commit /\ s.todo = r.todo
      /\ s.secret = r.secret /\ s.base = r.base /\ s.built = r.built
  BY AtIs
<1> HIDE DEF s
<1>2. Builds(s) = Builds(r) /\ TargetsOf(s) = TargetsOf(r)
  BY <1>1, SameChoices
<1>3. Local(s)
  BY <1>1, <1>2 DEF Local
<1> QED BY <1>3 DEF s

LEMMA BuildsDoneStep ==
  ASSUME IInv, NEW j \in Jobs, BuildsDone(j)
  PROVE  RunStep(j) /\ RdsStep
<1>1. run[j] \in Runs /\ Local(run[j]) /\ run[j].pc = "build" /\ Builds(run[j]) \subseteq run[j].built
  BY TypeParts DEF IInv, BuildsDone
<1>2. RdsStep
  BY SameRds DEF BuildsDone
<1>3. "succeeded" \in Places /\ "deploy" \in Places
  BY DEF Places, Ended
<1>4. run[j].args.type \in {"build", "build-deploy"} /\ Members(run[j].todo) \subseteq TargetsOf(run[j])
  BY <1>1 DEF Local, Building
<1>5. CASE run[j].args.type = "build"
  <2>1. Goto(j, "succeeded")
    BY <1>5 DEF BuildsDone
  <2>2. Local(At(run[j], "succeeded"))
    BY <1>1, <1>3, LocalAt
  <2> QED BY <1>2, <1>3, <2>1, <2>2, GotoStep
<1>6. CASE run[j].args.type # "build"
  <2>1. Goto(j, "deploy")
    BY <1>6 DEF BuildsDone
  <2>2. Local(At(run[j], "deploy"))
    BY <1>1, <1>3, <1>4, <1>6, LocalAt
  <2> QED BY <1>2, <1>3, <2>1, <2>2, GotoStep
<1> QED BY <1>5, <1>6

LEMMA DeployStep ==
  ASSUME IInv, NEW j \in Jobs, Deploy(j)
  PROVE  RunStep(j) /\ RdsStep
<1>1. run[j] \in Runs /\ Local(run[j]) /\ run[j].pc = "deploy"
  BY TypeParts DEF IInv, Deploy
<1>2. "succeeded" \in Places /\ "wait" \in Places
  BY DEF Places, Ended
<1>3. CASE run[j].todo = <<>> /\ Goto(j, "succeeded") /\ UNCHANGED rds
  <2>1. Local(At(run[j], "succeeded"))
    BY <1>1, <1>2, LocalAt
  <2>2. RdsStep
    BY <1>3, SameRds
  <2> QED BY <1>2, <1>3, <2>1, <2>2, GotoStep
<1>4. CASE /\ run[j].todo # <<>> /\ Goto(j, "wait")
           /\ Create(Head(run[j].todo), Construct(j, run[j], Head(run[j].todo)))
  <2>1. run[j].todo \in Seq(Environments)
    BY <1>1, RunParts
  <2>2. Members(run[j].todo) \subseteq TargetsOf(run[j])
    BY <1>1 DEF Local
  <2>3. Head(run[j].todo) \in TargetsOf(run[j]) /\ Head(run[j].todo) \in Environments
    BY <1>4, <2>1, <2>2, TailMembers
  <2>4. Local(At(run[j], "wait"))
    <3>1. /\ run[j].args.type \in {"build-deploy", "deploy"} /\ Builds(run[j]) \subseteq run[j].built
          /\ run[j].args.type = "deploy" => Builds(run[j]) = {}
      BY <1>1 DEF Local
    <3> QED BY <1>1, <1>2, <2>2, <3>1, LocalAt
  <2>5. RunStep(j)
    BY <1>2, <1>4, <2>4, GotoStep
  <2>6. Construct(j, run[j], Head(run[j].todo)) \in Deployments
    BY <1>1, <2>3, ConstructTyped
  <2>7. Sound(Construct(j, run[j], Head(run[j].todo)), Head(run[j].todo))
    BY <1>1, <2>3, ConstructSound
  <2>8. RdsStep
    BY <1>4, <2>3, <2>6, <2>7, CreateStep
  <2> QED BY <2>5, <2>8
<1> QED BY <1>3, <1>4 DEF Deploy

(* The next place, and one environment less to do. *)
LEMMA MoveStep ==
  ASSUME IInv, NEW j \in Jobs, NEW pc \in Places, NEW todo \in Seq(Environments),
         run' = [run EXCEPT ![j] = WithTodo(At(run[j], pc), todo)],
         pc \in {"deploy", "create"},
         pc = "deploy" => run[j].pc = "wait" /\ Members(todo) \subseteq Members(run[j].todo),
         pc = "create" => run[j].pc \in {"config", "create"}
  PROVE  RunStep(j)
<1> DEFINE r == run[j]
           r1 == At(r, pc)
           r2 == WithTodo(r1, todo)
<1>1. r \in Runs /\ WellFormed(r) /\ Local(r) /\ SoundBase(r)
  BY TypeParts DEF IInv
<1>2. /\ pc = "deploy" =>
           /\ r.args.type \in {"build-deploy", "deploy"} /\ Builds(r) \subseteq r.built
           /\ r.args.type = "deploy" => Builds(r) = {}
           /\ Members(todo) \subseteq TargetsOf(r)
      /\ pc = "create" => r.args.type = "apply-config"
  BY <1>1 DEF Local
<1>3. run' = [run EXCEPT ![j] = r2]
  OBVIOUS
<1> HIDE DEF r
<1>4. r1 \in Runs /\ r1.pc = pc /\ r1.args = r.args /\ r1.conf = r.conf
      /\ r1.commit = r.commit /\ r1.secret = r.secret /\ r1.base = r.base /\ r1.built = r.built
  BY <1>1, AtIs
<1> HIDE DEF r1
<1>5. r2 \in Runs /\ r2.pc = pc /\ r2.args = r.args /\ r2.conf = r.conf /\ r2.todo = todo
      /\ r2.commit = r.commit /\ r2.secret = r.secret /\ r2.base = r.base /\ r2.built = r.built
  BY <1>4, WithTodoIs
<1> HIDE DEF r2
<1>6. Builds(r2) = Builds(r) /\ TargetsOf(r2) = TargetsOf(r)
  BY <1>5, SameChoices
<1>7. Local(r2)
  BY <1>2, <1>5, <1>6 DEF Local
<1>8. WellFormed(r2)
  BY <1>1, <1>5 DEF WellFormed
<1>9. SoundBase(r2)
  BY <1>1, <1>5 DEF SoundBase
<1>10. Grown(r, r2)
  BY <1>5 DEF Grown
<1> QED BY <1>3, <1>5, <1>7, <1>8, <1>9, <1>10 DEF RunStep, r

LEMMA SeesActiveStep ==
  ASSUME IInv, NEW j \in Jobs, SeesActive(j)
  PROVE  RunStep(j) /\ RdsStep
<1>1. run[j] \in Runs /\ WellFormed(run[j]) /\ run[j].pc = "wait"
  BY TypeParts DEF IInv, SeesActive
<1>2. run[j].todo \in Seq(Environments) /\ run[j].todo # <<>>
  BY <1>1, RunParts DEF WellFormed
<1>3. Tail(run[j].todo) \in Seq(Environments) /\ Members(Tail(run[j].todo)) \subseteq Members(run[j].todo)
  BY <1>2, TailMembers
<1>4. run' = [run EXCEPT ![j] = WithTodo(At(run[j], "deploy"), Tail(run[j].todo))]
  BY DEF SeesActive, At, WithTodo
<1>5. "deploy" \in Places
  BY DEF Places
<1>6. RunStep(j)
  BY <1>1, <1>3, <1>4, <1>5, MoveStep
<1> QED BY <1>6, SameRds DEF SeesActive

-----------------------------------------------------------------------------
(* Copies of RadixDeployments: the components of the copy have the images of the
   original. *)
CopyOf(rd, j, comps) == [rd EXCEPT !.job = j, !.cond = "New", !.comps = comps]

LEMMA CopyIs ==
  ASSUME NEW rd \in Deployments, NEW j \in Jobs,
         NEW comps \in [Components -> DeployComponents \cup {Missing}]
  PROVE  /\ CopyOf(rd, j, comps) \in Deployments
         /\ CopyOf(rd, j, comps).commit = rd.commit /\ CopyOf(rd, j, comps).conf = rd.conf
         /\ CopyOf(rd, j, comps).comps = comps /\ CopyOf(rd, j, comps).job = j
         /\ CopyOf(rd, j, comps).cond = "New"
BY DEF Deployments, CopyOf, Conditions

LEMMA CopyGood ==
  ASSUME NEW rd \in Deployments, NEW j \in Jobs, NEW e \in Environments, NEW f \in Environments,
         GoodRd(rd, f), e = f \/ ~NoPromotes,
         NEW comps \in [Components -> DeployComponents \cup {Missing}],
         \A c \in Components : comps[c] # Missing =>
           rd.comps[c] # Missing /\ comps[c].image = rd.comps[c].image
  PROVE  GoodRd(CopyOf(rd, j, comps), e)
<1> SUFFICES ASSUME NEW c \in Components, comps[c] # Missing, Comparable(c, rd.conf)
             PROVE  GoodImage(comps[c].image, c, e, rd.conf, rd.commit)
  BY CopyIs DEF GoodRd
<1>1. GoodImage(comps[c].image, c, f, rd.conf, rd.commit)
  BY DEF GoodRd
<1>2. \/ e = f
      \/ (c \in Fixed[rd.conf][e] <=> c \in Fixed[rd.conf][f]) /\ Source[rd.conf][e][c] = Source[rd.conf][f][c]
  BY DEF Comparable, SameEverywhere
<1> QED BY <1>1, <1>2 DEF GoodImage, BuiltFrom

LEMMA CopyWhole ==
  ASSUME NEW rd \in Deployments, NEW j \in Jobs, NEW e, Whole(rd, e),
         NEW comps \in [Components -> DeployComponents \cup {Missing}],
         \A c \in Components : /\ comps[c] = Missing <=> rd.comps[c] = Missing
                               /\ comps[c] # Missing => /\ comps[c].conf = rd.comps[c].conf
                                                        /\ AliasGiven(comps[c].dns, c, e, rd.conf)
  PROVE  Whole(CopyOf(rd, j, comps), e)
BY CopyIs DEF Whole

(* The settings of a deployed component change, its image does not. *)
NewDns(comp, dns) == [comp EXCEPT !.dns = dns]
NewSettings(comp, conf, dns) == [comp EXCEPT !.conf = conf, !.dns = dns]

LEMMA NewDnsIs ==
  ASSUME NEW comp \in DeployComponents, NEW dns \in BOOLEAN
  PROVE  /\ NewDns(comp, dns) \in DeployComponents
         /\ NewDns(comp, dns).image = comp.image /\ NewDns(comp, dns).conf = comp.conf
         /\ NewDns(comp, dns).dns = dns
BY DEF DeployComponents, NewDns

LEMMA NewSettingsIs ==
  ASSUME NEW comp \in DeployComponents, NEW conf \in Configs, NEW dns \in BOOLEAN
  PROVE  /\ NewSettings(comp, conf, dns) \in DeployComponents
         /\ NewSettings(comp, conf, dns).image = comp.image
BY DEF DeployComponents, NewSettings

PromotedComps(rd, e) ==
  [c \in Components |-> IF rd.comps[c] = Missing THEN Missing
                        ELSE NewSettings(rd.comps[c], ra, c \in Dns[ra][e])]

LEMMA PromotedTyped ==
  ASSUME TypeOK, NEW rd \in Deployments, NEW e
  PROVE  /\ PromotedComps(rd, e) \in [Components -> DeployComponents \cup {Missing}]
         /\ \A c \in Components : PromotedComps(rd, e)[c] # Missing =>
              rd.comps[c] # Missing /\ PromotedComps(rd, e)[c].image = rd.comps[c].image
<1>1. ASSUME NEW c \in Components, rd.comps[c] # Missing
      PROVE  /\ NewSettings(rd.comps[c], ra, c \in Dns[ra][e]) \in DeployComponents
             /\ NewSettings(rd.comps[c], ra, c \in Dns[ra][e]).image = rd.comps[c].image
  <2>1. rd.comps[c] \in DeployComponents /\ ra \in Configs
    BY <1>1, DeploymentParts DEF TypeOK
  <2>2. (c \in Dns[ra][e]) \in BOOLEAN
    OBVIOUS
  <2> QED BY <2>1, <2>2, NewSettingsIs, Zenon
<1> QED BY <1>1 DEF PromotedComps

RedeployedComps(r, e) ==
  [c \in Components |-> IF r.base[e].comps[c] = Missing THEN Missing
                        ELSE NewDns(r.base[e].comps[c], c \in Dns[r.conf][e])]

LEMMA RedeployedIs ==
  ASSUME NEW j, NEW r, NEW e
  PROVE  Redeployed(j, r, e) = CopyOf(r.base[e], j, RedeployedComps(r, e))
BY DEF Redeployed, CopyOf, RedeployedComps, NewDns

LEMMA RedeployedTyped ==
  ASSUME NEW r, NEW e, r.base[e] \in Deployments
  PROVE  /\ RedeployedComps(r, e) \in [Components -> DeployComponents \cup {Missing}]
         /\ \A c \in Components :
              /\ RedeployedComps(r, e)[c] = Missing <=> r.base[e].comps[c] = Missing
              /\ RedeployedComps(r, e)[c] # Missing =>
                   /\ RedeployedComps(r, e)[c].image = r.base[e].comps[c].image
                   /\ RedeployedComps(r, e)[c].conf = r.base[e].comps[c].conf
                   /\ RedeployedComps(r, e)[c].dns = (c \in Dns[r.conf][e])
<1> DEFINE rd == r.base[e]
<1>1. ASSUME NEW c \in Components, rd.comps[c] # Missing
      PROVE  /\ NewDns(rd.comps[c], c \in Dns[r.conf][e]) \in DeployComponents
             /\ NewDns(rd.comps[c], c \in Dns[r.conf][e]).image = rd.comps[c].image
             /\ NewDns(rd.comps[c], c \in Dns[r.conf][e]).conf = rd.comps[c].conf
             /\ NewDns(rd.comps[c], c \in Dns[r.conf][e]).dns = (c \in Dns[r.conf][e])
  <2>1. rd.comps[c] \in DeployComponents
    BY <1>1, DeploymentParts
  <2>2. (c \in Dns[r.conf][e]) \in BOOLEAN
    OBVIOUS
  <2> HIDE DEF rd
  <2> QED BY <2>1, <2>2, NewDnsIs, Zenon
<1> QED BY <1>1, Constants DEF RedeployedComps

LEMMA PromoteStep ==
  ASSUME IInv, NEW j \in Jobs, Promote(j)
  PROVE  RunStep(j) /\ RdsStep
<1> DEFINE r == run[j]
<1>1. TypeOK /\ r \in Runs /\ Local(r) /\ r.pc = "promote"
  <2>1. r.pc = "promote"
    BY Zenon DEF Promote
  <2> QED BY <2>1, TypeParts DEF IInv
<1>2. r.args.type = "promote" /\ r.args.to \in Environments /\ r.args.from \in Environments
  <2>1. r.args.type = "promote"
    BY <1>1 DEF Local
  <2> QED BY <1>1, <2>1, RunParts, ArgumentParts
<1>3. ~NoPromotes
  BY <1>1, <1>2 DEF NoPromotes
<1>4. "failed" \in Places /\ "succeeded" \in Places
  BY DEF Places, Ended
<1>5. Local(At(r, "failed")) /\ Local(At(r, "succeeded"))
  BY <1>1, <1>4, LocalAt
<1>6. CASE Goto(j, "failed") /\ UNCHANGED rds
  BY <1>4, <1>5, <1>6, GotoStep, SameRds
<1>7. ASSUME NEW rd \in Members(rds[r.args.from]), Goto(j, "succeeded"),
             Create(r.args.to, CopyOf(rd, j, PromotedComps(rd, r.args.to)))
      PROVE  RunStep(j) /\ RdsStep
  <2>1. rd \in Deployments
    BY <1>1, <1>2, MembersTyped DEF TypeOK
  <2>2. GoodRd(rd, r.args.from)
    BY <1>2 DEF IInv, Sound
  <2>3. /\ CopyOf(rd, j, PromotedComps(rd, r.args.to)) \in Deployments
        /\ GoodRd(CopyOf(rd, j, PromotedComps(rd, r.args.to)), r.args.to)
    BY <1>1, <1>2, <1>3, <2>1, <2>2, PromotedTyped, CopyIs, CopyGood
  <2>4. RdsStep
    BY <1>2, <1>3, <1>7, <2>3, CreateStep DEF Sound
  <2> QED BY <1>4, <1>5, <1>7, <2>4, GotoStep
<1>8. \/ Goto(j, "failed") /\ UNCHANGED rds
      \/ \E rd \in Members(rds[r.args.from]) :
           Goto(j, "succeeded") /\ Create(r.args.to, CopyOf(rd, j, PromotedComps(rd, r.args.to)))
  BY Zenon DEF Promote, CopyOf, PromotedComps, NewSettings
<1> QED BY <1>6, <1>7, <1>8

LEMMA BuildDeploymentsStep ==
  ASSUME IInv, NEW j \in Jobs, BuildDeployments(j)
  PROVE  RunStep(j) /\ RdsStep
<1>1. run[j] \in Runs
  BY TypeParts DEF IInv
<1>2. RdsStep
  BY SameRds DEF BuildDeployments
<1>3. "failed" \in Places /\ "create" \in Places
  BY DEF Places, Ended
<1>4. CASE Goto(j, "failed")
  <2>1. Local(At(run[j], "failed"))
    BY <1>1, <1>3, LocalAt
  <2> QED BY <1>2, <1>3, <1>4, <2>1, GotoStep
<1>5. CASE run' = [run EXCEPT ![j] = [run[j] EXCEPT !.pc = "create", !.todo = Envs[run[j].conf]]]
  <2>1. Envs[run[j].conf] \in Seq(Environments)
    BY <1>1, RunParts, Constants
  <2>2. run' = [run EXCEPT ![j] = WithTodo(At(run[j], "create"), Envs[run[j].conf])]
    BY <1>5 DEF WithTodo, At
  <2>3. run[j].pc = "config"
    BY Zenon DEF BuildDeployments
  <2> QED BY <1>2, <1>3, <2>1, <2>2, <2>3, MoveStep
<1> QED BY <1>4, <1>5, Zenon DEF BuildDeployments

LEMMA RedeployedSound ==
  ASSUME IInv, NEW j \in Jobs, NEW r \in Runs, r = run[j], r.args.type = "apply-config", r.pc # "asked",
         SoundBase(r), NEW e \in Environments, r.base[e] # NoRd
  PROVE  Redeployed(j, r, e) \in Deployments /\ Sound(Redeployed(j, r, e), e)
<1>1. r.base[e] \in Deployments
  BY RunParts
<1>2. Sound(r.base[e], e)
  BY <1>1 DEF SoundBase
<1>3. /\ RedeployedComps(r, e) \in [Components -> DeployComponents \cup {Missing}]
      /\ \A c \in Components :
           /\ RedeployedComps(r, e)[c] = Missing <=> r.base[e].comps[c] = Missing
           /\ RedeployedComps(r, e)[c] # Missing =>
                /\ RedeployedComps(r, e)[c].image = r.base[e].comps[c].image
                /\ RedeployedComps(r, e)[c].conf = r.base[e].comps[c].conf
                /\ RedeployedComps(r, e)[c].dns = (c \in Dns[r.conf][e])
  BY <1>1, RedeployedTyped
<1>4. CopyOf(r.base[e], j, RedeployedComps(r, e)) \in Deployments
  BY <1>1, <1>3, CopyIs
<1>5. GoodRd(CopyOf(r.base[e], j, RedeployedComps(r, e)), e)
  <2>1. GoodRd(r.base[e], e)
    BY <1>2 DEF Sound
  <2> QED BY <1>1, <1>3, <2>1, CopyGood
<1>6. NoPromotes => Whole(CopyOf(r.base[e], j, RedeployedComps(r, e)), e)
  <2>1. NoPromotes => Whole(r.base[e], e)
    BY <1>2 DEF Sound
  <2>2. \A c \in Components : AliasGiven(c \in Dns[r.conf][e], c, e, r.base[e].conf)
    BY DEF AliasGiven
  <2>3. \A c \in Components : RedeployedComps(r, e)[c] # Missing =>
          AliasGiven(RedeployedComps(r, e)[c].dns, c, e, r.base[e].conf)
    BY <1>3, <2>2
  <2> QED BY <1>1, <1>3, <2>1, <2>3, CopyWhole
<1> QED BY <1>4, <1>5, <1>6, RedeployedIs DEF Sound

LEMMA ApplyDeploymentStep ==
  ASSUME IInv, NEW j \in Jobs, ApplyDeployment(j)
  PROVE  RunStep(j) /\ RdsStep
<1> DEFINE r == run[j]
           e == Head(r.todo)
<1>1. r \in Runs /\ SoundBase(r) /\ r.pc = "create" /\ r.args.type = "apply-config"
  <2>1. r.pc = "create"
    BY Zenon DEF ApplyDeployment
  <2> QED BY <2>1, TypeParts DEF IInv, Local
<1>2. "create" \in Places /\ "await" \in Places
  BY DEF Places
<1>3. CASE Goto(j, "await") /\ UNCHANGED rds
  <2>1. Local(At(r, "await"))
    BY <1>1, <1>2, LocalAt
  <2> QED BY <1>2, <1>3, <2>1, GotoStep, SameRds
<1>4. CASE /\ r.todo # <<>>
           /\ run' = [run EXCEPT ![j].todo = Tail(@)]
           /\ \/ UNCHANGED rds
              \/ r.base[e] # NoRd /\ Create(e, Redeployed(j, r, e))
  <2>1. r.todo \in Seq(Environments)
    BY <1>1, RunParts
  <2>2. Tail(r.todo) \in Seq(Environments) /\ e \in Environments
    BY <1>4, <2>1
  <2>3. run' = [run EXCEPT ![j] = WithTodo(At(r, "create"), Tail(r.todo))]
    <3>1. At(r, "create") = r
      BY <1>1 DEF At, Runs
    <3> QED BY <1>4, <3>1 DEF WithTodo
  <2>4. RunStep(j)
    BY <1>1, <1>2, <2>2, <2>3, MoveStep
  <2>5. RdsStep
    <3>1. CASE UNCHANGED rds
      BY <3>1, SameRds
    <3>2. CASE r.base[e] # NoRd /\ Create(e, Redeployed(j, r, e))
      <4> HIDE DEF e
      <4>1. Redeployed(j, r, e) \in Deployments /\ Sound(Redeployed(j, r, e), e)
        BY <1>1, <2>2, <3>2, RedeployedSound
      <4> QED BY <2>2, <3>2, <4>1, CreateStep
    <3> QED BY <1>4, <3>1, <3>2
  <2> QED BY <2>4, <2>5
<1> QED BY <1>3, <1>4, Zenon DEF ApplyDeployment, Candidates

LEMMA AllActiveStep ==
  ASSUME IInv, NEW j \in Jobs, AllActive(j)
  PROVE  RunStep(j) /\ RdsStep
<1>1. run[j] \in Runs
  BY TypeParts DEF IInv
<1>2. "succeeded" \in Places
  BY DEF Places, Ended
<1>3. Local(At(run[j], "succeeded"))
  BY <1>1, <1>2, LocalAt
<1> QED BY <1>2, <1>3, GotoStep, SameRds DEF AllActive

(* A run that ends in one of these ways has nothing more to decide. *)
LEMMA EndStep ==
  ASSUME IInv, NEW j \in Jobs, NEW end \in {"failed", "stopped", "killed", "undeleted"}, Goto(j, end)
  PROVE  RunStep(j)
<1>1. run[j] \in Runs
  BY TypeParts DEF IInv
<1>2. end \in Places
  BY DEF Places, Ended
<1>3. Local(At(run[j], end))
  BY <1>1, <1>2, LocalAt
<1> QED BY <1>2, <1>3, GotoStep

LEMMA GiveUpStep ==
  ASSUME IInv, NEW j \in Jobs, GiveUp(j)
  PROVE  RunStep(j) /\ RdsStep
<1>1. run[j] \in Runs /\ WellFormed(run[j]) /\ run[j].pc = "wait"
  BY TypeParts DEF IInv, GiveUp
<1>2. run[j].todo \in Seq(Environments) /\ run[j].todo # <<>>
  BY <1>1, RunParts DEF WellFormed
<1>3. Head(run[j].todo) \in Environments
  BY <1>2
<1>4. CASE Goto(j, "undeleted") /\ UNCHANGED rds
  BY <1>4, EndStep, SameRds
<1>5. CASE /\ \E end \in {"failed", "stopped"} : Goto(j, end)
           /\ rds' = [rds EXCEPT ![Head(run[j].todo)] = WithGone(j, rds[Head(run[j].todo)])]
  BY <1>3, <1>5, EndStep, GoneStep
<1> QED BY <1>4, <1>5 DEF GiveUp, WithGone

LEMMA FailStep == ASSUME IInv, NEW j \in Jobs, Fail(j) PROVE RunStep(j) /\ RdsStep
BY EndStep, SameRds DEF Fail

LEMMA KillStep == ASSUME IInv, NEW j \in Jobs, Kill(j) PROVE RunStep(j) /\ RdsStep
BY EndStep, SameRds DEF Kill

(* The operator's steps leave the runs alone. *)
LEMMA OperatorKeepsIInv ==
  ASSUME IInv, RdsStep, UNCHANGED <<run, ra, faults>>
  PROVE  IInv'
<1>1. TypeOK'
  <2>1. RdsTyped' /\ TypeOK
    BY DEF IInv, RdsStep
  <2> QED BY <2>1 DEF TypeOK, RdsTyped
<1>2. ASSUME NEW rd, NEW e, Sound(rd, e) PROVE Sound(rd, e)'
  BY <1>2 DEF Sound, GoodRd, Whole, GoodImage, Comparable, SameEverywhere, AliasGiven, BuiltFrom, NoPromotes
<1>3. \A e \in Environments : \A rd \in Members(rds'[e]) : Sound(rd, e)'
  BY <1>2 DEF RdsStep
<1>4. ASSUME NEW k \in Jobs PROVE Local(run[k])' /\ SoundBase(run[k])'
  <2>1. Local(run'[k]) /\ SoundBase(run'[k])
    BY DEF IInv
  <2>2. Local(run[k])'
    <3>1. Builds(run[k])' = Builds(run'[k])
      BY DEF Builds, FromBuild, TargetsOf, HasContext, SameConfig, ChangedIn, Deployed
    <3>2. TargetsOf(run[k])' = TargetsOf(run'[k])
      BY DEF TargetsOf
    <3>3. MayStop(run[k])' <=> MayStop(run'[k])
      BY DEF MayStop, TargetsOf, HasContext, SameConfig, ChangedIn
    <3> QED BY <2>1, <3>1, <3>2, <3>3 DEF Local
  <2>3. SoundBase(run[k])'
    BY <1>2, <2>1 DEF SoundBase
  <2> QED BY <2>2, <2>3
<1> QED BY <1>1, <1>3, <1>4 DEF IInv

LEMMA InitIInv == Init => IInv
<1> SUFFICES ASSUME Init PROVE IInv
  OBVIOUS
<1>1. TypeOK
  BY InitTyped
<1>2. ASSUME NEW j \in Jobs PROVE Local(run[j]) /\ SoundBase(run[j])
  <2>1. run[j] = OldRun \/ \E args \in Arguments : run[j] = NewRun(args)
    BY RunsAtFirst
  <2>2. \A args \in Arguments : /\ NewRun(args).pc = "asked" /\ NewRun(args).built = {}
                                /\ NewRun(args).base = [e \in Environments |-> NoRd]
    BY NewRunIs
  <2>3. /\ run[j].pc = "succeeded" \/ (run[j].pc = "asked" /\ run[j].built = {})
        /\ \A e \in Environments : run[j].base[e] = NoRd
    <3>1. CASE run[j] = OldRun
      <4>1. run[j].pc = "succeeded" /\ run[j].base = [e \in Environments |-> NoRd]
        BY <3>1, OldRunIs, Zenon
      <4>2. \A e \in Environments : run[j].base[e] = NoRd
        BY <4>1
      <4>3. run[j].pc = "succeeded"
        BY <4>1
      <4> QED BY <4>2, <4>3
    <3>2. CASE \E args \in Arguments : run[j] = NewRun(args)
      <4>1. /\ run[j].pc = "asked" /\ run[j].built = {}
            /\ run[j].base = [e \in Environments |-> NoRd]
        BY <2>2, <3>2, Zenon
      <4>2. \A e \in Environments : run[j].base[e] = NoRd
        BY <4>1
      <4> QED BY <4>1, <4>2
    <3> QED BY <2>1, <3>1, <3>2
  <2> QED BY <2>3, Constants DEF Local, SoundBase
<1>3. ASSUME NEW e \in Members(Mapped[Conf0]) PROVE Sound(OldDeployment(e), e)
  <2>1. run[Old] = OldRun /\ Old \in Jobs
    BY Constants DEF Init
  <2>2. OldRun \in Runs /\ WellFormed(OldRun) /\ SoundBase(OldRun)
    BY <1>1, <1>2, <2>1, OldRunIs, TypeParts
  <2>3. /\ OldRun.args.type = "build-deploy" /\ OldRun.args.to = NoEnv
        /\ OldRun.conf = Conf0 /\ OldRun.built = Environments \X Components
    BY OldRunIs DEF OldRun, NewRun
  <2>4. TargetsOf(OldRun) = Members(Mapped[Conf0])
    BY <2>3 DEF TargetsOf, Targets
  <2>5. e \in Environments
    <3>1. Mapped[Conf0] \in Seq(Environments)
      BY Constants
    <3> QED BY <3>1, MembersTyped
  <2>6. Builds(OldRun) \subseteq OldRun.built
    BY <2>3 DEF Builds
  <2>7. Sound(Construct(Old, OldRun, e), e)
    BY <2>1, <2>2, <2>3, <2>4, <2>5, <2>6, ConstructSoundOf
  <2>8. Construct(Old, OldRun, e) \in Deployments /\ "Active" \in Conditions
    BY <2>1, <2>2, <2>5, ConstructTyped DEF Conditions
  <2> QED BY <2>7, <2>8, SoundWithCond DEF OldDeployment
<1>4. ASSUME NEW e \in Environments, NEW rd \in Members(rds[e]) PROVE Sound(rd, e)
  <2>1. e \in Members(Mapped[Conf0]) /\ rd = OldDeployment(e)
    BY <1>4 DEF Init, Members
  <2> QED BY <1>3, <2>1
<1> QED BY <1>1, <1>2, <1>4 DEF IInv

LEMMA NextKeepsIInv == IInv /\ [Next]_vars => IInv'
<1> SUFFICES ASSUME IInv, [Next]_vars PROVE IInv'
  OBVIOUS
<1>1. TypeOK
  BY DEF IInv
<1>2. ASSUME NEW j \in Jobs, RunnerStep(j) PROVE IInv'
  <2>1. CASE ApplyRadixApplication(j)
    <3>1. RunStep(j) /\ RdsStep /\ ra' \in Configs
      BY <2>1, ApplyStep
    <3>2. faults' \in 0..MaxFaults
      BY <1>1, <2>1, UnchangedTyped DEF ApplyRadixApplication
    <3> QED BY <3>1, <3>2, StepKeepsIInv
  <2>2. CASE ~ApplyRadixApplication(j)
    <3>1. ra' \in Configs /\ faults' \in 0..MaxFaults
      <4>1. UNCHANGED ra /\ UNCHANGED faults
        BY <1>2, <2>2, Zenon DEF RunnerStep, Start, ReadActive, Prepare, SetImages, Build, BuildsDone,
          Deploy, SeesActive, Promote, BuildDeployments, ApplyDeployment, AllActive
      <4> QED BY <1>1, <4>1, UnchangedTyped
    <3>2. RunStep(j) /\ RdsStep
      BY <1>2, <2>2, StartStep, ReadActiveStep, PrepareStep, SetImagesStep, BuildStep, BuildsDoneStep,
        DeployStep, SeesActiveStep, PromoteStep, BuildDeploymentsStep, ApplyDeploymentStep,
        AllActiveStep, Zenon DEF RunnerStep
    <3> QED BY <3>1, <3>2, StepKeepsIInv
  <2> QED BY <2>1, <2>2
<1>3. ASSUME NEW j \in Jobs, GiveUp(j) \/ Fail(j) \/ Kill(j) PROVE IInv'
  <2>1. RunStep(j) /\ RdsStep
    BY <1>3, GiveUpStep, FailStep, KillStep
  <2>2. Fault /\ UNCHANGED ra
    BY <1>3, Zenon DEF GiveUp, Fail, Kill
  <2> QED BY <1>1, <2>1, <2>2, UnchangedTyped, StepKeepsIInv
<1>4. ASSUME NEW e \in Environments, NEW i \in DOMAIN rds[e], Activate(e, i) \/ Inactivate(e, i)
      PROVE  IInv'
  <2>1. "Active" \in Conditions /\ "Inactive" \in Conditions
    BY DEF Conditions
  <2>2. RdsStep
    <3>1. CASE Activate(e, i)
      BY <2>1, <3>1, CondStep DEF Activate
    <3>2. CASE Inactivate(e, i)
      BY <2>1, <3>2, CondStep DEF Inactivate
    <3> QED BY <1>4, <3>1, <3>2
  <2>3. UNCHANGED <<run, ra, faults>>
    BY <1>4 DEF Activate, Inactivate
  <2> QED BY <2>2, <2>3, OperatorKeepsIInv
<1>5. CASE UNCHANGED vars
  BY <1>5, SameRds, OperatorKeepsIInv DEF vars
<1> QED BY <1>2, <1>3, <1>4, <1>5, Zenon DEF Next

(* What the runners read, choose and build, and what they construct, promote and copy,
   has its type. *)
THEOREM TypeCorrect == Spec => []TypeOK
<1>1. IInv => TypeOK
  BY DEF IInv
<1> QED BY <1>1, InitIInv, NextKeepsIInv, PTL DEF Spec

(* A RadixDeployment runs what its commit and its radixconfig say for its environment
   (getComponentSources, getPreservingDeployComponents): ImagesMatchCommit, in general. *)
THEOREM ImagesMatchCommitHolds == Spec => []ImagesMatchCommit
<1>1. IInv => ImagesMatchCommit
  BY DEF IInv, ImagesMatchCommit, Sound, GoodRd, GoodImage, Comparable
<1> QED BY <1>1, InitIInv, NextKeepsIInv, PTL DEF Spec

LEMMA IInvStopped == IInv => StoppedIsCurrent
<1> SUFFICES ASSUME IInv, NoPromotes, NEW j \in Jobs, run[j].pc = "nochange",
                    NEW e \in TargetsOf(run[j])
             PROVE  run[j].base[e] # NoRd /\ AsWanted(run[j], e, run[j].base[e])
  BY DEF StoppedIsCurrent
<1> DEFINE r == run[j]
<1>1. r \in Runs /\ WellFormed(r) /\ SoundBase(r) /\ MayStop(r)
  BY TypeParts DEF IInv, Local
<1> HIDE DEF r
<1>2. r.args.type \in Building /\ r.args \in Arguments /\ r.conf \in Configs
  BY <1>1, RunParts DEF MayStop, HasContext, Building
<1>3. e \in Environments /\ r.commit \in Commits
  BY <1>1, <1>2, TargetsTyped DEF TargetsOf, WellFormed, r
<1>4. SameConfig(r, e) /\ ChangedIn(r, e) = {}
  BY <1>1 DEF MayStop, r
<1>5. r.base[e] # NoRd /\ r.base[e] \in Deployments /\ r.base[e].conf = r.conf
  BY <1>1, <1>3, <1>4, RunParts DEF SameConfig
<1>6. Whole(r.base[e], e)
  BY <1>1, <1>3, <1>5 DEF SoundBase, Sound
<1>7. ASSUME NEW c \in Components, c \in Enabled[r.conf][e]
      PROVE  /\ r.base[e].comps[c] # Missing
             /\ GoodImage(r.base[e].comps[c].image, c, e, r.conf, r.commit)
  <2>1. r.base[e].comps[c] # Missing
    BY <1>5, <1>6, <1>7 DEF Whole
  <2>2. Comparable(c, r.conf)
    BY DEF Comparable
  <2>3. CASE c \in Fixed[r.conf][e]
    <3>1. GoodRd(r.base[e], e)
      BY <1>1, <1>3, <1>5 DEF SoundBase, Sound
    <3> QED BY <1>5, <2>1, <2>2, <2>3, <3>1 DEF GoodRd, GoodImage
  <2>4. CASE c \notin Fixed[r.conf][e]
    <3>1. BuiltFrom(r.base[e].comps[c].image, c, e, r.conf, r.commit)
      BY <1>1, <1>3, <1>4, <1>5, <1>7, <2>1, <2>2, <2>4, KeptIsCurrent DEF Deployed
    <3> QED BY <2>1, <2>4, <3>1 DEF GoodImage
  <2> QED BY <2>3, <2>4
<1> QED BY <1>5, <1>6, <1>7 DEF AsWanted, Whole, GoodImage, r

(* A pipeline that stops since nothing changed is right about it
   (getBuildDeployPipelineShouldBeStopped): StoppedIsCurrent, in general. *)
THEOREM StoppedIsCurrentHolds == Spec => []StoppedIsCurrent
BY IInvStopped, InitIInv, NextKeepsIInv, PTL DEF Spec
=============================================================================
