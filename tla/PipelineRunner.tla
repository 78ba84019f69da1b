---------------------------- MODULE PipelineRunner ----------------------------
(***************************************************************************)
(* Pipelines of one application: what they read, build and deploy.         *)
(* pipeline-runner, with the activation of RadixDeployments reduced to     *)
(* what a runner can see of it (module RadixDeployment has the rest).      *)
(*                                                                         *)
(* A runner clones the repository, reads the active RadixDeployment of     *)
(* each target environment once, at the start, and decides from that copy  *)
(* what has changed, what to build, what to keep and whether to stop at    *)
(* all.  Other pipelines and the operator step in between.  Nothing is     *)
(* assumed of which pipelines run together: the queue goes by the stored   *)
(* RadixApplication, the runner by the one it cloned.                      *)
(***************************************************************************)
EXTENDS Naturals, Sequences

CONSTANTS
  Jobs, NoJob,           \* RadixJobs; also the origin of an image that radixconfig names
  Environments, NoEnv,
  Components,
  Commits, NoCommit,     \* commits; none: the head of the branch
  Lost,                  \* commits that were removed from the repository
  Configs,               \* versions of radixconfig, and what each says:
  Envs, Mapped,          \* its environments, and those mapped to the branch, in order
  Enabled,               \* the components of an environment
  Fixed,                 \* those whose image is given there
  Source,                \* those built: the folder's content, by environment, component and commit
  Dns,                   \* those that have an external alias there
  Secrets,               \* versions of the build secrets
  Requests,              \* [Jobs -> Arguments]: the pipelines that are asked for
  Old, Conf0, Commit0, Secret0,  \* the job that deployed everything, and from what
  NoRd, Missing,         \* no RadixDeployment; a component that is not in it
  MaxFaults              \* bound: errors, stops and kills in a behaviour

Types == {"build-deploy", "build", "deploy", "promote", "apply-config"}

(* to: the environment to deploy or promote to; from and rd: the RadixDeployment to
   promote; only: the components to deploy, which the api-server asks of no other type. *)
Arguments ==
  {args \in [type : Types, commit : Commits \cup {NoCommit}, to : Environments \cup {NoEnv},
             from : Environments \cup {NoEnv}, rd : Jobs, only : SUBSET Components] :
     /\ args.type # "deploy" => args.only = {}
     /\ args.type \in {"deploy", "promote"} => args.to # NoEnv
     /\ args.type = "promote" => args.from # NoEnv}

(* New: the status is empty.  Gone: deleted. *)
Conditions == {"New", "Active", "Inactive", "Gone"}

Images == [by : Jobs \cup {NoJob}, env : Environments]
DeployComponents == [image : Images, conf : Configs, dns : BOOLEAN]
Deployments == [job : Jobs, commit : Commits \cup {NoCommit}, conf : Configs, secret : Secrets,
                comps : [Components -> DeployComponents \cup {Missing}], cond : Conditions]

Ended == {"nochange", "failed", "undeleted", "stopped", "killed", "succeeded"}
Places == {"asked", "read", "images", "apply", "build", "deploy", "wait",
           "promote", "config", "create", "await"} \cup Ended

Runs == [args : Arguments, pc : Places, conf : Configs, commit : Commits \cup {NoCommit},
         secret : Secrets, todo : Seq(Environments), base : [Environments -> Deployments \cup {NoRd}],
         built : SUBSET (Environments \X Components)]

ASSUME ConstantsAssumption ==
  /\ NoJob \notin Jobs /\ NoEnv \notin Environments /\ NoCommit \notin Commits
  /\ NoRd \notin Deployments /\ Missing \notin DeployComponents
  /\ Lost \subseteq Commits
  /\ Envs \in [Configs -> Seq(Environments)] /\ Mapped \in [Configs -> Seq(Environments)]
  /\ Enabled \in [Configs -> [Environments -> SUBSET Components]]
  /\ Fixed \in [Configs -> [Environments -> SUBSET Components]]
  /\ Dns \in [Configs -> [Environments -> SUBSET Components]]
  /\ Old \in Jobs /\ Conf0 \in Configs /\ Commit0 \in Commits /\ Secret0 \in Secrets
  /\ Requests \subseteq [Jobs -> Arguments]
  \* radixconfig names no environment twice
  /\ \A conf \in Configs : \A i, k \in DOMAIN Mapped[conf] : Mapped[conf][i] = Mapped[conf][k] => i = k
  /\ MaxFaults \in Nat

VARIABLES
  rds,     \* the RadixDeployments of each environment, in the order of their creation
  run,     \* what the runner of each job has read, and where it is
  ra,      \* the stored RadixApplication
  faults   \* errors, stops and kills so far

vars == <<rds, run, ra, faults>>

-----------------------------------------------------------------------------
Members(s) == {s[i] : i \in DOMAIN s}

ActiveIn(e) == {rd \in Members(rds[e]) : rd.cond = "Active"}

(* getTargetEnvironmentNames *)
Targets(args, conf) ==
  IF args.type = "apply-config" THEN <<>>
  ELSE IF args.type \in {"promote", "deploy"} \/ (args.to # NoEnv /\ args.to \in Members(Mapped[conf]))
    THEN <<args.to>>
  ELSE IF args.to = NoEnv THEN Mapped[conf] ELSE <<>>

TargetsOf(r) == Members(Targets(r.args, r.conf))

(* Only a pipeline that was given a commit compares it with what is deployed. *)
HasContext(r) ==
  /\ r.args.type \in {"build", "build-deploy"} /\ r.args.commit # NoCommit
  /\ TargetsOf(r) # {}

(* GetBuildContext: the components of e whose source differs from the active
   RadixDeployment; all of them when its commit is unknown. *)
ChangedIn(r, e) ==
  LET content(c, commit) == Source[r.conf][e][c][commit] IN
  {c \in Enabled[r.conf][e] \ Fixed[r.conf][e] :
     \/ r.base[e] = NoRd \/ r.base[e].commit \in Lost \cup {NoCommit}
     \/ content(c, r.base[e].commit) # content(c, r.commit)}

(* CompareApplicationWithDeploymentHash *)
SameConfig(r, e) == r.base[e] # NoRd /\ r.base[e].conf = r.conf

(* Mutant: one environment without changes is enough. *)
MayStopIfAny(r) ==
  HasContext(r) /\ \E e \in TargetsOf(r) : SameConfig(r, e) /\ ChangedIn(r, e) = {}

(* getBuildDeployPipelineShouldBeStopped, but for sub-pipelines *)
MayStop(r) ==
  HasContext(r) /\ \A e \in TargetsOf(r) : SameConfig(r, e) /\ ChangedIn(r, e) = {}

Deployed(r, e, c) == r.base[e] # NoRd /\ r.base[e].comps[c] # Missing

(* mustBuildComponentForEnvironment, getComponentSources: c is built for e. *)
FromBuild(r, e, c) ==
  /\ c \notin Fixed[r.conf][e]
  /\ \/ ~Deployed(r, e, c) \/ ~HasContext(r) \/ ~SameConfig(r, e)
     \/ r.base[e].secret # r.secret \/ c \in ChangedIn(r, e)

Builds(r) == {b \in Environments \X Components :
                b[1] \in TargetsOf(r) /\ b[2] \in Enabled[r.conf][b[1]] /\ FromBuild(r, b[1], b[2])}

(* DeployEnvironmentComponentImages: given, built by j, or the deployed one *)
ImageOf(j, r, e, c) ==
  IF c \in Fixed[r.conf][e] THEN [by |-> NoJob, env |-> e]
  ELSE IF FromBuild(r, e, c) THEN [by |-> j, env |-> e]
  ELSE r.base[e].comps[c].image

(* Mutant: components without changes are kept whatever radixconfig says. *)
PreservedAlways(r, e) == {c \in Components : Deployed(r, e, c) /\ HasContext(r) /\ c \notin ChangedIn(r, e)}

(* getPreservingDeployComponents: what is kept as it is.  None is when nothing was
   asked for and no source changed, in any target environment. *)
Preserved(r, e) ==
  {c \in Components :
     /\ Deployed(r, e, c) /\ SameConfig(r, e)
     /\ \/ r.args.only # {} /\ c \notin r.args.only
        \/ /\ r.args.only = {} /\ HasContext(r) /\ c \notin ChangedIn(r, e)
           /\ \E t \in TargetsOf(r) : ChangedIn(r, t) # {}}

(* Mutant: the active RadixDeployment is read again, for what is preserved. *)
ConstructAfresh(j, r, e) ==
  LET now == IF ActiveIn(e) = {} THEN r.base[e] ELSE CHOOSE rd \in ActiveIn(e) : TRUE
  IN [job |-> j, commit |-> r.commit, conf |-> r.conf, secret |-> r.secret, cond |-> "New",
      comps |-> [c \in Components |->
        IF c \notin Enabled[r.conf][e] THEN Missing
        ELSE IF c \in Preserved(r, e) THEN now.comps[c]
        ELSE [image |-> ImageOf(j, r, e, c), conf |-> r.conf, dns |-> c \in Dns[r.conf][e]]]]

(* ConstructForTargetEnvironment *)
Construct(j, r, e) ==
  [job |-> j, commit |-> r.commit, conf |-> r.conf, secret |-> r.secret, cond |-> "New",
   comps |-> [c \in Components |->
     IF c \notin Enabled[r.conf][e] THEN Missing
     ELSE IF c \in Preserved(r, e) THEN r.base[e].comps[c]
     ELSE [image |-> ImageOf(j, r, e, c), conf |-> r.conf, dns |-> c \in Dns[r.conf][e]]]]

-----------------------------------------------------------------------------
NewRun(args) ==
  [args |-> args, pc |-> "asked", conf |-> Conf0, commit |-> Commit0, secret |-> Secret0,
   todo |-> <<>>, base |-> [e \in Environments |-> NoRd], built |-> {}]

(* The old job built and deployed everything. *)
OldRun == [NewRun([type |-> "build-deploy", commit |-> NoCommit, to |-> NoEnv, from |-> NoEnv,
                   rd |-> Old, only |-> {}])
             EXCEPT !.pc = "succeeded", !.built = Environments \X Components]

OldDeployment(e) == [Construct(Old, OldRun, e) EXCEPT !.cond = "Active"]

Init ==
  /\ \E q \in Requests :
       run = [j \in Jobs |-> IF j = Old THEN OldRun ELSE NewRun(q[j])]
  /\ rds = [e \in Environments |-> IF e \in Members(Mapped[Conf0]) THEN <<OldDeployment(e)>> ELSE <<>>]
  /\ ra = Conf0 /\ faults = 0

Goto(j, pc) == run' = [run EXCEPT ![j].pc = pc]

(* Mutant: the head of the branch is not resolved. *)
CommitAsked(args) == {args.commit}

(* getGitInfoForBuild; other pipelines keep what they were given. *)
CommitFor(args) ==
  IF args.type \in {"build", "build-deploy"} /\ args.commit = NoCommit THEN Commits ELSE {args.commit}

(* The repository is cloned: radixconfig and the head of the branch are whatever was
   pushed last. *)
Start(j) ==
  /\ run[j].pc = "asked"
  /\ \E conf \in Configs, commit \in CommitFor(run[j].args) :
       run' = [run EXCEPT ![j] = [run[j] EXCEPT !.pc = "read", !.conf = conf, !.commit = commit,
                                                !.todo = Targets(run[j].args, conf)]]
  /\ UNCHANGED <<rds, ra, faults>>

(* setTargetEnvironments, getEnvironmentCandidates: the active RadixDeployment of one
   environment after the other; any of them while one gives way to the next. *)
ReadActive(j) ==
  LET r == run[j]
      e == Head(r.todo)
  IN
  /\ r.pc \in {"read", "config"} /\ r.todo # <<>>
  /\ \E rd \in IF ActiveIn(e) = {} THEN {NoRd} ELSE ActiveIn(e) :
       run' = [run EXCEPT ![j] = [r EXCEPT !.base[e] = rd, !.todo = Tail(r.todo)]]
  /\ UNCHANGED <<rds, ra, faults>>

(* The prepare step ends.  A repository with sub-pipelines is never stopped. *)
Prepare(j) ==
  /\ run[j].pc = "read" /\ run[j].todo = <<>>
  /\ \/ run[j].args.type = "build-deploy" /\ MayStop(run[j]) /\ Goto(j, "nochange")
     \/ Goto(j, "images")
  /\ UNCHANGED <<rds, ra, faults>>

(* What an invalid request ends with: a deploy pipeline that would have to build, or
   deploys components that are not in the environment. *)
Invalid(r) ==
  \/ r.args.type = "deploy" /\ Builds(r) # {}
  \/ \E e \in TargetsOf(r) : ~(r.args.only \subseteq Enabled[r.conf][e])

(* setBuildSecret, setBuildAndDeployImages, validatePipelineInfo *)
SetImages(j) ==
  /\ run[j].pc = "images"
  /\ \E s \in Secrets :
       LET r == [run[j] EXCEPT !.secret = s]
       IN run' = [run EXCEPT ![j] = [r EXCEPT !.pc = IF Invalid(r) THEN "failed" ELSE "apply"]]
  /\ UNCHANGED <<rds, ra, faults>>

AfterApply(r) ==
  CASE r.args.type \in {"build", "build-deploy"} -> "build"
    [] r.args.type = "deploy" -> "deploy"
    [] r.args.type = "promote" -> "promote"
    [] OTHER -> "config"

(* applyRadixApplication: whatever is stored is overwritten.  (An update that crosses
   another one is refused, which is an error: Fail.) *)
ApplyRadixApplication(j) ==
  LET r == run[j] IN
  /\ r.pc = "apply"
  /\ ra' = r.conf
  /\ run' = [run EXCEPT ![j] = [r EXCEPT
               !.pc = AfterApply(r),
               !.todo = IF r.args.type = "apply-config" THEN Envs[r.conf] ELSE Targets(r.args, r.conf)]]
  /\ UNCHANGED <<rds, faults>>

(* applyBuildJobs: one of the Kubernetes Jobs that build completes. *)
Build(j, b) ==
  /\ run[j].pc = "build"
  /\ b \in Builds(run[j]) \ run[j].built
  /\ run' = [run EXCEPT ![j].built = @ \cup {b}]
  /\ UNCHANGED <<rds, ra, faults>>

BuildsDone(j) ==
  /\ run[j].pc = "build" /\ Builds(run[j]) \subseteq run[j].built
  /\ Goto(j, IF run[j].args.type = "build" THEN "succeeded" ELSE "deploy")
  /\ UNCHANGED <<rds, ra, faults>>

Create(e, rd) == rds' = [rds EXCEPT ![e] = Append(@, rd)]

(* deployToEnv creates the RadixDeployment of the next environment, *)
Deploy(j) ==
  LET r == run[j] IN
  /\ r.pc = "deploy"
  /\ \/ r.todo = <<>> /\ Goto(j, "succeeded") /\ UNCHANGED rds
     \/ r.todo # <<>> /\ Create(Head(r.todo), Construct(j, r, Head(r.todo))) /\ Goto(j, "wait")
  /\ UNCHANGED <<ra, faults>>

Made(j, e) == {i \in DOMAIN rds[e] : rds[e][i].job = j /\ rds[e][i].cond # "Gone"}

(* waits until it has an active-from time, *)
SeesActive(j) ==
  LET r == run[j] IN
  /\ r.pc = "wait"
  /\ \E i \in Made(j, Head(r.todo)) : rds[Head(r.todo)][i].cond # "New"
  /\ run' = [run EXCEPT ![j] = [r EXCEPT !.pc = "deploy", !.todo = Tail(r.todo)]]
  /\ UNCHANGED <<rds, ra, faults>>

Fault == faults < MaxFaults /\ faults' = faults + 1

(* Mutant: what was created is left to the operator. *)
GiveUpLeaving(j) ==
  /\ run[j].pc = "wait"
  /\ Fault
  /\ Goto(j, "failed")
  /\ UNCHANGED <<rds, ra>>

(* or, when the time is up, the call fails or the job is stopped, deletes it; the
   deletion may fail, too. *)
GiveUp(j) ==
  LET e == Head(run[j].todo) IN
  /\ run[j].pc = "wait"
  /\ Fault
  /\ \/ Goto(j, "undeleted") /\ UNCHANGED rds
     \/ /\ \E end \in {"failed", "stopped"} : Goto(j, end)
        /\ rds' = [rds EXCEPT ![e] = [i \in DOMAIN @ |->
                     IF @[i].job = j THEN [@[i] EXCEPT !.cond = "Gone"] ELSE @[i]]]
  /\ UNCHANGED ra

(* PromoteStepImplementation.Run and mergeWithRadixApplication: the content of the
   source with the settings of the stored RadixApplication; nobody waits for it.  (One
   step: what happens between its reads and the creation is told apart by nothing.) *)
Promote(j) ==
  LET r == run[j]
      sources == {rd \in Members(rds[r.args.from]) : rd.job = r.args.rd /\ rd.cond # "Gone"}
  IN
  /\ r.pc = "promote"
  /\ \/ sources = {} /\ Goto(j, "failed") /\ UNCHANGED rds
     \/ \E rd \in sources :
          IF \E c \in Components : rd.comps[c] # Missing /\ c \notin Enabled[ra][r.args.to]
            THEN Goto(j, "failed") /\ UNCHANGED rds
            ELSE /\ Goto(j, "succeeded")
                 /\ Create(r.args.to, [rd EXCEPT !.job = j, !.cond = "New",
                      !.comps = [c \in Components |->
                         IF rd.comps[c] = Missing THEN Missing
                         ELSE [rd.comps[c] EXCEPT !.conf = ra, !.dns = c \in Dns[ra][r.args.to]]]])
  /\ UNCHANGED <<ra, faults>>

(* buildDeployment: the active RadixDeployment with the external aliases of radixconfig *)
Redeployed(j, r, e) ==
  [r.base[e] EXCEPT !.job = j, !.cond = "New",
     !.comps = [c \in Components |->
        IF r.base[e].comps[c] = Missing THEN Missing
        ELSE [r.base[e].comps[c] EXCEPT !.dns = c \in Dns[r.conf][e]]]]

(* IsEnabledForEnvironment *)
Candidates(r) ==
  {e \in Members(Envs[r.conf]) :
     r.base[e] # NoRd /\ \/ Dns[r.conf][e] # {}
                         \/ \E c \in Components : Deployed(r, e, c) /\ r.base[e].comps[c].dns}

(* buildDeploymentsForEnvironments fails before anything is created when a deployed
   component is not in radixconfig. *)
BuildDeployments(j) ==
  LET r == run[j] IN
  /\ r.pc = "config" /\ r.todo = <<>>
  /\ IF \E e \in Candidates(r), c \in Components : Deployed(r, e, c) /\ c \notin Enabled[r.conf][e]
       THEN Goto(j, "failed")
       ELSE run' = [run EXCEPT ![j] = [r EXCEPT !.pc = "create", !.todo = Envs[r.conf]]]
  /\ UNCHANGED <<rds, ra, faults>>

(* applyDeployments creates those that differ, *)
ApplyDeployment(j) ==
  LET r == run[j]
      e == Head(r.todo)
  IN
  /\ r.pc = "create"
  /\ \/ r.todo = <<>> /\ Goto(j, "await") /\ UNCHANGED rds
     \/ /\ r.todo # <<>>
        /\ run' = [run EXCEPT ![j].todo = Tail(@)]
        /\ IF e \in Candidates(r) /\ Redeployed(j, r, e).comps # r.base[e].comps
             THEN Create(e, Redeployed(j, r, e))
             ELSE UNCHANGED rds
  /\ UNCHANGED <<ra, faults>>

(* then waits for all of them. *)
AllActive(j) ==
  /\ run[j].pc = "await"
  /\ \A e \in Environments : \A i \in Made(j, e) : rds[e][i].cond # "New"
  /\ Goto(j, "succeeded")
  /\ UNCHANGED <<rds, ra, faults>>

(* A step returns an error, or notices that the job is stopped: a runner that waits for
   builds does not (waitForCompletionOfJob), one that waits for activation deletes. *)
Fail(j) ==
  /\ run[j].pc \notin Ended \cup {"asked", "wait"}
  /\ Fault
  /\ \E end \in {"failed", "stopped"} : (run[j].pc = "build" => end = "failed") /\ Goto(j, end)
  /\ UNCHANGED <<rds, ra>>

(* The pod is killed. *)
Kill(j) ==
  /\ run[j].pc \notin Ended \cup {"asked"}
  /\ Fault
  /\ Goto(j, "killed")
  /\ UNCHANGED <<rds, ra>>

-----------------------------------------------------------------------------
(* The operator activates a RadixDeployment, *)
Activate(e, i) ==
  /\ rds[e][i].cond = "New"
  /\ \A k \in DOMAIN rds[e] : k > i => rds[e][k].cond # "Active"
  /\ rds' = [rds EXCEPT ![e][i].cond = "Active"]
  /\ UNCHANGED <<run, ra, faults>>

(* and inactivates the ones before it, which may never have been active. *)
Inactivate(e, i) ==
  /\ rds[e][i].cond \in {"New", "Active"}
  /\ \E k \in DOMAIN rds[e] : k > i /\ rds[e][k].cond = "Active"
  /\ rds' = [rds EXCEPT ![e][i].cond = "Inactive"]
  /\ UNCHANGED <<run, ra, faults>>

RunnerStep(j) ==
  \/ Start(j) \/ ReadActive(j) \/ Prepare(j) \/ SetImages(j) \/ ApplyRadixApplication(j)
  \/ (\E b \in Environments \X Components : Build(j, b)) \/ BuildsDone(j)
  \/ Deploy(j) \/ SeesActive(j) \/ Promote(j)
  \/ BuildDeployments(j) \/ ApplyDeployment(j) \/ AllActive(j)

Next ==
  \/ \E j \in Jobs : RunnerStep(j) \/ GiveUp(j) \/ Fail(j) \/ Kill(j)
  \/ \E e \in Environments : \E i \in DOMAIN rds[e] : Activate(e, i) \/ Inactivate(e, i)

Spec == Init /\ [][Next]_vars

-----------------------------------------------------------------------------
TypeOK ==
  /\ rds \in [Environments -> Seq(Deployments)]
  /\ run \in [Jobs -> Runs]
  /\ ra \in Configs /\ faults \in 0..MaxFaults
  /\ \A j \in Jobs : /\ run[j].args.type \in {"build", "build-deploy"} => run[j].commit \in Commits
                     /\ run[j].pc = "wait" => run[j].todo # <<>>

NoPromotes == \A j \in Jobs : run[j].args.type = "promote" => run[j].pc = "asked"

(* A radixconfig says the same of c for every environment. *)
SameEverywhere(c, conf) ==
  \A d, e \in Environments :
    /\ c \in Fixed[conf][d] <=> c \in Fixed[conf][e]
    /\ Source[conf][d][c] = Source[conf][e][c]

(* The image of c is one that was built, from a source that is the one that conf gives
   c in e at the commit. *)
BuiltFrom(image, c, e, conf, commit) ==
  /\ image.by \in Jobs /\ <<image.env, c>> \in run[image.by].built
  /\ commit \in Commits
  /\ Source[run[image.by].conf][image.env][c][run[image.by].commit] = Source[conf][e][c][commit]

(* Whatever a RadixDeployment says it was made from is what it runs: each component
   that is built from source has an image that was built from the source of the
   RadixDeployment's commit, although images are carried from one RadixDeployment to
   the next by copies that pipelines read before others deployed, are promoted to other
   environments and are copied by apply-config; and a component has a given image just
   when radixconfig gives one in that environment.  (Not so once something is promoted,
   for a component whose image or folder radixconfig gives by environment: what is
   promoted was made for another one, and later pipelines keep it.) *)
ImagesMatchCommit ==
  \A e \in Environments : \A rd \in Members(rds[e]) : \A c \in Components :
    rd.comps[c] # Missing /\ (NoPromotes \/ SameEverywhere(c, rd.conf)) =>
      IF c \in Fixed[rd.conf][e] THEN rd.comps[c].image.by = NoJob
      ELSE BuiltFrom(rd.comps[c].image, c, e, rd.conf, rd.commit)

(* An external alias is there as conf says, or as a radixconfig that an apply-config
   pipeline has read: that pipeline redeploys and leaves the old radixconfig's hash. *)
AliasGiven(dns, c, e, conf) ==
  \/ dns = (c \in Dns[conf][e])
  \/ \E k \in Jobs : /\ run[k].args.type = "apply-config" /\ run[k].pc # "asked"
                     /\ dns = (c \in Dns[run[k].conf][e])

(* What e runs is what the run wanted: every component of the environment and no other,
   with the source of its commit and the settings of its radixconfig, but for the
   external aliases that apply-config pipelines give. *)
AsWanted(r, e, rd) ==
  \A c \in Components :
    /\ rd.comps[c] # Missing => c \in Enabled[r.conf][e]
    /\ c \in Enabled[r.conf][e] =>
         /\ rd.comps[c] # Missing
         /\ IF c \in Fixed[r.conf][e] THEN rd.comps[c].image.by = NoJob
            ELSE BuiltFrom(rd.comps[c].image, c, e, r.conf, r.commit)
         /\ rd.comps[c].conf = r.conf
         /\ AliasGiven(rd.comps[c].dns, c, e, r.conf)

(* A pipeline that reports success has deployed what it wanted to every target
   environment, whatever it kept from the RadixDeployments it read first (while nothing
   is promoted: promotions mix radixconfigs under the hash of one). *)
SucceededIsDeployed ==
  \A j \in Jobs : run[j].pc = "succeeded" /\ run[j].args.type \in {"build-deploy", "deploy"} /\ NoPromotes =>
    \A e \in TargetsOf(run[j]) : \E rd \in Members(rds[e]) :
      rd.job = j /\ rd.cond \in {"Active", "Inactive"} /\ AsWanted(run[j], e, rd)

(* A pipeline that is stopped since nothing changed is right about it: every component
   was in the RadixDeployment that it took for the active one, from that source and,
   as far as AsWanted goes, with those settings (while nothing is promoted). *)
StoppedIsCurrent ==
  \A j \in Jobs : run[j].pc = "nochange" /\ NoPromotes =>
    \A e \in TargetsOf(run[j]) :
      run[j].base[e] # NoRd /\ AsWanted(run[j], e, run[j].base[e])

(* A pipeline that fails or is stopped leaves nothing behind that the operator may yet
   activate: a RadixDeployment of a deployment pipeline that is not active (or was not)
   is one that its runner waits for, unless it was killed or could not delete it. *)
LeftIsReported ==
  \A e \in Environments : \A rd \in Members(rds[e]) :
    LET r == run[rd.job] IN
    rd.cond = "New" /\ r.args.type \in {"build-deploy", "deploy"} /\ r.pc \notin {"killed", "undeleted"} =>
      r.pc = "wait" /\ e = Head(r.todo)
=============================================================================
