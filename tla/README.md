# Verification of the Radix operator

This directory holds TLA+ models of the Radix operator (`src/`), the TLC
configurations that check them on small instances, and proofs checked by TLAPS.
`PROJECT.json` maps every definition to the Go lines it models, and lists the
runs, the hazards, the findings and the theorems.

## The system

Radix is a platform on Kubernetes. Its state is a set of custom resources kept
by the API server; several programs read and write them concurrently.

| part | state it keeps | operations | interacts with |
|---|---|---|---|
| generic controller (`operator/common`) | work queue, partition locks, goroutines | informer events, dispatch, Sync with conflict retries, requeue, shutdown | every resource handler |
| RadixJob controller and syncer (`operator/job`, `pkg/apis/job`) | RadixJob status, pipeline Kubernetes Jobs, ConfigMaps | queue, start, follow and stop a pipeline job, wake the next one, clean up history | api-server, pipeline-runner, Kubernetes Job controller |
| RadixDeployment controller and syncer (`operator/deployment`, `pkg/apis/deployment`) | RadixDeployment status, the workloads of an environment | activate the latest, inactivate the others, deploy, history limit | pipeline-runner, api-server, batches |
| RadixBatch controller and syncer (`operator/batch`, `pkg/apis/batch`) | RadixBatch status, Kubernetes Jobs | create, stop, restart and follow jobs | job-scheduler, api-server, RadixDeployments |
| RadixEnvironment (`operator/environment`, `pkg/apis/environment`, `operator/scheduler`) | namespace, role bindings, egress rules, the orphaned flag and its time | make the namespace, mark orphaned, delete after the retention period | RadixApplication, garbage collector, api-server |
| RadixApplication (`operator/application`, `pkg/apis/applicationconfig`) | RadixEnvironments, RadixDNSAliases, build secrets | create, update and delete them from the spec | pipeline-runner (apply-config), other applications |
| RadixDNSAlias (`operator/dnsalias`, `pkg/apis/dnsalias`) | the HTTPRoute of each alias | follow the active RadixDeployment | RadixApplication, RadixDeployments |
| RadixRegistration, alert | application namespace, alert configuration | create and update dependent objects | owner references |
| job-scheduler (`job-scheduler`) | RadixBatch specs, time of the last clean-up | create, stop, restart, copy, delete batches; notify; history | operator through RadixBatches |
| api-server (`api-server`) | none of its own | trigger, stop, rerun pipelines; stop and scale components; webhooks | operator through custom resources |
| pipeline-runner (`pipeline-runner`) | the run status of its RadixJob | run the steps of a pipeline, create RadixDeployments, wait for them | operator through custom resources |
| webhook (`webhook`) | none | admission validation | API server |

All interaction is through stored objects. A writer gets a copy, changes it and
sends it back; the API server refuses an update whose copy is old (a conflict)
and tells watchers of every change. Readers either ask the API server or look in
an informer's cache, which lags. This is what makes the system hard:

* Interleaving: a Sync is a series of API calls; users, runners, Kubernetes and
  other Syncs step in between.
* Stale state: RadixDeployments and Kubernetes Jobs are listed from the cache;
  copies are written back later.
* Partial failure and restart: any API call may fail, and the operator may be
  killed between two of them. Nothing but the stored objects survives.
* Lost wake-ups: event handlers filter events (`deepEqual`, done objects,
  inactive deployments), and `resyncPeriod` is 0 (`operator/main.go`), so a
  dropped event is not repeated.
* Clocks: creation times, activation times and restarts have a granularity of a
  second.

What makes each part correct:

* controller: Syncs of one partition exclude each other, a delivered change
  always has a Sync ahead of it, and no older Sync overwrites a newer one.
* RadixJobs: jobs of a common environment do not run together, the queue does
  not get stuck, a stop is carried out, an end is final and true to the report of the runner.
* RadixDeployments: the newest becomes the only active one and what is deployed
  is its current spec; recorded periods are not rewritten; pruning removes
  nothing that is in use.
* RadixBatches: no stop, restart or end is forgotten, no job is rerun unasked,
  no result is invented, every batch gets completed.
* environments: the orphaned flag says whether the environment is in the
  RadixApplication, the namespace follows the RadixEnvironment even when both are
  deleted and made again, orphans go, an environment in the RadixApplication is kept.
* applications: what the RadixApplication lists is there once its Sync is done, and
  no other application's alias is touched.
* DNS aliases: an alias leads to the public port of its component in the active
  RadixDeployment, or nowhere when there is none.
* job history: nothing that is running, or has a RadixDeployment, is deleted.

## The modules

| module | models | proofs |
|---|---|---|
| `SerialSync` | the abstract specification: in each partition one Sync at a time | |
| `ExclusiveJobs` | the abstract specification: a RadixJob is active alone on what it claims, and ends once | |
| `Controller` | `operator/common`: work queue, dispatcher, locks; implements `SerialSync` | `ControllerProofs` |
| `RadixJobQueue` | `operator/job`, `pkg/apis/job`, with create, stop and report from the api-server and the runner; implements `ExclusiveJobs` | `RadixJobQueueProofs`, `RadixJobOutcomeProofs` |
| `RadixDeployment` | `operator/deployment`, `pkg/apis/deployment`, with the pipelines that create RadixDeployments | `RadixDeploymentProofs` |
| `RadixBatch` | `operator/batch`, `pkg/apis/batch`, with stop and restart from the job-scheduler | `RadixBatchProofs` |
| `AppConfig` | the RadixApplication, what pipelines write and controllers are told | |
| `RadixEnvironment` | `operator/environment`, `pkg/apis/environment`, the clean-up task, the api-server's deletion, namespaces | |
| `RadixDNSAlias` | `operator/dnsalias`, `pkg/apis/dnsalias`, HTTPRoutes | |
| `RadixApplication` | `operator/application`, `pkg/apis/applicationconfig`; composes the three above | `RadixApplicationProofs` |
| `PipelineRunner` | `pipeline-runner`: what the pipelines of an application read, build, keep, deploy, promote and copy | `PipelineRunnerProofs`, `PipelineOutcomeProofs` |

`MCController`, `MCRadixJobQueue`, `MCRadixDeployment`, `MCRadixBatch`,
`MCRadixApplication` and `MCPipelineRunner` hold the values of the constants. A definition whose comment begins with "Mutant" is a
plausible bug; no action uses it.

The modules compose through what `Controller` establishes: RadixJobs,
RadixDeployments and RadixBatches are partitioned by namespace
(`NamespacePartitionKey`), and Syncs of a partition exclude each other
(`PartitionExclusion`, proved). `SerialSync` states what that promises to a syncer: a
Sync begins in a partition that has none, reads, takes effect once or is abandoned,
and ends before the next begins; `Controller` implements it (`SyncsAreSerial`,
`ImplementsSerialSync`). So each of the other modules has a single record
`sync` for the Sync in progress and a set `pending` (for the one batch, a flag)
for the work queue, and an item that is added while it is synced is synced again
(`NoLostChange`, proved). The controllers of an application work side by side:
`RadixApplication` has one Sync of the RadixApplication, one for each
RadixEnvironment and one for each RadixDNSAlias, which are partitions of their own.

### Controller

`queue`, `dirty` and `processing` are the three collections of client-go's work
queue, `delayed` its delaying part (`AddAfter`, `AddRateLimited`). `held` is the
item `processNext` has taken and not yet handed to a goroutine, `pc`, `item`,
`attempt` and `read` belong to the goroutines, `locks` is the resource locker.
Objects are versions: `ver` what the API server has, `told` what the informers
delivered, `synced` what the last successful Sync read. `TryGetLock` and
`TryGetLockBusy` are the two branches of the lock, `SyncRead`, `SyncSucceeds`,
`SyncConflicts`, `SyncFails` the handler with `RetryOnConflict`, `ReleaseLock` and
`Done` the two deferred calls, in their order. `HandleObjectIgnored` is the owner
lookup that meets an error, after which the object is in `dropped` until its next
event (a history variable); `Boot`, `Crash`, `ShutDown`, `Restart` the life of the
process. The work queue is client-go's and external.

### RadixJobQueue

`rj` holds the stored RadixJobs, `kj` the pipeline's Kubernetes Job and its pod,
`ra` the branch mapping of the RadixApplication. `sync.pc` is the place in
`OnSync`: target environments (`targets`), a stop (`stop`, `stopped`), queueing,
reconcile (the Kubernetes Job), status (`status` reads, `update` writes), waking
the next job (`wake`, `waken`). Every update goes through `UpdateStatus`, which
conflicts when the stored object is not the copy; a conflict starts the Sync over
(`Retry`), an error requeues it (`Requeue`). `Notified` is the filter of the event
handlers. `CreateJob` and `StopJob` are the api-server's, `RunnerReports`,
`RunnerEnds`, `PodStarts`, `PodSucceeds`, `PodFails` the runner and its pod. A Kubernetes Job
that is deleted, by a stop or by others (`KubeJobDeleted`), leaves a pod that has been asked to
terminate (`Terminate`): `dying` counts the runners in such pods. They go on reporting
(`RunnerReports` writes Running whatever was reported before, `app.go:107` and `131`) and end in any way
(`DyingEnds`: `UpdateStatus` ignores that the context is cancelled, `app.go:113-115` and `173`), also when
the operator has made the Kubernetes Job again meanwhile, so that two runners of a job report in turn.

`ExclusiveJobs` says what of this is promised to those who trigger pipelines. `Claims` are
the environments of a job, or the git ref of a build that maps to none; `JobState` is
absent, open (new or queued), active (waiting or running), or how the job ended. An
open job becomes active only when no active one has a claim in common, is
never open again, and its end is final; that it may end without having been active is
a stop in the queue, or a pipeline whose end is the first thing a Sync sees. `JobsAreExclusive`
says that `RadixJobQueue` implements this; `DoneIsFinal` follows from it, and is a theorem of its
own because it holds also when the branch mapping changes.

Abstractions: the listing of other jobs and the decision it feeds are one step, as
is the list and update of `handleJobQueueing`; a retried Sync reads its RadixJob in
the step that starts it over; the ConfigMap and the statuses of pipeline steps are
left out; the environments that a RadixDeployment reports back are those of the
mapping; `setNextJobToWaiting` takes any of the oldest queued jobs when creation
times are equal; the lookup of a pod's Kubernetes Job succeeds (`operator/job/controller.go:131-135`
drops the event when it does not). Of what a runner reports the condition is kept: the same report again
changes nothing and leaves the resource version; the commit that a report adds is left out. The server would
also refuse an update when reports in between cancel each other out, which takes two runners of one job within
a Sync; here it is taken. A Sync that starts over preserves the proved invariants from any state (`StopRetry`).
RadixJobs are not deleted: history clean-up is not modelled. `Outcomes` bounds how the
pipelines of each job end. `Starts` gives the
jobs that are done at the start and the budget; `calm` in it is 1 until the first
disturbance, so that one run has both the disturbed and the undisturbed behaviours
(`PipelinesDisjoint` and `QueueNotStuck` are about the latter).

### RadixDeployment

`rd` is what the API server has, `seen` the cache, `stream` the ordered watch in
between; the delivery to the cache and to the event handlers is one step. `SetActive` to
`Prune` are the calls of `OnSync` in order: activation, one update for each other
RadixDeployment (`SetInactive`), the resources (`SyncDeployment`), the status, the
history limit and its deletions. `deployed` says for each component which
RadixDeployment and which edit its resources were made from; the Kubernetes objects of one
component are one value, and a failure may leave any subset of the components
deployed. `runner` is the pipeline that created a RadixDeployment: `deploy` waits
for activation and deletes on timeout, `config` waits, `promote` does not wait.
`OwnedObjectEvent` is the event of a Service that a RadixDeployment owns,
`RegistrationChanges` the handler of the RadixRegistration, which lists from the API
server and enqueues what the cache may not have yet.

Abstractions: the Get of the RadixDeployment and the list from the cache are one
step; clocks are synchronised; which RadixDeployments batches refer to is a constant;
the content that apply-config copies is not modelled.

### RadixBatch

`batch` is the stored RadixBatch, its `version` counting changes of the spec (only
the Sync writes the status); `kj` the Kubernetes Jobs, `seen` the cache, `stream`
the watch. `sync.own` is the copy, `sync.list` the jobs listed at the start, from
the cache; the status is built from the cache again. `ReconcileStop`,
`ReconcileSkip`, `ReconcileRestart` and `ReconcileCreate` are the branches of
`reconcileKubeJob`; `MidStatus` is the status after every so many jobs,
`SyncStatus` and `SyncCondition` the two updates at the end. `Stop` and `Restart`
are the requests; `clock` is the time of a restart request in seconds, and two
requests may fall in one second.

Abstractions: the cached list and the status update made from it are one step; the
phases Active and Running are one, since nothing depends on the difference;
services, volumes and payload secrets appear only as errors; pods' statuses, copies
and the deletion of a batch are left out. Runs start from a new batch, a
completed one or one with a running job; `ConstantsAssumption` asks of any start that the
batch is completed exactly when its jobs are done, and that a job without a phase reports
no restart.

### AppConfig, RadixEnvironment, RadixDNSAlias, RadixApplication

`ra` is the stored RadixApplication, `raStream` its changes on their way to the
RadixEnvironment controller, which compares each with the one before (`raSeen`;
`AddedOrDropped`, `Affected`), `raEdited` that its own controller has yet to hear of
one. `Apply` is the pipeline's apply-config.

`re`, `ns`, `roles` and `policy` are the RadixEnvironment, its namespace, the role
bindings (with the limit range, which is applied the same way) and the egress rules of
each environment; `reSeen` and `rolesSeen` the caches. Owners are UIDs, so a
RadixEnvironment that is made again is another one. There is an event for every update, also
for one that the next takes back, so `reEdited` has the environments that were updated since
`reSeen` (a relist of the watch, which may skip versions, is not modelled). `envSync[e].pc` is the place in
`Sync` and `OnSync`: the lookup of the RadixApplication (`lookup`), `namespace`,
`roles`, `egress`, `status`; an error goes on to the status and is returned after it
(`failed`). `DeliverEnvironment`, `DeliverRoles`, `DeliverNamespaceGone` and
`DeliverApplication` are the event handlers with their filters. `CleanUp` lists the cache,
`UserDeletes` reads, and `DeleteEnvironment` deletes by name later (`doomed`).
`CollectNamespace` to `RemoveNamespace` are Kubernetes: the garbage collector goes by
owners, a namespace terminates, is emptied, and is gone.

`alias` holds the RadixDNSAliases (of this application or of another one), `route` the HTTPRoutes
per alias and environment, `routeSeen` the client's cache, `rds` the RadixDeployments of each
environment, oldest first, which `Rollout` activates in the three updates that
`RadixDeployment` describes in full. `aliasSync` is at `init` (the active
RadixDeployment is listed), `route` or `status`.

`appSync` is the Sync of the RadixApplication: `get`, `create`, `update` and `reload`
are the calls of `syncEnvironment` for the first of `envs` in the order of the spec,
`aliases` the calls of `syncDNSAliases` with the lists that `Work` (`getDNSAliasesToSync`) made of `listed`.

Three history variables name what the properties except: `misled` (a lookup of the
RadixApplication failed, or it was created anew, since the last Sync of the
environment), `lost` (the environment was deleted while configured), `misrouted` (the
last Sync took a stale HTTPRoute for the right one, lost its namespace under way, or has
since missed an update of its RadixDeployment: `LoseDeployment`, the handler that fails to list the
aliases and drops the event).

Abstractions: reading and updating a namespace is one step, since an update of what
changed in between is refused; role bindings and limit range are one object; status writes of a
controller change no resource version that its own next call compares; the update of an
alias in conflict is an error like any other; the RadixRegistration exists; image hubs, build secrets,
access rules and service accounts appear only as errors; OAuth2 proxies and the old
Ingresses are left out.

### PipelineRunner

`run[j]` is what the runner of job `j` has read and decided: `args` what it was asked for,
`conf` and `commit` what it cloned, `base` the active RadixDeployment of each target environment
as it was read at the start (`ReadActive`), `secret` the build secrets, `built` the images
its build jobs have made, `todo` the environments that remain in the step. `pc` follows the steps
of the pipeline types: `read` and `images` are the prepare step and the choice of images in
apply-config, `apply` stores the RadixApplication, then `build`, `deploy` and `wait`, `promote`,
or for apply-config `config`, `create` and `await`. `Construct` makes a RadixDeployment,
`Preserved` says what it keeps from the copy, `MayStop` when a build-deploy ends itself since
nothing changed. `rds` are the RadixDeployments of each environment; `Activate` and `Inactivate`
are what a runner can see of the operator, whose own control is in `RadixDeployment`.

An image is named for the job and the environment it was built for, so a component's source
is that of the job's commit, in the folder that the job's radixconfig gives the component in that
environment. `Source` says, for each radixconfig and environment, which commits have the same content of
that folder; a commit in `Lost` cannot be found in the repository any more (a rebased branch).
Radixconfig is a version, whose relevant content (`Mapped`, `Enabled`, `Fixed`, `Source`, `Dns`) is given by constants,
the last four by environment (`GetImageForEnvironment`, `GetSourceForEnvironment`), so that
equal hashes are equal versions; what is pushed, and when the build secret
changes, is chosen when the runner reads it.

Which pipelines run together is not restricted, since the queue decides by the stored
RadixApplication and the runner by the one it cloned. Left out: sub-pipelines (a pipeline that has one is
never stopped, which is why `Prepare` may pass the stop over), the scale that a user gave a
component, the wait for the namespace, component and job components' differences, tags of images that the
request gives, a creation whose response is lost (`deploy/step.go:102`: nobody waits for that
RadixDeployment or deletes it). Promotion is one step: nothing tells the order of its reads apart.
A deleted RadixDeployment stays as `Gone`; a runner ends `undeleted` when it could not delete its
RadixDeployment, `killed` when its pod is.

## The runs

| run | question | instance |
|---|---|---|
| `controller` | do Syncs of a partition exclude each other, never regress, implement `SerialSync`, and is every change synced in the end, across conflicts, failures, failed owner lookups, crashes and shutdowns? | 3 objects in 2 partitions, 2 goroutines, one object with 2 versions; a failure and a restart |
| `job_queue` | are active jobs disjoint, stops and reports kept, ends true to the reports under faults; without faults, do pipelines of one environment exclude each other, and does the queue move? Does the queue implement `ExclusiveJobs`? | one job with a stop, a restart, an API error, a lost report and a deleted Kubernetes Job; 2 jobs with a restart and a lost report, a stop, or an API error; 3 jobs over 2 environments undisturbed |
| `job_queue_ends` | does every job get done? | 2 jobs with a branch mapping that moves; one job, and a deleted Kubernetes Job too; pipelines succeed or fail |
| `job_queue_orphan`, `job_queue_lost_wake_up` | findings, below | 2 jobs with one stop (and one error) |
| `deployment` | is the active one deployed, are periods kept and pruning safe, with overlapping pipelines? | 4 RadixDeployments, 2 components, limit 2, one referenced; an error and a restart, a timeout, an event of a Service, or a change of the RadixRegistration |
| `deployment_serial` | are periods disjoint, is the newest activated and deployed, when pipelines follow each other? | 3 RadixDeployments; an edit or a restart |
| `batch` | is nothing forgotten, invented or rerun, and does every batch end? | 2 jobs; a restart of an ended batch with each other disturbance or another restart; a new batch with a stop and an API error, two stops (both attempts conflict, and the Sync gives up), an expiry and a crash, or its RadixDeployment deleted; a running job with a restart and two API errors, so that one restart runs twice |
| `batch_stop` | finding, below | 2 jobs, one stop |
| `application` | are the orphaned flag, namespaces, environments, aliases and HTTPRoutes as configured once the controllers are done, do orphans go, do the controllers come to rest? | 2 environments, one alias, 2 components; one or two changes of the configuration (one of them taken back across a restart) with an error, a failed lookup, a user, another application, a restart, a deleted namespace, a deleted RadixApplication or a new RadixDeployment |
| `application_orphan` | finding, below | one change, one restart, one failed lookup |
| `pipeline` | do RadixDeployments run what they say they were made from, does success mean deployed, a stop that nothing was to be done, a failure that nothing is left? | 2 environments, 2 components, 3 commits, 2 radixconfigs (an image and a folder by environment), 2 build secrets; 9 pairs of pipelines beside an old one, with an error, a stop or a kill |

Why the bounds are enough: the interesting cases are pairs. Two jobs, or two
RadixDeployments beside the old ones, are the least for which one Sync can get in
the way of another; the third job of the undisturbed behaviours of `job_queue` queues behind two
environments at once; the fourth RadixDeployment is what the history limit removes.
In `pipeline` two pipelines overlap in every way: the second may read before, between
or after the first one's deployments; the commits are a change of one component and its reversal with a change
of the other, the second radixconfig moves the mapping, gives images, adds a component and an alias.
In `application` the changes are those that differ for the code: an environment that
is dropped, that comes back, that gets other egress rules, an alias that comes, goes,
moves to another component or to another environment; the retention period is 0 and the
clock reaches 1, which is enough for an orphan to get too old. Disturbances are budgeted (`Budget`, `Budgets`, `Starts`), one of each kind (in
`batch` also two requests of a kind) per
behaviour: one suffices to hit every place of a Sync, since it may come at any
step. Attempts on conflicts are 2 or 3 rather than 5, so that giving up is
reached too; the counterexamples are run with 5. `CHECK_DEADLOCK FALSE` stands in
each configuration because a system without requests rests.

The mutants in `PROJECT.json` show for each property a bug that breaks it.

### What the code does not do

Four runs end in a counterexample; each refutes a sentence of the repository.

* `job_queue_orphan` (`pkg/apis/job/job.go:375`): a stop between the creation of the
  Kubernetes Job and the first status update leaves the pipeline running.
* `job_queue_lost_wake_up` (`pkg/apis/job/job.go:127`): after an error between storing
  Stopped and waking the next job, the retried Sync ignores the done job and the
  queued one stays queued.
* `batch_stop` (`pkg/apis/batch/kubejob.go:51`): a stop reconciled before the cache
  has the Kubernetes Job just created deletes nothing and reports Stopped; the
  completed batch is ignored from then on.
* `application_orphan` (`operator/environment/handler.go:79`): a lookup of the
  RadixApplication that fails, when the operator starts, marks a configured environment
  as orphaned; no event follows, and the clean-up deletes it after the retention period.

Weaknesses without a run, from reading the code while modelling it:

* An owner lookup that fails drops the event (`operator/common/controller.go:208`;
  `NoLostChange` excepts `dropped`).
* A batch that is restarted while the cache has the old Kubernetes Job reports the old
  result (`pkg/apis/batch/status.go:149`); one whose RadixDeployment is gone ignores a restart (`status.go:73`).
* A restart whose status update fails after its Kubernetes Job was created is taken again
  (`pkg/apis/batch/kubejob.go:59`): one restart may run a job twice, and the first run's end
  may be reported for the new restart. `ResultIsReal` therefore asks for some ended run of the job.
* With a history limit below the number of RadixDeployments that wait,
  `maintainHistoryLimit` sorts a new one by its creation time and may delete it before
  it was ever active (`pkg/apis/deployment/deployment.go:351`).
* When the list of the aliases fails, the event of the RadixDeployment is logged and dropped
  (`operator/dnsalias/controller.go:121`): an alias keeps the HTTPRoute of the RadixDeployment before until
  something else enqueues it. `AliasFollows` excepts it (`misrouted`).
* A younger queued job of one environment is woken past an older one of several (`job.go:465`).
* A runner whose Kubernetes Job is deleted goes on until it notices, and reports unconditionally
  (`pipeline-runner/internal/runner/app.go:107-134`): its report may replace that of the run that
  followed, or come after the RadixJob is done. A report that comes to the next queued job while it is
  woken makes that update conflict, and the retried Sync ignores the done job (`job.go:81`): the wake-up
  is lost, as in `job_queue_lost_wake_up`. So `job_queue_ends` has deletions with one active job only.
* Overlapping pipelines: a RadixDeployment that is inactivated before it ever was
  active gets an active-from time (`setOtherRDsToInactive`, `deployment.go:261`), so its
  pipeline reports it as active (`radix_deployment_watcher.go:40`).
* Promote, and apply-config for external aliases, keep the source's hash of radixconfig
  (`deployconfig/internal/handler.go:151`), although promote merges in other settings; a
  later build-deploy may take the environment for current (`preparepipeline/step.go:397`), or
  preserve a component with another radixconfig's alias. `StoppedIsCurrent` and `SucceededIsDeployed`
  except promotions, and ask of an external alias only that it is as the radixconfig says
  that the pipeline cloned, or one that an apply-config pipeline did (`AliasGiven`).
* An image or a source folder may be given for one environment only
  (`pkg/apis/radix/v1/radixapptypes.go:2324-2364`). What is promoted was made for the source
  environment but keeps the hash, so the target runs another image than its radixconfig
  gives there, and later build-deploys, which see no change, keep it. `ImagesMatchCommit` says nothing of such
  components once anything is promoted.
* `applyRadixApplication` stores the clone of whichever pipeline comes last, which may be the older
  one (`applyconfig/step.go:102-118`).
* The removal of scalers and trigger authentications swallows every error but "not found"
  (the condition at `pkg/apis/deployment/scaledobject.go:69`, `385` and `399` is the wrong
  way round): a failed deletion is not retried until the next Sync.
* A changed build secret has everything built, but `getPreservingDeployComponents`
  (`steps/internal/deployment.go:158-190`) keeps components without changes, with their old
  images, under the new secret's hash; the rule that stops a pipeline ignores secrets.
* The runner waits for a build job by update events alone and does not look at its
  context (`internal/wait/job.go:50`), so a stop is noticed after the build.
* The scale a user gave is copied from the RadixDeployment read at the start
  (`radixcomponent.go:49-53`): a change during the build is lost.

### Fairness

`FairSpec` assumes weak fairness of what the process and the cluster do by
themselves: informers deliver, timers fire, goroutines are scheduled, a Sync in
progress takes its next step, pods start and end, a pod that ended is started
again. `StartSync` of one item is strongly fair where several items share the
partition, because the work queue is first-in first-out and a busy lock puts an
item back with a delay (`EventuallySynced` shows that none starves). Nothing is
assumed of users, requests, errors, crashes, expirations or clocks.
In `RadixApplication` five conditions are weakly fair: that the
surroundings (informers, garbage collector, namespace controller, rollouts, the clock up to its
bound) do something as long as they can, that the cron job runs, and that each of the three
controllers takes a step as long as it can; nothing is assumed of which item or which
environment it serves first, and a finite budget of disturbances keeps the
surroundings from being busy for ever.
`EveryBatchEnds` is conditional on the RadixDeployment staying, without which the
operator retries for ever by design.

## The proofs

All proofs are checked by `tlapm`, for every value of the constants that satisfies
the module's `ConstantsAssumption` (in `RadixApplicationProofs`: `AppConfigAssumption`,
`AliasEnvsAssumption`, `AttemptsAssumption` and `RetentionAssumption`): any number of objects, jobs, environments,
RadixDeployments, requests, faults and restarts, any conflict limit.

| theorem | module | argument |
|---|---|---|
| `TypeCorrect` | each | the type invariant, with `Busy` in the controller (a goroutine has an item exactly while it is not idle) |
| `PartitionExclusionHolds` | `ControllerProofs` | `ExclusionInv` adds that a goroutine past `TryGetLock` holds the lock of its item's partition (`HoldsLock`); exclusion alone is not inductive because it does not say which locks are taken |
| `SyncedMonotonic` | `ControllerProofs` | `WorkInv`: an item is dirty and queued, held, or with one goroutine (`QueueInv`, `HandsInv`), and what a running Sync has read is between the last success and now (`ReadInv`) |
| `NoLostChangeHolds` | `ControllerProofs` | from `WorkInv`: an object that is not `dropped` is delivered to the queue with its last change |
| `ImplementsSerialSync` | `ControllerProofs` | each step is a step of `SerialSync` or a stutter; `ExclusionInv` says that a partition has one running Sync, so the abstract Sync that begins finds the partition free |
| `ActiveJobsDisjointHolds` | `RadixJobQueueProofs` | `QueueInv`: a Sync that goes on to create or follow its pipeline has a clear way (`SyncClear`), so has the job about to be woken (`NextClear`), and stored environments are those of the mapping (`Targeted`); assumes the mapping stays |
| `DoneIsFinalHolds` | `RadixJobQueueProofs` | `OpenInv`: the copies a Sync may still write are of jobs that were not done; holds also when the application changes |
| `ImplementsExclusiveJobs` | `RadixJobQueueProofs` | assumes the mapping stays. From `QueueInv`, `CopyOpen` and `PhaseInv` (only a job that is new or queued is looked at for queueing, and a Sync that has an active copy does not write that it is not active): each write of a condition activates a job with a clear way, ends one, or is not seen (`WriteIsStep`); nothing but writes is seen |
| `NoStopForgottenHolds`, `ReportIsKeptHolds` | `RadixJobOutcomeProofs` | `StopInv`: a job that is asked to stop is on the queue or being stopped (`JobSound`), and a Sync past the stop has a copy without a stop request (`CopySound`). That a Sync keeps the report is no invariant of its own: `StopWrite` has it from the refusal of an update whose copy is old |
| `ReportedResultHolds` | `RadixJobOutcomeProofs` | `ReadInv`: a good end that a Sync is about to write is not another than the report of its copy; the update is refused when that is no longer the stored one. It is about the write: with a Kubernetes Job deleted, a runner that lingers may report something else later |
| `QueueNotStuckHolds`, `PipelinesDisjointHolds` | `RadixJobOutcomeProofs` | assume `MaxAttempts > 2`, below. `CalmInv`, which holds until something disturbs the queue: a pipeline exists before its job says so only while the job's Sync, which nothing blocks, is at work (`Started`); a new job is looked at (`Noticed`), the end of an active job's pipeline is noticed (`Followed`), and a queued job has an active one, a Sync that wakes the queue, or an unstarted job ahead of it that the operator will look at (`Waits`) |
| `PeriodIsKept` | `RadixDeploymentProofs` | `PeriodInv`: without a condition there is no active-from time, a Sync never holds an inactive copy of its own and inactivates only what it listed as not inactive; `UpdateKeeps` shows that each write starts from the stored copy or is refused |
| `ReportedWasActiveHolds`, `PeriodsDisjointHolds` | `RadixDeploymentProofs` | assume `OneByOne`, below. `SerialInv`: an elder RadixDeployment has been active before the younger was created, and gave way before that one's period (`InTurn`); the cache and the watch hold versions of what is stored, and know that the elder was active before they know of the younger (`Cached`); a Sync holds such versions, has every elder on its list, and no younger one has been active since it began (`Syncing`) |
| `PruneIsSafeHolds` | `RadixDeploymentProofs` | assumes `OneByOne`; from `SerialInv`: the history limit skips what the cache has as active, and one that the cache has without a condition is the latest it knows, so it sorts last and within the limit (`VictimsInactive`) |
| `NewestIsActiveHolds`, `ActiveIsDeployedHolds` | `RadixDeploymentProofs` | assume `OneByOne`. `Served`: while the latest has not been active, or an elder has not given way, the latest is queued, or the cache shows it otherwise in a way that `Notified` lets pass, or its Sync has yet to get there (`Called`); a Sync of an elder one, or from an older spec, is followed by another (`Recalled`); the latest is deployed as it is, or one of these holds (`Installed`) |
| `NoRerunHolds` | `RadixBatchProofs` | `RerunInv`: the statuses of the copy are the stored ones, the copy's restarts are not newer than the stored ones, and a status never has a newer restart than its spec; so what the copy calls for a restart, the stored batch does too |
| `NothingForgottenHolds` | `RadixBatchProofs` | `WatchInv`: where nothing but creations is on its way, the cache has the state of each Kubernetes Job; `BatchInv`: an older copy means that an event is due, and the condition fits the statuses; `ReconcileInv`: the jobs that the Sync has passed are stopped, restarted, done or have a Kubernetes Job it will see, unless the batch is queued again; `RestedInv`: so every job is settled when the Sync has ended |
| `ResultIsRealHolds` | `RadixBatchProofs` | `KubeReal`: a Kubernetes Job that has ended, stored, listed or on its way to the cache, ended in a recorded run; `StatusReal`: so did what statuses report; `StatusStep`: a step stores statuses it read or built (`NewStatus`) |
| `AliasesAreNotStolen` | `RadixApplicationProofs` | `IInv`: the work of an application's Sync is on aliases of its own or absent ones (`WorkIsOwn`), in the environments it listed (`SyncTargets`), with a bounded number of tries (`TriesLeft`) |
| `FlagsAreTrue` | `RadixApplicationProofs` | `ChainInv`: what is told of the RadixApplication ends with what is stored; `FlagInv`: a flag that is not true has an environment that is queued, an event on its way that concerns it, or a Sync that will set it or fail (and be queued again). UIDs only grow (`UidInv`), so a RadixEnvironment made again is an event |
| `ConfigurationIsApplied` | `RadixApplicationProofs` | `ApplyInv`: the RadixApplication has a change to be heard of, or its Sync has an older one (whose status update is refused, so it is queued again), or what the Sync has passed is applied (`EnvsDone`, `AliasDone`); each environment is created, right, or in `lost`. `WorkInv`: an alias that is not as it should be is on the Sync's list, and one whose name another application took makes the Sync fail |
| `AliasesAreRouted` | `RadixApplicationProofs` | `RouteInv`: an alias is queued, or an event or the end of a rollout will queue it (`RouteDue`), or the port that its Sync found is the one there is and its route is put (`RouteAt`); a Sync has the alias as it is, unless another is due (`SyncedOf`); the last step of a rollout leaves one RadixDeployment active (`OneActive`). `misrouted` excepts an alias misled by a stale HTTPRoute, or whose event was dropped, until its next Sync. That the webhook refuses an alias of an unknown environment (`AliasEnvsAssumption`) is needed at the start only |
| `NamespacesFollow` | `RadixApplicationProofs` | `HouseInv`: an environment is queued, or an event on its way will queue it (`EnvDue`; a RadixEnvironment made again has a UID that the cache has not seen, by `UidInv`), or its Sync has done what comes before its step or is about to fail (`HousedAt`); role bindings that are gone though the cache has them are an event to come (`RolesNoted`), so a Sync may skip them |
| `ImagesMatchCommitHolds` | `PipelineRunnerProofs` | `IInv`: every RadixDeployment is sound, and so is every copy in a runner's `base` (`SoundBase`), which may be older than what is deployed; a runner's choices fit its own commit (`Local`): what it keeps has the same source at both commits, what it does not keep it has built before it deploys |
| `StoppedIsCurrentHolds` | `PipelineRunnerProofs` | from the same `IInv`: the copies read are sound, and without promotions they have all components of the environment under their radixconfig's hash (`Whole`), with the aliases `AliasGiven` allows |
| `LeftIsReportedHolds`, `SucceededIsDeployedHolds` | `PipelineOutcomeProofs` | `OInv`: a deployment pipeline has at most one RadixDeployment in an environment, made from what it read, new only where it waits for it or was killed (`Accounted`); each target environment is still to do or served (`Reached`). It needs that radixconfig names no environment twice (`ConstantsAssumption`) |

Two hypotheses of theorems are not in a `ConstantsAssumption`.

`MaxAttempts > 2`: while nothing disturbs the queue only the runner writes to a RadixJob
beside its Sync, and changes what it reports twice at most (that it runs, and its end), so a Sync
meets at most two conflicts and the third attempt gets through; `CalmInv` counts the
attempts against the reports. `retry.DefaultRetry` makes five attempts, the run three; the commit and the
use of a build cache, which the code adds to a report and the model leaves out, are at most two
changes more, for which five attempts are enough too.

`OneByOne` (in `RadixDeployment`) says that the pipelines of the environment follow each
other, as the queue has them do (`ActiveJobsDisjoint`), and wait for what they create; that
the RadixDeployments of the start did so too; that no runner gives up waiting, and that
the groups of the RadixRegistration stay. It says nothing about edits, errors, conflicts,
restarts, events of Services, the lag of the cache, the history limit or the number of
RadixDeployments. Pipelines that overlap (`Overlap`) or do not wait (promote) refute
`NewestIsActive`: a RadixDeployment that is activated after a newer one was created is the
later of the two for `isLatest`. So does a runner that gives up, which deletes the one the
others gave way to. The handler of the RadixRegistration breaks the invariant rather than, as far as
small instances show, the properties: it may have a RadixDeployment synced that the cache does not have,
and `Cached` says there is none. `MCRadixDeployment` asserts that the instance without
overlap satisfies `OneByOne` (`SerialAssumption`); the run `deployment` checks
`ActiveIsDeployed` and `PruneIsSafe` where it does not hold.

Only model-checked: every liveness property (`EventuallySynced`, `EveryJobEnds`,
`EveryBatchEnds`, `NewestGetsDeployed`, `OrphansGo`, `ComesToRest`): fairness is beyond the
prover. Every invariant and every other action property of a passing run is proved; without
`OneByOne`, `ActiveIsDeployed` and `PruneIsSafe` are only model-checked, and with a limit
below the number of pipelines that wait `PruneIsSafe` fails (see the weaknesses).

## Not modelled

Listed in `PROJECT.json` with the reason. In short: what the Kubernetes objects of a
deployment contain, RBAC and secrets, formatting and reading APIs, validation,
alerts, sub-pipelines, generated code. Three parts with control of their own are left:

* Job history (`pkg/apis/job/job_history.go`). Read, not modelled: a job of several
  environments that is within the limit of one and beyond that of another is deleted, even
  twice (203-218); a clean-up that is asked for while one runs is dropped (51);
  ConfigMaps are listed before jobs; a job of a wildcard branch belongs to no
  environment and is never collected by count.
* The job-scheduler: the time of the last clean-up and its map are read without a lock
  (`job-scheduler/pkg/batch/history.go:49`); a restart is a time in seconds
  (`batch.go:343`), which `RadixBatch` has as its `clock`.
* Volumes of a component (`pkg/apis/volumemount/pvcvolume.go:27-278`): the claims that are
  reused are not asked whether they are being deleted, so a quick return to earlier
  settings may take a claim that goes; the batch controller creates claims while the deployment
  controller collects them; nothing but a Sync repairs either.

## Plan

1. `Controller`, `RadixJobQueue`, `RadixDeployment`, `RadixBatch` with their first theorems: done.
2. `RadixEnvironment`, `RadixDNSAlias` and `RadixApplication`, composed: done.
3. `SerialSync`, the lock-per-partition specification, and the refinement: done, with its proof.
4. `PipelineRunner`: done, with the proof of what images are.
5. `JobHistory`: limits per condition and environment, deletion by a list read before, composed
   with `RadixJobQueue` by a deletion action there.
6. `JobScheduler`: creation and copies of batches, notifications out of order, history.
   `Volumes`: claims and volumes made and collected by two controllers.
7. Refinements: `ExclusiveJobs`, implemented by `RadixJobQueue`: done, with its proof. Left:
   a single "active" register, implemented by `RadixDeployment`.
8. Theorems: the invariants of a quiet operator, of RadixJobs, RadixDeployments, RadixBatches
   and an application: done. Left: those of RadixDeployments when the RadixRegistration changes.
