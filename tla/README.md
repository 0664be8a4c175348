# TLA+ models of the Cluster API provider for Kubemark

This directory holds TLA+ specifications of the two controllers of this
repository, of the manager process they run in, of the hollow node they put
together and of the image publisher; the TLC configurations that check them on
small instances; and TLAPS proofs of the safety results for all instances.
Every definition is translated from the Go source; `PROJECT.json` (`map`) gives
the lines behind each one and marks what stands for code outside the repository.

## 1. The system and its parts

The provider gives a Cluster API `Machine` a *hollow node*: a pod running the
`kubemark` binary, with a secret that holds its kubelet certificate and
kubeconfig. A manager process runs two controllers; several replicas of it may
run under leader election.

| Part | Source | State it keeps | Operations |
|---|---|---|---|
| KubemarkMachine controller | `controllers/kubemarkmachine_controller.go` | nothing of its own: finalizer, `Spec.ProviderID` and `Status.Ready` of the stored object; pod and secret in a hosting cluster; local copies during one reconcile | `Reconcile`, with a provisioning branch, a deletion branch and two deferred patches |
| Event filters | `SetupWithManager` of both controllers | the pause annotation and the watch label of the objects | filter the events of each watch |
| Hollow-pod cluster client | `controllers/kubemarkcluster.go` | none; reads a secret on each call | `GenerateKubemarkClusterClient` |
| Rendering of the hollow node | `controllers/kubemarkmachine_controller.go` 253-321, 335-434, 450-511 | none | certificate, kubeconfig, `--extended-resources`, pod with extra mounts |
| KubemarkMachineTemplate controller | `controllers/kubemarkmachinetemplate_controller.go` | `Status.Capacity` of the stored template | `Reconcile` |
| Extended resources | `controllers/util.go` | none | `getKubemarkExtendedResources` |
| Manager | `main.go` | informer caches, work queues, the lease | flags, start, exit, worker counts, resync period, leader election |
| API types | `api/v1alpha4` | the objects themselves | |
| Image publisher | `hack/tools/publish-kubemark-images.go` | git checkout, local images, a hard link | build, push |
| Boilerplate checker | `hack/boilerplate/boilerplate.py` | none | |

**How they interact.** A controller never talks to another one directly. Users
and the Cluster API controllers write objects to the API server; the informer
copies them, with a delay, into a cache and, unless a filter drops the event,
puts keys into a work queue; a worker takes a key, reads the *cached* object and
writes back with merge patches that carry no version precondition. The
KubemarkMachine controller also creates and deletes objects in a hosting
cluster, which is either the management cluster or one named by a secret the
user may edit at any time. It is woken by events of KubemarkMachines, of
Machines and, when the infrastructure becomes ready or the Cluster is unpaused,
of Clusters; by errors it returned; and by the resync every `--sync-period`.

**What is hard.**
- The copy a reconcile works on may be several versions old. It may belong to
  an object that has been deleted, and to one that has been created again under
  the same name.
- Every call may fail, or succeed with its reply lost. Retries rely on
  `AlreadyExists` and `NotFound` being harmless.
- Both deferred patches drop their errors: the result of `Reconcile` does not
  tell that nothing was stored. They consist of up to three separate calls.
- A merge patch replaces the whole list of finalizers by one that was computed
  from an old copy.
- The manager may die between any two calls, and another one may take over.
- Several early returns are `nil`: the controller then depends on an event that
  must not already have passed, and that a paused object never gets.
- The place where the pod lives is looked up again at each reconcile.
- A leader that cannot reach the API server must stop before another starts,
  although the two count from different moments: the one from the reply to its
  last renewal, the other from the write.

The full list, with lines, is under `hazards` in `PROJECT.json`.

**What makes the parts correct.**
- Machine controller: no pod and no secret is left behind (`NoOrphan`); a
  running pod has the secret it mounts (`PodHasSecret`); `Ready` means there is
  a pod and a provider ID (`ReadyHasPod`, `ReadyHasProviderID`); other parties'
  finalizers are left alone (`ForeignFinalizerKept`); what can be provisioned is
  provisioned and what is deleted goes away (`ProvisioningCompletes`,
  `DeletionCompletes`); all in all each machine goes through the life of the
  abstract specification (`LifeCycle`).
- Template controller: a published capacity is complete, is the one of the
  template's machines, exactly so when options are set and the controller is at
  rest, and the controller comes to rest (`CapacityComplete`, `CapacityHonest`,
  `CapacityAtRest`, `CapacityConverges`, `Settles`).
- Hollow node: it finds its credentials, its mounts and its capacity
  (`FindsCredentials`, `MountsServed`, `AdvertisesCapacity`).
- Manager: with leader election never two active ones (`OneActive`), and always
  one again (`SomeoneActive`).
- Publisher: no image with another release's binary (`ImagesMatchTags`,
  `NoStaleLink`), no release left out (`DoneIsComplete`).

## 2. Modules

| Module | What it is |
|---|---|
| `KubemarkCluster` | where a machine's pod lives: `GenerateKubemarkClusterClient` as a function of the secret reference and what it points at |
| `HollowMachine` | abstract specification: the life of a hollow machine without API server, cache, queue or retry |
| `KubemarkMachine` | the machine controller, the API server, informer, filters, queue, hosting clusters and the Cluster API objects around it; its properties, the inductive invariants `CleanupInv` and `FirstLifeInv` and the refinement mapping to `HollowMachine`. Extends `KubemarkCluster` |
| `MCKubemarkMachine` | instances of it for TLC |
| `KubemarkMachineProofs` | proof of `Spec => []TypeOK` |
| `KubemarkMachineCleanup` | proof that `CleanupInv` is inductive, hence of `NoOrphan`. Extends `KubemarkMachineProofs` |
| `KubemarkMachineFirstLife` | proof that `FirstLifeInv` is inductive, hence of `ReadyHasPod`, `ReadyHasProviderID` and `ForeignFinalizerKept`. Extends `KubemarkMachineCleanup` |
| `KubemarkMachineLifeCycle` | proof of `PodHasSecret` and of the refinement `LifeCycle`. Extends `KubemarkMachineFirstLife` |
| `ExtendedResources` | resource maps, `getKubemarkExtendedResources` and the text of quantities |
| `KubemarkMachineTemplate`, `MCKubemarkMachineTemplate` | the template controller, and instances. Extends `ExtendedResources` |
| `KubemarkMachineTemplateProofs` | what a merge patch does to resource maps, and proofs of the safety properties of the template controller that hold |
| `HollowNode`, `MCHollowNode` | how one reconcile puts secret, flag and pod together, and an instance. Extends `ExtendedResources` |
| `HollowNodeProofs` | proofs of the three properties of the hollow node |
| `Manager`, `MCManager` | `main` and leader election, and an instance |
| `ManagerProofs` | proof of `LeaseInv` and of `OneActive` |
| `PublishImages`, `MCPublishImages` | the image publisher of `hack/tools`, and an instance |
| `PublishImagesProofs` | proofs of the safety properties of the publisher |

The modules divide the system at its natural seams. `KubemarkMachine` knows of
a secret and a pod only that they exist and whose they are; `HollowNode` is
about what is in them. Both controllers' modules have one active manager that
may be replaced at any time (`CrashRestart`); `Manager` is about there being
only one.

Definitions whose comment begins with *Variant with a defect* are not part of
the specifications: each is a faulty version of the definition that follows,
used to see that the properties notice the fault (`mutants` in
`PROJECT.json`).

### KubemarkMachine

*State.* `km` is what the API server stores, `watch` the versions it has stored
and the informer has not seen, `cache` the informer's copy. `queue` and `pc`
are the work queue and the step each machine's reconcile is at; `before` is the
copy `patch.NewHelper` takes, `obj` the object the reconcile changes, `seen`
what it read of Machine and Cluster, `dest` the client and namespace it
obtained, `ret` what it will return. `pods` and `secrets` are the hosting
clusters; `machine`, `cluster` and `hollow` the objects of others.

*One reconcile* is a path through `pc`, one step for each call that leaves the
process:

| Step | Action | Lines of `kubemarkmachine_controller.go` |
|---|---|---|
| `idle` | `FetchNothing`, `FetchFails`, `Fetch` | 122-159 |
| `addFinalizer` | `AddFinalizer` | 160-163; the patch is empty when the copy has the finalizer |
| `generateClient` | `GenerateClient` | 173-181, then the branches at 183 and 212 |
| `deletePod`, `deleteSecret` | `DeletePod`, `DeleteSecret` | 186-209 |
| `prerequisites` | `CheckPrerequisites` | 217-310: reads only, up to the certificate |
| `createSecret` | `CreateSecret` | 312-327, then the version checks 328-362 |
| `createPod` | `CreatePod` | 364-447 |
| `patchMachine` | `PatchMachine` | deferred at 221, runs first |
| `patchSpec`, `patchStatus` | `PatchSpec`, `PatchStatus` | deferred at 165; `patch.Helper` sends spec and status separately and sends the second even if the first fails |

Both patches of the object use the one helper made at line 154, so the second
is computed against the same old copy `before`: when the reconcile had to add
the finalizer itself, the finalizer list is part of the deferred patch again.
When nothing was changed on `machine` or on the object nothing is sent, hence
`patchMachine` is only on the path that sets the provider ID.

*Calls.* `Reply` decides the fate of a call: `ok`, `refused` (no effect, error)
or `lost` (effect, error), the last two `MaxFaults` times in a run. `DeleteFails`
and `CreateFails` say which outcomes of a deletion or creation are errors
to `Reconcile`.

*Events.* `Deliver` takes a version into the cache and enqueues the key if
`EventFilter` lets the event pass: the machine carries the label
(`m \in Labelled`) and is not paused, judged by the new object for creations and
updates and by the old one for removals. An event of the Machine is filtered by
the Machine's own label and annotation, so it wakes a paused KubemarkMachine
too (`MachineEvent`, `Replayed`). Cluster events do not pass this filter at all,
because their watch is added after `Build` (`ClusterToKubemarkMachines`); what
passes their own predicate is the Cluster becoming ready and its being unpaused
(`ClusterEvent`).
`Reconcile` itself looks at neither the label nor the annotation.

*The environment* creates, adopts, pauses and resumes, deletes (in the
background or in the foreground) and re-creates the object, makes bootstrap data
and infrastructure ready, corrects the version, removes owners, and edits the
hollow-pod secret. `CrashRestart` stands for a crash and for a take-over by
another manager: all local state is forgotten, and the informer lists the
objects either as they are or as old as the cache was, with the rest still under
way. A list *older* than what was seen before is excluded: with it a manager
could create a pod for a machine whose clean-up is over, and `NoOrphan` would
rest on the API server.

*Abstractions.* A namespace's white space is kept (`TrimSpace`) because it
decides where the pod goes; versions are the four classes the code tells apart;
finalizers are a set of ours and one of another party; the provider ID is
present or absent.
The branch at line 178 (`client == nil` without an error) is not in the model:
`GenerateKubemarkClusterClient` never returns that.
Machine, Cluster and secrets are read at their current value; the model has
a stale cache for the KubemarkMachine itself, the object all the writes go to,
and stale reads of Machine and Cluster through `seen`, which is taken once at
the start of a reconcile.

*Refinement.* `HollowMachine` has, for each machine, a `life` (*free*, *held*
while the finalizer is set, *doomed* when it is also being deleted) and the sets
of machines with a secret and with a running pod. Its steps are `Hold`, `Doom`,
`Equip`, `Launch`, `Stop`, `Strip` and `Release`. `KubemarkMachine` maps its
stored object to `life` (`Life`) and the owners of pods and secrets to the two
sets; `LifeCycle` says that each of its steps is one of these or a stutter. A
*doomed* machine may still be equipped and launched: that is a reconcile working
on a copy from before the deletion.

### KubemarkMachineTemplate

The same structure for one template: `stored`, `watch`, `cache`, a filter; a
reconcile computes a capacity from the cached copy and `Patch` applies the JSON
merge patch of the difference between the copy's capacity and the new one to
whatever is stored by then (`MergePatched`). Nil options and an empty map are
different values, as they are in Go. Quantities are written in canonical form
(`Canonical`, `Encoded`): options saying `4000M` give a capacity read back as
`4G`, which `reflect.DeepEqual` never finds equal to the computed one. Every
reconcile of such a template therefore asks for a patch; the patch is empty, so
nothing is stored and no event follows (`Settles`).

The filter drops the events of a template that is paused and of one without the
label of `--watch-filter`. Both can be changed by users at any time and mean the
same to the filter, so one field, `ignored`, stands for "paused or without the
label", set from the start or later.

### HollowNode

One reconcile from the inputs it reads to the pod it sends, for every input:
`GenerateSecret` (the paths in the kubeconfig and the entries of the secret),
`CheckVersion`, `getKubemarkExtendedResourcesFlag` (a Go map is walked in any
order), `MountNext` once per extra mount, `CreatePod`, which the API server
refuses when volume names or mount points collide (`Accepted`). Names are
opaque; a path is a spelling together with the names on the way to what it
denotes (`Clean`), because the API server compares the spellings and the kernel
does not: `/kubeconfig/` is accepted next to `/kubeconfig`. What the container
sees at a place is what the deepest mount that covers it shows (`Serving`,
`Served`); the properties follow the chain from a path in the kubeconfig through
that mount to a volume and an entry of the secret. A CA that the
manager's own configuration names as a *file* is copied into the node's
kubeconfig as a path that means nothing there; `FindsCredentials` excludes it
(Cluster API's kubeconfig secrets carry the data).

### Manager

`stage` is how far `main` has come in each replica; any error, a signal, a crash
and the loss of the lease end in `Exit`, and the process is started again under
a new identity. The elector of client-go is modelled from its use: a record in
the lease (`holder`), whether a candidate has seen the current record and for
how long (`seen`, `waited`), how long ago the reply to the leader's last renewal
came (`since`). A write to the lease and its reply are two steps. `Acquire` and
`Renew` write (`Record`), and from then on a candidate that observes the record
counts; `Acquired` and `Renewed` are the reply, from which the writer counts, and
`Lost` is a reply that never comes: the write counts for the candidates and not
for the writer. `pending` is how long a reply has been under way, at most
`ReplyDelay` ticks. Nothing obliges a leader to reach the API server; but its own
timers fire in time, that is, time does not pass beyond the point where it steps
down (`Tick`). A process that is suspended for longer than that is out of the
model, as it is out of the elector's guarantees.

`ValidElection` is what the elector checks of the durations. It is not enough:
the leader waits `RetryPeriod` before it begins to renew and gives up
`RenewDeadline` later, and all of that starts with a reply, `ReplyDelay` after
the write at worst. So `LeaseDuration` must exceed the sum of the three
(`Timely`). The defaults (60 s, 40 s, 5 s) do as long as a reply takes less than
15 s; the code sets no such limit (the renewals of one round share
`RenewDeadline`, the first acquisition has none), and the run `manager_late`
shows two active managers when replies may take as long as the renew deadline.
The durations 60 s, 58 s and 5 s are accepted too, and fail with no delay at all.

### PublishImages

The tool keeps nothing in memory from one run to the next, but its checkout,
build output, link and local images stay on disk. One action for each command
that can fail: `imageExists` (which takes docker's exit codes 1 and 125 for "no
image" whatever their cause, so that an image may be built twice), `Checkout`, `Make`, `Link`, `DockerBuild`,
`Unlink` (deferred) and `dockerPush`; `Fatal` is `log.Fatalf`. A file is
represented by the release it was built from. The link is a hard link
(`os.Link`), so it keeps the old binary when a new one is built, and cannot be
made where one exists: a link left by a killed run makes every later build fail,
which is what keeps images from getting the wrong binary (`ImagesMatchTags`;
the variant `LinkAny` shows what would happen otherwise).

## 3. Runs

All runs finish within three minutes on two workers. Deadlock is not
checked where, with nothing left to do, the modelled program rests.

| Run | Instance | Shows |
|---|---|---|
| `lifecycle` | 1 machine, 1 failing call, 1 crash, foreground deletion, owners lost, hollow-pod secret unreadable at times, version refused at first | `TypeOK`, `NoOrphan`, `ReadyHasPod`, `ReadyHasProviderID`, `ForeignFinalizerKept`, `LifeCycle` |
| `wakeups` | pod in the management cluster, no resync, no failing call, created twice, paused once, the Cluster unpaused at any time | `CleanupInv`, `PodHasSecret`, `LifeCycle`, `ProvisioningCompletes`, `DeletionCompletes` |
| `retry` | resync, 2 failing calls, 1 crash, secret missing at times, foreground deletion | `FirstLifeInv`, `ReadyHasPod`, `ProvisioningCompletes`, `DeletionCompletes` |
| `template` | 4 option values, created twice, 1 edit, ignored once, 1 failing call, 1 crash | `TypeOK`, `TemplateInv`, `CapacityComplete`, `CapacityAtRest`, `Settles`, `CapacityConverges` |
| `publish` | 2 releases to publish, 2 tags to skip, 3 runs, any command failing, kills | `TypeOK`, `PublishInv`, `ImagesMatchTags`, `DoneIsComplete`, `NoStaleLink` |
| `manager` | 2 replicas, default durations in ticks of 5 s, with and without leader election, replies lost or up to 10 s late, exits | `OneActive`, `LeaseInv`, `SomeoneActive` |
| `render` | all classes of versions and options, CA as data or file, up to two extra mounts that may collide, nest, or be spelt differently | `RenderInv`, `FindsCredentials`, `MountsServed`, `AdvertisesCapacity` |

Five runs show where the code and its comments disagree (`findings`):

| Run | What TLC finds |
|---|---|
| `retarget` | the secret's namespace is changed after provisioning; deletion looks in the new namespace, finds nothing and drops the finalizer: pod and secret stay. The finalizer's comment promises clean-up |
| `replaced` | a machine re-created while its old pod is still terminating takes `AlreadyExists` for success and stays `Ready` after the pod is gone |
| `filter` | a machine without the label of `--watch-filter` is reconciled when its Cluster becomes ready |
| `template_unset` | options removed from a template leave the old capacity published |
| `manager_late` | replies may take as long as the renew deadline: a leader that learns late of its lease is still active when a candidate, counting from the write, takes it over. `--leader-elect` promises one active manager |

**Bounds and why they are enough.** `MaxFaults` = 2 in `retry` lets a call and
its retry both fail (one lost status patch is still made up for by the event of
the spec patch before it, two are not, and only the resync helps); one failing
call at any place is what `lifecycle` adds to a crash. `MaxCrashes` = 1 puts a
crash between any two steps, and the state after a restart keeps nothing of what
was before except the stored objects and, perhaps, the age of the cache;
`MaxCreates` = 2 is needed for an old copy to meet a new object. One pause and
resumption suffice, since a paused object leaves no trace but dropped events.
The lengths of `watch` need no bound: the number of stored versions is finite.
One machine suffices for the runs: machines share only workers and hosting
clusters, and that sharing is covered by the proofs, whose theorems are about
any set of machines. Two replicas show leader and candidate; `ReplyDelay` = 2
is the largest delay the default durations allow, with 3 both invariants fail. The proofs of section 4 have none of these bounds.

**Limits of the properties.**
- `ReadyHasPod` is about machines with a slot (host, namespace, name) of their
  own. Two machines of one name in two namespaces that share an external
  namespace adopt one pod, and the deletion of one leaves the other `Ready`.
- `LifeCycle` holds with re-creations and holds with foreground deletions, but
  not with both: a reconcile that fetched an object which is being deleted in
  the foreground, and which the controller had not put its finalizer on yet,
  may put it on the object's successor and then delete the successor's pod and
  secret. TLC finds such a history with `MaxCreates` = 2 and `"foreground"` in
  `Disruptions`; `lifecycle` has the one, `wakeups` the other.
- `ReadyHasProviderID` allows as many missing provider IDs as calls have failed:
  when the spec patch or the patch of the Machine is refused and the status
  patch succeeds, `Ready` is latched and the patch is not repeated.
- `ForeignFinalizerKept` has one exception, which the code has too: a reconcile
  whose copy did not show our finalizer yet sends the whole list, and a finalizer
  that was added since the copy is lost. Once our finalizer has been seen the
  list is not part of a patch until the deletion branch removes it.
- `ProvisioningCompletes` and `DeletionCompletes` speak of machines that carry
  the label and are not paused in the end, whose owners and hollow-pod secret
  are there in the end. `DeletionCompletes` leaves out re-created objects
  without an owner reference: a late reconcile of the previous object may give
  one a finalizer, and `Reconcile` returns before its delete branch.
- `CapacityComplete` is about the first template of a name: a patch that holds
  only the difference to the old template's capacity may reach a new template
  whose capacity is still empty, and a partial capacity is then published until
  the next reconcile repairs it (`CapacityAtRest`, `CapacityConverges`).
- `CapacityHonest` differs from `CapacityAtRest` only for templates whose options
  are absent; there it fails (`template_unset`).
- `OneActive` holds for replies within `ReplyDelay`, as described in section 2.
- `FindsCredentials` leaves out extra mounts that take the place of
  `/kubeconfig` under another spelling, or of the file in it: the API server
  accepts them and the node then finds no credentials. `MountsServed` leaves out
  mounts that share their place with another one for the same reason.
- `AdvertisesCapacity` asks for the default cpu and memory from 1.22.0 on, but
  not of a pre-release of a later version: the constraint `>= 1.22.0` of line 343
  refuses every pre-release, so such a node is started without the flag, although
  the repository's `README.md` (line 97) says that by default all nodes report
  `1` CPU and `4G` memory.

**Fairness.** For each machine: strong fairness on starting a reconcile (the
queue is first-in first-out, so a waiting key gets one of the workers in the end
even if others compete), weak fairness on the steps of a running reconcile, on
delivery by the informer, on the resync (enabled when `Resyncs`) and on the
removal of another party's finalizer. Users and the other controllers may stop
at any time. In `retry` the fault bound makes failures finite, which stands for
failures that do not go on for ever; the code promises nothing otherwise. The
template needs only its own steps and the informer. For the manager: processes
are started again and go through `main` (whoever runs the deployment does that),
time goes on, candidates read the lease, and a candidate that may take the lease
again and again reaches the API server and gets a reply in the end (strong
fairness of `Acquire` and `Acquired`); a call comes to its end, with a reply or
without; no renewal is obliged to succeed.

## 4. Proofs

Checked by TLAPS, for every value of the constants that satisfies the modules'
assumptions.

**Machine controller** (`KubemarkMachineProofs`, `KubemarkMachineCleanup`).
- `TypeCorrect`: `Spec => []TypeOK`.
- `CleanupInvariant`: `Spec => []CleanupInv`, and from it `NothingIsOrphaned`:
  `Spec => []NoOrphan`, both under `"retarget" \notin Disruptions`, that is, as
  long as no edit of a hollow-pod secret makes it name another host. The run
  `retarget` shows that the condition cannot be dropped.

*Why a strengthening is needed.* `NoOrphan` speaks of the stored object; a
reconcile decides by an old copy of it. A step that creates a pod is safe only
if the stored object has the finalizer *now*, and a step that drops the
finalizer only if no pod exists *now*. Neither follows from the local copy, so
`CleanupInv` speaks of the whole `History` of an object: the cached version
followed by those under way.

- `HistoryInv`: the last version is the stored one; read from old to new the
  versions are `Ordered`: once held (finalizer present) an object is not loose
  again without a deletion in between, and a deletion is never followed by a
  held live version in the same history. A reconcile that works on a deleting
  copy only has the end of that deletion ahead of it (`Falling`); any other
  one past `addFinalizer` works on an object that is held now.
- `LocalInv`: what the copies `before` and `obj` say of each other at each
  step, and that `dest` is the machine's home.
- `HostInv`: the pod and secret a machine created are at its home, where its
  deletion looks; past `deletePod` there is no running pod, and when the
  finalizer is about to go, neither pod nor secret.

The key cases are `AddFinalizer` (a late reconcile of an old object may put the
finalizer on a new one, which is harmless), `PatchSpec` (the only step that
removes the finalizer; the host is clean by `HostInv` and stays so because the
same machine has no second reconcile) and `CreateSecret`/`CreatePod` (the
object is held by `HistoryInv`). `CrashRestart` either shortens a history to its
last version or leaves it as it is. Lemmas `OrderedAppend`, `KeepAppend`,
`LooseAppend` and `TailKeeps` carry the sequence reasoning; `QuietStep` and
`KeepStep` dispose of the actions that touch neither finalizer nor host.

**Manager** (`ManagerProofs`). `LeaseInvariant`: `Spec => []LeaseInv` and
`OnlyOneActive`: `Spec => []OneActive`, for any number of replicas, any durations
and any delay of replies, assuming `Timely`. `OneActive` alone is not inductive:
that a candidate may not enter follows from how long it has waited compared to
how long the leader has gone without a reply to a renewal. `LeaseInv` bounds the
one by the other plus `ReplyDelay` (`Leading`), and needs the same of a process
whose reply is under way, leader or not yet leader (`Awaiting`): it is in the
lease, and nobody has waited for longer than it has. `Timely` then makes the wait
of a candidate shorter than the lease as long as there is a leader or a process
about to become one.

**First life of a machine** (`KubemarkMachineFirstLife`). `FirstLifeInvariant`:
`Spec => []FirstLifeInv`, and from it `ReadyMeansPod` (`ReadyHasPod`),
`ReadyMeansProviderID` (`ReadyHasProviderID`) and `ForeignFinalizersKept`
(the action property `ForeignFinalizerKept`).

Three hypotheses delimit them, each stated in the theorem that needs it:
- `"retarget" \notin Disruptions`, as above;
- `Apart`: no two machines have one name where they are hosted. Within one
  namespace Kubernetes guarantees it; across namespaces that share an external
  one, the names Cluster API generates make it so, and nothing in this
  repository does (`ReadyHasPod` in section 3);
- `MaxCreates <= 1`: a name is not used again. Names generated by MachineSets
  are not; a user may do it, and the run `replaced` shows what happens then.
  `ReadyMeansProviderID` and `ForeignFinalizersKept` do not need `Apart`.

*The argument.* Without re-creation the versions of an object only move in one
direction, so an old copy says something lasting about the stored object
(`VersionInv`): if a copy is deleting, the stored object is deleting or gone and
has no finalizer the copy does not show; a live copy has no other party's
finalizer; a provider ID in a copy is also stored, unless the object is gone.
The copy a reconcile changes differs from the one it fetched in
known ways (`CopyInv`). `ReadyInv` then ties `Ready`, and a reconcile that is
about to store it (`Readies`), to the pod; `ProviderInv` counts the provider
IDs that are missing or may still come to be missing against the calls that
have failed. `ReadyHasPod` is not inductive without the part about `Readies`:
between the creation of the pod and the status patch only the reconcile's own
copy is ready.

**Refinement** (`KubemarkMachineLifeCycle`). `PodsHaveSecrets`
(`PodHasSecret`, re-creations included) and `ImplementsLifeCycle`
(`Spec => LifeCycle`), under `Apart`, no retarget and, for the latter,
`MaxCreates <= 1 \/ "foreground" \notin Disruptions`. The initial states map to
`Hollow!Init`; each action maps to a step of `HollowMachine` or to a stutter,
one lemma per action. The steps that need invariants are those on the host: a
`Launch` needs a secret (`SecretInv`) and an object that is held or doomed
(`CleanupInv`); `Stop` and `Strip` need the stored object to be doomed or gone,
although the reconcile knows only its copy (`DeletesDoomed`). `DeletesDoomed`
is proved in two ways, from `VersionInv` when names are not used again, and
from `BackgroundInv` and the ordered history of `CleanupInv` when they are but
no foreground deletion occurs; the third case is the counterexample of
section 3.

**Template controller** (`KubemarkMachineTemplateProofs`). First, lemmas about
resource maps: what `Overlay`, `Encoded` and `MergePatched` yield, entry by
entry; a patch computed from what is stored gives exactly what was wanted
(`MergeExact`); patches keep stored maps in canonical form (`MergeEncoded`).
Then `TemplateTypeCorrect` and `TemplateInvariant`: `TypeOK` and `TemplateInv`
hold for all options, bounds and histories. Its parts:
- `CompleteInv`: while the first template of a name has no capacity, no copy
  and no patch is based on one, so the first patch carries every entry. Hence
  `CapacityIsComplete`.
- `WatchInv`: the informer is on its way to what is stored. `PatchInv`: a patch
  is based on the cached copy, or another reconcile is due. With `MergeExact`
  they give `CapacityAtRest`, hence `CapacityIsExactAtRest`, for any options.

**Hollow node** (`HollowNodeProofs`). `RenderInvariant`: secret, flag and pod
are the prefix of what the machine asks for (`RenderInv`); the pod after *n*
turns of the loop is given in closed form (`PodWith`). From it
`CredentialsAreFound`, `MountsAreServed` and `CapacityIsAdvertised`, for any
number of mounts, any paths and any resources. The core is `ServedAt`: in a pod
whose volume names are distinct, a place is shown by the volume of the deepest
mount that covers it when that mount is the only one so deep; two covering mounts
of one depth are at one place (`CoversLine`).

**Image publisher** (`PublishImagesProofs`). `PublishInvariant` (`TypeOK` and
`PublishInv`: each command finds what the one before it left, and a run that
pushes has dealt with every tag it is past), hence `PublishTypeCorrect`,
`ImagesAreRight`, `LinksAreRemoved` and `DoneRunsAreComplete`, for any list of
tags and any number of runs.

*Only model-checked:* all liveness, that is `ProvisioningCompletes`,
`DeletionCompletes`, `Settles`, `CapacityConverges` and `SomeoneActive`
(fairness and ENABLED are out of the prover's reach). Every safety property
that a passing run checks is stated by a theorem, under the hypotheses above.

## 5. What is not modelled

- The bytes of keys, certificates and kubeconfig, and so the credentials of a
  secret that is kept across a CA rotation.
- The loss of a running pod: nothing in the repository watches pods, so nothing
  reacts to it.
- Logging, TLS, metrics, profiling and health endpoints of `main.go`: set-up
  whose only effect on the rest is the exit on an error (`Killed`).
- Conditions: declared in the API, set by no code. Scheme registration.
- Generated deep copies and the boilerplate checker.

## 6. Plan

Done, in this order: `KubemarkCluster`, `KubemarkMachine` with its runs,
`ExtendedResources`, `KubemarkMachineTemplate`, the proofs of type correctness
and of clean-up, `PublishImages`; then event filters and take-over in the
controllers' modules, `HollowMachine` and the refinement, `Manager` with its
proofs, `HollowNode`.
Then the proofs of the first life, of the refinement, of the template
controller, the hollow node and the publisher.

Next:
1. What remains true of `ReadyHasPod` and `ForeignFinalizerKept` when names are
   used again: a statement that excludes only the histories of `replaced`.
2. `LifeCycle` for machines that share a name where they are hosted, with a
   mapping that follows the pod rather than its creator.
3. The step from safety to liveness as far as invariants carry it: that a
   machine that is not where it should be always has a cause for another
   reconcile (a key in the queue, a version under way, a reconcile running or a
   resync), as `PatchInv` and `CapacityAtRest` say of the template.
