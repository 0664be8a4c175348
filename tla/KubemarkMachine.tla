--------------------------- MODULE KubemarkMachine ---------------------------
(***************************************************************************)
(* The KubemarkMachine controller (controllers/kubemarkmachine_controller) *)
(* and what it runs against: the API server that stores KubemarkMachine    *)
(* objects, the informer cache that lags behind it, the work queue, the    *)
(* cluster that hosts the hollow-node pods, and the Cluster API objects    *)
(* whose state it waits for.                                               *)
(*                                                                         *)
(* One reconcile of a machine is a sequence of steps, one for each call    *)
(* that leaves the process; every call may be refused, or be carried out   *)
(* with its reply lost.  Between two steps anything else may happen: the   *)
(* user deletes or re-creates the machine, the cache moves on, the manager *)
(* crashes and starts again.                                               *)
(***************************************************************************)
EXTENDS Naturals, Sequences, FiniteSets, KubemarkCluster

CONSTANTS Machines,      \* keys of KubemarkMachines (namespace/name)
          Nobody,        \* not a machine
          Names,         \* object names
          NameOf,        \* the name part of a key
          NamespaceOf,   \* the namespace part of a key
          Home,          \* where the machine's hollow pod belongs at first
          HollowChoices, \* contents the hollow-pod cluster Secret may take
          Versions,      \* values of Machine.spec.version that may occur
          Options,       \* is KubemarkOptions.ExtendedResources non-nil?
          Disruptions,   \* which of the rarer events of the environment occur
          Resyncs,       \* does the informer resync (syncPeriod)?
          Labelled,      \* machines with the label of --watch-filter, or all
          MaxConcurrentReconciles,
          MaxFaults,     \* bound: API calls that fail
          MaxCrashes,    \* bound: crashes of the manager
          MaxCreates,    \* bound: creations of the object of each machine
          MaxPauses      \* bound: times an object is paused

ASSUME MachineAssumption ==
    /\ Nobody \notin Machines
    /\ NameOf \in [Machines -> Names]
    /\ NamespaceOf \in [Machines -> Namespaces]
    /\ Home \in [Machines -> Hosts]
    /\ HollowChoices \subseteq HollowRefs
    /\ Versions \subseteq {"none", "unparsable", "old", "supported"}
    /\ Options \subseteq BOOLEAN
    /\ Disruptions \subseteq {"foreground", "ownerLoss", "secretEdit", "retarget", "clusterUnpause"}
    /\ Resyncs \in BOOLEAN
    /\ Labelled \subseteq Machines
    /\ MaxConcurrentReconciles \in Nat \ {0}
    /\ MaxFaults \in Nat
    /\ MaxCrashes \in Nat
    /\ MaxCreates \in Nat
    /\ MaxPauses \in Nat

VARIABLES
    \* API server
    km,       \* [Machines -> KubemarkMachine object]
    watch,    \* versions stored but not yet delivered to the informer
    \* manager process
    cache,    \* the informer's copy of km
    queue,    \* keys in the work queue
    pc,       \* the step the reconcile of a machine is at
    before,   \* the patch helper's copy of the object as it was fetched
    obj,      \* the object the reconcile works on
    seen,     \* what the reconcile read of the Machine and the Cluster
    dest,     \* the client and namespace the reconcile obtained
    ret,      \* the result the reconcile will return: "nil" or "err"
    \* hosting cluster
    pods,     \* [Slots -> Pod]
    secrets,  \* [Slots -> the machine whose reconcile created the Secret]
    \* Cluster API objects, and the hollow-pod cluster Secret
    machine, cluster, hollow,
    \* bounds
    faults, crashes, creates, pauses

apiVars    == <<km, watch>>
localVars  == <<before, obj, seen, dest, ret>>
workVars   == <<queue, pc, localVars>>
hostVars   == <<pods, secrets>>
capiVars   == <<machine, cluster, hollow>>
boundVars  == <<crashes, creates, pauses>>
vars == <<apiVars, cache, workVars, hostVars, capiVars, faults, boundVars>>

-----------------------------------------------------------------------------
(***************************************************************************)
(* Objects.                                                                *)
(***************************************************************************)
MachineFinalizer == "kubemarkmachine.infrastructure.cluster.x-k8s.io"

\* A finalizer some other party owns; the API server sets this one itself on
\* a foreground deletion.
ForeignFinalizer == "foregroundDeletion"

(***************************************************************************)
(* phase is "none" when there is no such object, "deleting" once it has a  *)
(* deletion timestamp; owned: the OwnerReference to a Machine is set;      *)
(* providerID: Spec.ProviderID is "kubemark://<name>", not nil; extended:  *)
(* Spec.KubemarkOptions.ExtendedResources is not nil; paused: the          *)
(* annotation of that name is set.                                         *)
(***************************************************************************)
Objects == [phase      : {"none", "live", "deleting"},
            finalizers : SUBSET {MachineFinalizer, ForeignFinalizer},
            owned      : BOOLEAN,
            extended   : BOOLEAN,
            paused     : BOOLEAN,
            providerID : BOOLEAN,
            ready      : BOOLEAN]

NoObject == [phase |-> "none", finalizers |-> {}, owned |-> FALSE,
             extended |-> FALSE, paused |-> FALSE, providerID |-> FALSE, ready |-> FALSE]

\* What a reconcile reads of the Machine and the Cluster before it starts.
Reads == [infrastructureReady : BOOLEAN,
          dataSecretName      : BOOLEAN,
          version             : Versions \union {"none"}]

NoReads == [infrastructureReady |-> FALSE, dataSecretName |-> FALSE, version |-> "none"]

MachineObjects == [exists : BOOLEAN, dataSecretName : BOOLEAN,
                   version : Versions, providerID : BOOLEAN]

ClusterObjects == [exists : BOOLEAN, infrastructureReady : BOOLEAN,
                   kubeconfig : BOOLEAN, ca : BOOLEAN]

\* An object name in a namespace of a hosting cluster.
Slots == Hosts \X Names

Pods == [phase : {"none", "running", "terminating"}, by : Machines \union {Nobody}]

NoPod == [phase |-> "none", by |-> Nobody]

Steps == {"idle", "addFinalizer", "generateClient", "deletePod", "deleteSecret",
          "prerequisites", "createSecret", "createPod", "patchMachine",
          "patchSpec", "patchStatus"}

TypeOK ==
    /\ km \in [Machines -> Objects]
    /\ watch \in [Machines -> Seq(Objects)]
    /\ cache \in [Machines -> Objects]
    /\ queue \in SUBSET Machines
    /\ pc \in [Machines -> Steps]
    /\ before \in [Machines -> Objects]
    /\ obj \in [Machines -> Objects]
    /\ seen \in [Machines -> Reads]
    /\ dest \in [Machines -> Hosts \union {NoHost}]
    /\ ret \in [Machines -> {"nil", "err"}]
    /\ pods \in [Slots -> Pods]
    /\ secrets \in [Slots -> Machines \union {Nobody}]
    /\ machine \in [Machines -> MachineObjects]
    /\ cluster \in ClusterObjects
    /\ hollow \in [Machines -> HollowRefs]
    /\ faults \in Nat
    /\ crashes \in Nat
    /\ creates \in [Machines -> Nat]
    /\ pauses \in Nat

\* The client and namespace a reconcile of m would obtain now.
Resolve(m) == GenerateKubemarkClusterClient(hollow[m], NamespaceOf[m])

\* Nothing has been created yet; the Machine and the Cluster exist.
Init ==
    /\ km = [m \in Machines |-> NoObject]
    /\ watch = [m \in Machines |-> <<>>]
    /\ cache = [m \in Machines |-> NoObject]
    /\ queue = {}
    /\ pc = [m \in Machines |-> "idle"]
    /\ before = [m \in Machines |-> NoObject]
    /\ obj = [m \in Machines |-> NoObject]
    /\ seen = [m \in Machines |-> NoReads]
    /\ dest = [m \in Machines |-> NoHost]
    /\ ret = [m \in Machines |-> "nil"]
    /\ pods = [s \in Slots |-> NoPod]
    /\ secrets = [s \in Slots |-> Nobody]
    /\ machine \in [Machines -> [exists : {TRUE}, dataSecretName : {FALSE},
                                 version : Versions, providerID : {FALSE}]]
    /\ cluster = [exists |-> TRUE, infrastructureReady |-> FALSE,
                  kubeconfig |-> FALSE, ca |-> FALSE]
    /\ hollow \in [Machines -> HollowChoices]
    /\ \A m \in Machines : Resolve(m) = Home[m]
    /\ faults = 0
    /\ crashes = 0
    /\ creates = [m \in Machines |-> 0]
    /\ pauses = 0

-----------------------------------------------------------------------------
(***************************************************************************)
(* The API server.                                                         *)
(***************************************************************************)

\* A new version of the object is stored and queued for the informer; a
\* write that changes nothing makes no new version.
Store(m, o) ==
    /\ km' = [km EXCEPT ![m] = o]
    /\ watch' = IF o = km[m] THEN watch
                             ELSE [watch EXCEPT ![m] = Append(@, o)]

\* A write is refused when the object is gone, or when it would add a
\* finalizer to an object that is being deleted.
Admitted(old, new) ==
    /\ old.phase # "none"
    /\ old.phase = "deleting" => new.finalizers \subseteq old.finalizers

\* An object under deletion disappears with its last finalizer.
Collected(o) ==
    IF o.phase = "deleting" /\ o.finalizers = {} THEN NoObject ELSE o

(***************************************************************************)
(* The merge patches patch.Helper.Patch sends: only fields that differ     *)
(* between the copy b made by NewHelper and the object a at the time of    *)
(* the call are in the patch, there is no precondition on the version, and *)
(* the list of finalizers is replaced as a whole.  Metadata and spec go in *)
(* one call, status in a second one; nothing is sent when nothing differs. *)
(***************************************************************************)
HasSpecPatch(b, a) == a.finalizers # b.finalizers \/ a.providerID # b.providerID

SpecPatched(o, b, a) ==
    [o EXCEPT !.finalizers = IF a.finalizers = b.finalizers THEN @ ELSE a.finalizers,
              !.providerID = IF a.providerID = b.providerID THEN @ ELSE a.providerID]

HasStatusPatch(b, a) == a.ready # b.ready

StatusPatched(o, b, a) == [o EXCEPT !.ready = IF a.ready = b.ready THEN @ ELSE a.ready]

(***************************************************************************)
(* The fate of a call: "ok", "refused" before it took effect, or "lost":   *)
(* carried out, but the caller sees an error.                              *)
(***************************************************************************)
Replies == {"ok", "refused", "lost"}

Reply(r) ==
    /\ r # "ok" => faults < MaxFaults
    /\ faults' = IF r = "ok" THEN faults ELSE faults + 1

\* The effect of writing o over the stored object of m.
Write(m, o, r) ==
    IF r # "refused" /\ Admitted(km[m], o) THEN Store(m, Collected(o))
                                           ELSE UNCHANGED apiVars

-----------------------------------------------------------------------------
(***************************************************************************)
(* One reconcile.                                                          *)
(***************************************************************************)
Goto(m, step) == pc' = [pc EXCEPT ![m] = step]

\* The reconcile has its result; the deferred patch of the KubemarkMachine
\* is next.
Finish(m, result) ==
    /\ Goto(m, "patchSpec")
    /\ ret' = [ret EXCEPT ![m] = result]
    /\ UNCHANGED queue

\* Reconcile returns: an error puts the key back into the queue.
Return(m, result) ==
    /\ Goto(m, "idle")
    /\ queue' = IF result = "err" THEN queue \union {m} ELSE queue
    /\ before' = [before EXCEPT ![m] = NoObject]
    /\ obj' = [obj EXCEPT ![m] = NoObject]
    /\ seen' = [seen EXCEPT ![m] = NoReads]
    /\ dest' = [dest EXCEPT ![m] = NoHost]
    /\ ret' = [ret EXCEPT ![m] = "nil"]

\* The name of the pod and of the secret the reconcile of m works on.
Slot(m) == <<dest[m], NameOf[m]>>

\* A worker takes m from the queue; a key is never worked on twice at once.
Dequeue(m) ==
    /\ m \in queue
    /\ pc[m] = "idle"
    /\ Cardinality({n \in Machines : pc[n] # "idle"}) < MaxConcurrentReconciles

OwnerFound(m) == machine[m].exists /\ cluster.exists

\* The object is gone, or the Machine controller has not adopted it yet.
FetchNothing(m) ==
    /\ Dequeue(m)
    /\ cache[m].phase = "none" \/ ~cache[m].owned
    /\ queue' = queue \ {m}
    /\ UNCHANGED <<apiVars, cache, pc, localVars, hostVars, capiVars, faults, boundVars>>

\* The Machine or the Cluster cannot be fetched: an error, so m is queued again.
FetchFails(m) ==
    /\ Dequeue(m)
    /\ cache[m].phase # "none" /\ cache[m].owned /\ ~OwnerFound(m)
    /\ UNCHANGED vars

\* Variants with a defect: no finalizer is added, a misspelt one is.
WithFinalizerForgotten(o) == o
WithFinalizerMisspelt(o) == [o EXCEPT !.finalizers = @ \union {"kubemarkmachine"}]

WithFinalizer(o) == [o EXCEPT !.finalizers = @ \union {MachineFinalizer}]

\* The objects are fetched and AddFinalizer is called on the copy; the patch
\* is only sent when the copy did not have the finalizer.
Fetch(m) ==
    /\ Dequeue(m)
    /\ cache[m].phase # "none" /\ cache[m].owned /\ OwnerFound(m)
    /\ queue' = queue \ {m}
    /\ before' = [before EXCEPT ![m] = cache[m]]
    /\ obj' = [obj EXCEPT ![m] = WithFinalizer(cache[m])]
    /\ seen' = [seen EXCEPT ![m] =
                   [infrastructureReady |-> cluster.infrastructureReady,
                    dataSecretName      |-> machine[m].dataSecretName,
                    version             |-> machine[m].version]]
    /\ Goto(m, IF MachineFinalizer \in cache[m].finalizers THEN "generateClient"
                                                           ELSE "addFinalizer")
    /\ UNCHANGED <<apiVars, cache, dest, ret, hostVars, capiVars, faults, boundVars>>

\* The patch that puts the finalizer on the stored object.  When it fails
\* Reconcile returns at once: no deferred patch is registered yet.
AddFinalizer(m, r) ==
    LET o == SpecPatched(km[m], before[m], obj[m]) IN
    /\ pc[m] = "addFinalizer"
    /\ Reply(r)
    /\ Write(m, o, r)
    /\ IF r = "ok" /\ Admitted(km[m], o)
       THEN Goto(m, "generateClient") /\ UNCHANGED <<queue, localVars>>
       ELSE Return(m, "err")
    /\ UNCHANGED <<cache, hostVars, capiVars, boundVars>>

\* GenerateKubemarkClusterClient, and the branch on the deletion timestamp
\* and on Status.Ready of the copy.
GenerateClient(m, r) ==
    /\ pc[m] = "generateClient"
    /\ r # "lost"
    /\ r # "ok" => hollow[m].ref
    /\ Reply(r)
    /\ IF r = "ok" /\ Resolve(m) # NoHost
       THEN /\ dest' = [dest EXCEPT ![m] = Resolve(m)]
            /\ Goto(m, CASE obj[m].phase = "deleting" -> "deletePod"
                         [] obj[m].phase # "deleting" /\ obj[m].ready -> "patchSpec"
                         [] OTHER -> "prerequisites")
            /\ UNCHANGED <<queue, ret>>
       ELSE Finish(m, "err") /\ UNCHANGED dest
    /\ UNCHANGED <<apiVars, cache, before, obj, seen, hostVars, capiVars, boundVars>>

\* Variant with a defect: the pod is left running.
TerminatedNever(p) == p

\* Deleting a pod only starts its graceful termination.
Terminated(p) == IF p.phase = "running" THEN [p EXCEPT !.phase = "terminating"] ELSE p

\* Variant with a defect: the error of a deletion is not looked at.
DeleteFailsNever(r) == FALSE

\* NotFound, a deletion that had nothing to do, is no error.
DeleteFails(r) == r # "ok"

DeletePod(m, r) ==
    /\ pc[m] = "deletePod"
    /\ Reply(r)
    /\ pods' = IF r = "refused" THEN pods ELSE [pods EXCEPT ![Slot(m)] = Terminated(@)]
    /\ IF DeleteFails(r) THEN Finish(m, "err")
                         ELSE Goto(m, "deleteSecret") /\ UNCHANGED <<queue, ret>>
    /\ UNCHANGED <<apiVars, cache, before, obj, seen, dest, secrets, capiVars, boundVars>>

\* Variants with a defect: the finalizer stays, all of them go.
WithoutFinalizerForgotten(o) == o
WithoutAnyFinalizer(o) == [o EXCEPT !.finalizers = {}]

WithoutFinalizer(o) == [o EXCEPT !.finalizers = @ \ {MachineFinalizer}]

\* RemoveFinalizer changes the copy only.
DeleteSecret(m, r) ==
    /\ pc[m] = "deleteSecret"
    /\ Reply(r)
    /\ secrets' = IF r = "refused" THEN secrets ELSE [secrets EXCEPT ![Slot(m)] = Nobody]
    /\ obj' = IF DeleteFails(r) THEN obj ELSE [obj EXCEPT ![m] = WithoutFinalizer(@)]
    /\ Finish(m, IF DeleteFails(r) THEN "err" ELSE "nil")
    /\ UNCHANGED <<apiVars, cache, before, seen, dest, pods, capiVars, boundVars>>

\* The workload cluster's kubeconfig and CA must be there (an error if not),
\* the infrastructure and the bootstrap data ready (no error, no retry).
CheckPrerequisites(m) ==
    LET ready == seen[m].infrastructureReady /\ seen[m].dataSecretName IN
    /\ pc[m] = "prerequisites"
    /\ \/ /\ cluster.kubeconfig /\ ready /\ cluster.ca
          /\ Goto(m, "createSecret") /\ UNCHANGED <<queue, ret>>
       \/ /\ cluster.kubeconfig /\ ~ready
          /\ Finish(m, "nil")
       \/ /\ ~cluster.kubeconfig \/ (ready /\ ~cluster.ca)
          /\ Finish(m, "err")
    /\ UNCHANGED <<apiVars, cache, before, obj, seen, dest, hostVars, capiVars, faults, boundVars>>

\* A pod can be described: the version parses, and extended resources are
\* only asked for when kubemark supports them (>= 1.22.0).
Describable(version, extended) ==
    version = "supported" \/ (version = "old" /\ ~extended)

\* Variants with a defect: no error of a creation is looked at, or
\* AlreadyExists is an error like any other.
CreateFailsNever(r, exists) == FALSE
CreateFailsOnExisting(r, exists) == r # "ok" \/ exists

\* AlreadyExists, whatever it is that exists, is no error.
CreateFails(r, exists) == r # "ok"

\* The version is only looked at after the secret is created.
CreateSecret(m, r) ==
    /\ pc[m] = "createSecret"
    /\ Reply(r)
    /\ secrets' = IF r = "refused" \/ secrets[Slot(m)] # Nobody
                  THEN secrets ELSE [secrets EXCEPT ![Slot(m)] = m]
    /\ IF ~CreateFails(r, secrets[Slot(m)] # Nobody) /\ Describable(seen[m].version, obj[m].extended)
       THEN Goto(m, "createPod") /\ UNCHANGED <<queue, ret>>
       ELSE Finish(m, "err")
    /\ UNCHANGED <<apiVars, cache, before, obj, seen, dest, pods, capiVars, boundVars>>

\* Variant with a defect: the provider ID is not set.
ProvisionedHalf(o) == [o EXCEPT !.ready = TRUE]

Provisioned(o) == [o EXCEPT !.providerID = TRUE, !.ready = TRUE]

\* Then the provider ID and Ready are set on the copies.
CreatePod(m, r) ==
    /\ pc[m] = "createPod"
    /\ Reply(r)
    /\ pods' = IF r = "refused" \/ pods[Slot(m)].phase # "none"
               THEN pods ELSE [pods EXCEPT ![Slot(m)] = [phase |-> "running", by |-> m]]
    /\ IF CreateFails(r, pods[Slot(m)].phase # "none")
       THEN Finish(m, "err") /\ UNCHANGED obj
       ELSE /\ obj' = [obj EXCEPT ![m] = Provisioned(@)]
            /\ Goto(m, "patchMachine") /\ UNCHANGED <<queue, ret>>
    /\ UNCHANGED <<apiVars, cache, before, seen, dest, secrets, capiVars, boundVars>>

\* An event of a Machine passes the filter if the Machine has the label; it
\* has it when its KubemarkMachine does.  Nobody pauses the Machine itself.
MachineEvent(m) == queue' = IF m \in Labelled THEN queue \union {m} ELSE queue

\* First deferred patch (defers run last-in, first-out): the provider ID of
\* the Machine, sent unless the Machine has it already.  An update of the
\* Machine wakes the controller up; an error is logged and dropped.
PatchMachine(m, r) ==
    /\ pc[m] = "patchMachine"
    /\ r # "ok" => ~machine[m].providerID
    /\ Reply(r)
    /\ IF r = "refused" \/ ~machine[m].exists \/ machine[m].providerID
       THEN UNCHANGED <<machine, queue>>
       ELSE /\ machine' = [machine EXCEPT ![m].providerID = TRUE]
            /\ MachineEvent(m)
    /\ Goto(m, "patchSpec")
    /\ UNCHANGED <<apiVars, cache, localVars, hostVars, cluster, hollow, boundVars>>

\* Second deferred patch, first call: metadata and spec.  Its error does not
\* keep the status patch from being sent.
PatchSpec(m, r) ==
    /\ pc[m] = "patchSpec"
    /\ r # "ok" => HasSpecPatch(before[m], obj[m])
    /\ Reply(r)
    /\ IF HasSpecPatch(before[m], obj[m])
       THEN Write(m, SpecPatched(km[m], before[m], obj[m]), r)
       ELSE UNCHANGED apiVars
    /\ Goto(m, "patchStatus")
    /\ UNCHANGED <<cache, queue, localVars, hostVars, capiVars, boundVars>>

\* Second deferred patch, second call: status.  Errors are logged and
\* dropped: the result of the reconcile stays what it was.
PatchStatus(m, r) ==
    /\ pc[m] = "patchStatus"
    /\ r # "ok" => HasStatusPatch(before[m], obj[m])
    /\ Reply(r)
    /\ IF HasStatusPatch(before[m], obj[m])
       THEN Write(m, StatusPatched(km[m], before[m], obj[m]), r)
       ELSE UNCHANGED apiVars
    /\ Return(m, ret[m])
    /\ UNCHANGED <<cache, hostVars, capiVars, boundVars>>

-----------------------------------------------------------------------------
(***************************************************************************)
(* Events: informer, manager, users and the other controllers.             *)
(***************************************************************************)

\* Variant with a defect: an update is judged by the object it replaces.
EventFilterOld(m, old, new) == m \in Labelled /\ ~old.paused

\* The event that turns old into new concerns this manager: the label is
\* there and the object is not paused (after an update; before a removal).
EventFilter(m, old, new) ==
    /\ m \in Labelled
    /\ ~(IF new.phase = "none" THEN old ELSE new).paused

\* The informer takes over the next version; the filter decides whether the
\* key is enqueued.
Deliver(m) ==
    /\ watch[m] # <<>>
    /\ cache' = [cache EXCEPT ![m] = Head(watch[m])]
    /\ watch' = [watch EXCEPT ![m] = Tail(@)]
    /\ queue' = IF EventFilter(m, cache[m], Head(watch[m])) THEN queue \union {m} ELSE queue
    /\ UNCHANGED <<km, pc, localVars, hostVars, capiVars, faults, boundVars>>

\* Variant with a defect: the cache is never replayed.
ResyncNever(m) == m \notin Machines /\ UNCHANGED vars

\* The informers' copies of the KubemarkMachine and of its Machine, shown to
\* the controller once more, make it look at m.  A paused object is woken up
\* by its Machine.
Replayed(m, o) ==
    /\ o.phase # "none"
    /\ EventFilter(m, o, o) \/ (m \in Labelled /\ machine[m].exists)

\* Every syncPeriod the informers replay what they hold.
Resync(m) ==
    /\ Resyncs
    /\ Replayed(m, cache[m])
    /\ queue' = queue \union {m}
    /\ UNCHANGED <<apiVars, cache, pc, localVars, hostVars, capiVars, faults, boundVars>>

(***************************************************************************)
(* The manager dies at any point and starts again, or another one takes    *)
(* over: what it had in memory is lost.  The informer lists the objects,   *)
(* as they are or as old as a lagging API server shows them (never older   *)
(* than they were seen before), and all of them are new to the controller; *)
(* so is the Cluster.                                                      *)
(***************************************************************************)
CrashRestart ==
    /\ crashes < MaxCrashes
    /\ crashes' = crashes + 1
    /\ \/ cache' = km /\ watch' = [m \in Machines |-> <<>>]
       \/ UNCHANGED <<cache, watch>>
    /\ queue' = {m \in Machines : \/ Replayed(m, cache'[m])
                                 \/ /\ cache'[m].phase # "none"
                                    /\ cluster.exists /\ cluster.infrastructureReady}
    /\ pc' = [m \in Machines |-> "idle"]
    /\ before' = [m \in Machines |-> NoObject]
    /\ obj' = [m \in Machines |-> NoObject]
    /\ seen' = [m \in Machines |-> NoReads]
    /\ dest' = [m \in Machines |-> NoHost]
    /\ ret' = [m \in Machines |-> "nil"]
    /\ UNCHANGED <<km, hostVars, capiVars, faults, creates, pauses>>

\* A KubemarkMachine is created under the key m, perhaps not for the first time.
Create(m) ==
    /\ km[m].phase = "none"
    /\ creates[m] < MaxCreates
    /\ creates' = [creates EXCEPT ![m] = @ + 1]
    /\ \E e \in Options : Store(m, [NoObject EXCEPT !.phase = "live", !.extended = e])
    /\ UNCHANGED <<cache, workVars, hostVars, capiVars, faults, crashes, pauses>>

\* The Machine controller sets the owner reference.
Adopt(m) ==
    /\ km[m].phase = "live" /\ ~km[m].owned
    /\ Store(m, [km[m] EXCEPT !.owned = TRUE])
    /\ UNCHANGED <<cache, workVars, hostVars, capiVars, faults, boundVars>>

\* The object is deleted, in the background or in the foreground.
Delete(m, added) ==
    /\ km[m].phase = "live"
    /\ added # {} => "foreground" \in Disruptions
    /\ Store(m, Collected([km[m] EXCEPT !.phase = "deleting", !.finalizers = @ \union added]))
    /\ UNCHANGED <<cache, workVars, hostVars, capiVars, faults, boundVars>>

\* The garbage collector is done with the dependents of an object that is
\* deleted in the foreground.
DropForeign(m) ==
    /\ km[m].phase = "deleting"
    /\ ForeignFinalizer \in km[m].finalizers
    /\ Store(m, Collected([km[m] EXCEPT !.finalizers = @ \ {ForeignFinalizer}]))
    /\ UNCHANGED <<cache, workVars, hostVars, capiVars, faults, boundVars>>

\* The pause annotation is set or removed.
SetPaused(m, paused) ==
    /\ km[m].phase # "none" /\ km[m].paused # paused
    /\ paused => pauses < MaxPauses
    /\ pauses' = IF paused THEN pauses + 1 ELSE pauses
    /\ Store(m, [km[m] EXCEPT !.paused = paused])
    /\ UNCHANGED <<cache, workVars, hostVars, capiVars, faults, crashes, creates>>

\* Bootstrap data becomes available: an update of the Machine, which is watched.
BootstrapReady(m) ==
    /\ machine[m].exists /\ ~machine[m].dataSecretName
    /\ machine' = [machine EXCEPT ![m].dataSecretName = TRUE]
    /\ MachineEvent(m)
    /\ UNCHANGED <<apiVars, cache, pc, localVars, hostVars, cluster, hollow, faults, boundVars>>

\* The version of the Machine is corrected, also an update of the Machine.
FixVersion(m) ==
    /\ machine[m].exists /\ machine[m].version # "supported"
    /\ "supported" \in Versions
    /\ machine' = [machine EXCEPT ![m].version = "supported"]
    /\ MachineEvent(m)
    /\ UNCHANGED <<apiVars, cache, pc, localVars, hostVars, cluster, hollow, faults, boundVars>>

\* Variant with a defect: the Cluster is watched, but mapped to nothing.
ClusterToNothing == {}

\* The keys ClusterToObjectsMapper finds in the cache for the Cluster.
ClusterToKubemarkMachines == {m \in Machines : cache[m].phase # "none"}

\* The Cluster's infrastructure becomes ready, or the Cluster is unpaused, the
\* updates of it that are watched (ClusterUnpausedAndInfrastructureReady).
\* This watch is added after the event filter was set up: labels and pauses of
\* the machines do not matter to it.
ClusterEvent ==
    /\ cluster.exists
    /\ \/ /\ ~cluster.infrastructureReady
          /\ cluster' = [cluster EXCEPT !.infrastructureReady = TRUE]
       \/ /\ "clusterUnpause" \in Disruptions
          /\ UNCHANGED cluster
    /\ queue' = queue \union ClusterToKubemarkMachines
    /\ UNCHANGED <<apiVars, cache, pc, localVars, hostVars, machine, hollow, faults, boundVars>>

\* The Cluster's kubeconfig and CA secrets appear; nobody watches them.
ClusterSecretsReady ==
    /\ ~(cluster.kubeconfig /\ cluster.ca)
    /\ \/ cluster' = [cluster EXCEPT !.kubeconfig = TRUE]
       \/ cluster' = [cluster EXCEPT !.ca = TRUE]
    /\ UNCHANGED <<apiVars, cache, workVars, hostVars, machine, hollow, faults, boundVars>>

\* The Machine or the Cluster is removed although the KubemarkMachine exists;
\* the removal of the Machine is an event of it.
OwnerLost(m) ==
    /\ "ownerLoss" \in Disruptions
    /\ OwnerFound(m)
    /\ \/ /\ machine' = [machine EXCEPT ![m].exists = FALSE]
          /\ MachineEvent(m)
          /\ UNCHANGED cluster
       \/ /\ cluster' = [cluster EXCEPT !.exists = FALSE]
          /\ UNCHANGED <<machine, queue>>
    /\ UNCHANGED <<apiVars, cache, pc, localVars, hostVars, hollow, faults, boundVars>>

\* The hollow-pod cluster Secret is edited, removed or restored.  Unless
\* retargeting is allowed, an edit that leaves it readable keeps the host.
EditHollowSecret(m) ==
    /\ "secretEdit" \in Disruptions
    /\ \E h \in HollowChoices :
         /\ h.ref = hollow[m].ref
         /\ \/ "retarget" \in Disruptions
            \/ GenerateKubemarkClusterClient(h, NamespaceOf[m]) \in {NoHost, Home[m]}
         /\ hollow' = [hollow EXCEPT ![m] = h]
    /\ UNCHANGED <<apiVars, cache, workVars, hostVars, machine, cluster, faults, boundVars>>

\* The kubelet is done with a pod that is being terminated.
PodGone(s) ==
    /\ pods[s].phase = "terminating"
    /\ pods' = [pods EXCEPT ![s] = NoPod]
    /\ UNCHANGED <<apiVars, cache, workVars, secrets, capiVars, faults, boundVars>>

-----------------------------------------------------------------------------
\* The steps of a reconcile that is under way.
Continue(m) ==
    \/ CheckPrerequisites(m)
    \/ \E r \in Replies :
         \/ AddFinalizer(m, r)
         \/ GenerateClient(m, r)
         \/ DeletePod(m, r)
         \/ DeleteSecret(m, r)
         \/ CreateSecret(m, r)
         \/ CreatePod(m, r)
         \/ PatchMachine(m, r)
         \/ PatchSpec(m, r)
         \/ PatchStatus(m, r)

Start(m) == FetchNothing(m) \/ FetchFails(m) \/ Fetch(m)

Environment(m) ==
    \/ Create(m)
    \/ Adopt(m)
    \/ \E added \in SUBSET {ForeignFinalizer} : Delete(m, added)
    \/ DropForeign(m)
    \/ \E paused \in BOOLEAN : SetPaused(m, paused)
    \/ BootstrapReady(m)
    \/ FixVersion(m)
    \/ OwnerLost(m)
    \/ EditHollowSecret(m)

Next ==
    \/ \E m \in Machines : Start(m) \/ Continue(m) \/ Deliver(m) \/ Resync(m) \/ Environment(m)
    \/ \E s \in Slots : PodGone(s)
    \/ ClusterEvent
    \/ ClusterSecretsReady
    \/ CrashRestart

Spec == Init /\ [][Next]_vars

(***************************************************************************)
(* The manager keeps running, its informer keeps delivering, the queue is  *)
(* first-in first-out, so a key in it gets its turn even when workers are  *)
(* scarce; resyncs recur; finalizers of others go away in the end.  Users  *)
(* and the other controllers owe nothing.                                  *)
(***************************************************************************)
Fairness ==
    \A m \in Machines :
        /\ SF_vars(Start(m))
        /\ WF_vars(Continue(m))
        /\ WF_vars(Deliver(m))
        /\ WF_vars(Resync(m))
        /\ WF_vars(DropForeign(m))

FairSpec == Spec /\ Fairness

-----------------------------------------------------------------------------
(***************************************************************************)
(* Properties.                                                             *)
(***************************************************************************)

\* The stored object of m exists and cannot disappear before the controller
\* has cleaned up.
Held(m) == km[m].phase # "none" /\ MachineFinalizer \in km[m].finalizers

\* No leak: a pod that nobody has asked to stop, and a secret, belong to a
\* KubemarkMachine that still exists and still has the finalizer, so a later
\* reconcile will delete them (Reconcile: finalizer patch before any create,
\* both deletes before RemoveFinalizer).
NoOrphan ==
    \A s \in Slots :
        /\ pods[s].phase = "running" => Held(pods[s].by)
        /\ secrets[s] # Nobody => Held(secrets[s])

\* A running hollow pod finds the secret it mounts: it is created before the
\* pod and deleted after it, whatever fails or is repeated in between.
PodHasSecret ==
    \A s \in Slots : pods[s].phase = "running" => secrets[s] # Nobody

\* Status.Ready is only ever seen on a machine whose pod exists where the
\* machine's pod belongs (Ready latches: a ready machine is not looked at again).
ReadyHasPod ==
    \A m \in Machines :
        km[m].phase = "live" /\ km[m].ready => pods[<<Home[m], NameOf[m]>>].phase # "none"

\* A machine that reports Ready can be traced to its node: of the two provider
\* IDs, its own and the one of its Machine, no more are missing than calls
\* have failed.  The patches are separate calls whose errors are dropped, and
\* once the last of them has stored Ready the others are not repeated.
ReadyHasProviderID ==
    \A m \in Machines :
        km[m].ready =>
            faults >= (IF km[m].providerID THEN 0 ELSE 1)
                    + (IF machine[m].exists => machine[m].providerID THEN 0 ELSE 1)

\* The merge patch replaces the whole list of finalizers by one computed from
\* an old copy.  Still, a finalizer of another party is only lost to a
\* reconcile whose copy did not show our own finalizer yet (controllerutil's
\* AddFinalizer and RemoveFinalizer, helper.Patch).
ForeignFinalizerKept ==
    [][\A m \in Machines :
          \/ ForeignFinalizer \notin km[m].finalizers \ km'[m].finalizers
          \/ DropForeign(m)
          \/ MachineFinalizer \notin before[m].finalizers /\ pc[m] # "idle"]_vars

\* A manager started with --watch-filter leaves the machines without the label
\* alone: it never puts its finalizer on one.
FilterRespected ==
    \A m \in Machines \ Labelled : MachineFinalizer \notin km[m].finalizers

\* Everything the controller waits for before it creates the pod is there.
Provisionable(m) ==
    /\ m \in Labelled
    /\ km[m].phase = "live" /\ km[m].owned /\ ~km[m].paused
    /\ OwnerFound(m) /\ machine[m].dataSecretName
    /\ Describable(machine[m].version, km[m].extended)
    /\ cluster.infrastructureReady /\ cluster.kubeconfig /\ cluster.ca
    /\ Resolve(m) # NoHost

\* A machine with all its prerequisites becomes ready, unless it is deleted
\* or paused.
ProvisioningCompletes ==
    \A m \in Machines :
        []<>(~Provisionable(m) \/ km[m].ready)

\* A deletion is carried out, unless the object is paused, or the owner
\* objects or the hollow-pod cluster stay out of reach.  An object that was
\* created again may be stuck for another reason: it was deleted before it
\* had an owner, and a late reconcile of the old object gave it the finalizer.
DeletionCompletes ==
    \A m \in Labelled :
        []<>(\/ km[m].phase # "deleting" \/ km[m].paused
             \/ ~km[m].owned /\ creates[m] > 1
             \/ ~OwnerFound(m) \/ Resolve(m) = NoHost)

-----------------------------------------------------------------------------
(***************************************************************************)
(* Why NoOrphan holds.  The copy of the object a reconcile works on may be *)
(* old, so the argument is about all the versions the informer can still   *)
(* show it: the cached one and those under way.                            *)
(***************************************************************************)
HeldLive(o) == o.phase = "live" /\ MachineFinalizer \in o.finalizers
HeldDeleting(o) == o.phase = "deleting" /\ MachineFinalizer \in o.finalizers
Loose(o) == ~HeldLive(o) /\ ~HeldDeleting(o)

History(m) == <<cache[m]>> \o watch[m]

DeletionIn(S) == \E i \in 1..Len(S) : HeldDeleting(S[i])

\* The versions go from loose to held to held and deleting; or they start at
\* deleting and end loose.
Ordered(S) ==
    \A i, j \in 1..Len(S) : i < j =>
        /\ HeldLive(S[i]) => ~Loose(S[j])
        /\ HeldDeleting(S[i]) => ~HeldLive(S[j])
        /\ \A k \in 1..Len(S) : j < k =>
             /\ HeldDeleting(S[i]) /\ HeldDeleting(S[k]) => HeldDeleting(S[j])
             /\ Loose(S[i]) /\ HeldDeleting(S[j]) => HeldDeleting(S[k])

\* Only the end of a deletion is left to see.
Falling(S) ==
    /\ \A i \in 1..Len(S) : ~HeldLive(S[i])
    /\ \A i, j \in 1..Len(S) : i < j /\ Loose(S[i]) => ~HeldDeleting(S[j])

\* What the history says to a reconcile that is under way: one that deletes
\* has seen the only deletion there is, any other one works on a held object.
HistoryInv(m) ==
    LET S == History(m) IN
    /\ S[Len(S)] = km[m]
    /\ Ordered(S)
    /\ pc[m] = "addFinalizer" /\ DeletionIn(S) => HeldDeleting(km[m])
    /\ HeldDeleting(before[m]) => Falling(S)
    /\ pc[m] \notin {"idle", "addFinalizer", "patchStatus"} /\ ~HeldDeleting(before[m]) => Held(m)

DeleteSteps == {"deletePod", "deleteSecret"}
CreateSteps == {"prerequisites", "createSecret", "createPod", "patchMachine"}

\* What a reconcile knows of its two copies and of its client.
LocalInv(m) ==
    /\ pc[m] = "idle" => before[m] = NoObject
    /\ pc[m] # "idle" => /\ before[m].phase # "none"
                         /\ obj[m].phase = before[m].phase
    /\ pc[m] = "addFinalizer" => MachineFinalizer \notin before[m].finalizers
    /\ pc[m] \in DeleteSteps => obj[m].phase = "deleting"
    /\ pc[m] \in CreateSteps => obj[m].phase = "live"
    /\ pc[m] \in DeleteSteps \union CreateSteps => dest[m] = Home[m]
    /\ \/ pc[m] = "idle"
       \/ obj[m].finalizers = before[m].finalizers \union {MachineFinalizer}
       \/ /\ pc[m] \in {"patchSpec", "patchStatus"}
          /\ obj[m].phase = "deleting"
          /\ obj[m].finalizers = before[m].finalizers \ {MachineFinalizer}

\* The objects of m are where its deletion will look for them, and are gone
\* when the deletion is past them.
HostInv(m) ==
    LET noPod    == \A s \in Slots : pods[s].by = m => pods[s].phase # "running"
        noSecret == \A s \in Slots : secrets[s] # m IN
    /\ Resolve(m) \in {NoHost, Home[m]}
    /\ \A s \in Slots : pods[s].by = m \/ secrets[s] = m => s = <<Home[m], NameOf[m]>>
    /\ pc[m] = "deleteSecret" => noPod
    /\ pc[m] = "patchSpec" /\ MachineFinalizer \notin obj[m].finalizers => noPod /\ noSecret

\* The inductive invariant: preserved by every step as long as the hollow-pod
\* cluster Secret is never pointed elsewhere (Reconcile, AddFinalizer through
\* the deferred patch).
CleanupInv ==
    /\ \A s \in Slots : pods[s].phase = "running" => pods[s].by \in Machines
    /\ \A m \in Machines : HistoryInv(m) /\ LocalInv(m) /\ HostInv(m)
    /\ NoOrphan

-----------------------------------------------------------------------------
(***************************************************************************)
(* The other invariants need more of the environment: that no two machines *)
(* share a name where they are hosted, and for most of them that a name is *)
(* not used again after its machine is gone.                               *)
(***************************************************************************)
Place(m) == <<Home[m], NameOf[m]>>

Apart == \A m, n \in Machines : Place(m) = Place(n) => m = n

\* Why PodHasSecret holds: a pod is only created over a secret.
SecretInv ==
    /\ PodHasSecret
    /\ \A m \in Machines : pc[m] = "createPod" => secrets[Place(m)] # Nobody

\* The versions of the object a reconcile works on or can still be shown.
Shown(m) == {before[m], cache[m]} \union {watch[m][i] : i \in 1..Len(watch[m])}

\* What a reconcile adds to its copy of the object: nothing, or that it is ready.
CopyInv(m) ==
    \/ obj[m].ready = before[m].ready /\ obj[m].providerID = before[m].providerID
    \/ /\ pc[m] \in {"patchMachine", "patchSpec", "patchStatus"}
       /\ obj[m].phase = "live" /\ obj[m].ready /\ obj[m].providerID

\* In the first life of a name no version shows more than the stored object
\* can still become: deletion is final, and takes finalizers away only.
VersionInv(m) ==
    /\ creates[m] = 0 => Shown(m) = {NoObject} /\ km[m] = NoObject
    /\ \A o \in Shown(m) :
         /\ o.phase = "live" => o.finalizers \subseteq {MachineFinalizer}
         /\ o.phase = "deleting" => /\ km[m].phase # "live"
                                    /\ km[m].finalizers \subseteq o.finalizers
         /\ o.providerID => km[m].providerID \/ km[m].phase = "none"
    /\ CopyInv(m)

\* This reconcile is the one that made m ready.
Readies(m) == obj[m].ready /\ ~before[m].ready

OwnIDMissing(m) == IF km[m].providerID \/ km[m].phase = "none" THEN 0 ELSE 1
MachineIDMissing(m) == IF machine[m].exists => machine[m].providerID THEN 0 ELSE 1

\* Each provider ID that is missing when its patch is past has cost a fault.
ProviderInv(m) ==
    /\ pc[m] = "patchSpec" /\ Readies(m) => faults >= MachineIDMissing(m)
    /\ (pc[m] = "patchStatus" /\ Readies(m)) \/ km[m].ready =>
           faults >= OwnIDMissing(m) + MachineIDMissing(m)
    /\ km[m].ready => km[m].phase # "none"

\* A pod is only asked to stop once its object is past being live, so it is
\* there for as long as Ready counts.
ReadyInv(m) ==
    LET phase == pods[Place(m)].phase IN
    /\ creates[m] = 0 => phase = "none"
    /\ phase = "terminating" => km[m].phase # "live"
    /\ Readies(m) \/ km[m].ready => phase # "none" \/ km[m].phase # "live"

\* The inductive invariant of machines apart from each other whose names are
\* never used again (Reconcile and the deferred patches).
FirstLifeInv ==
    \A m \in Machines : VersionInv(m) /\ ProviderInv(m) /\ ReadyInv(m)

\* Without foreground deletions only the controller's finalizer occurs, and
\* nothing stays in deletion without it.
BackgroundInv ==
    \A m \in Machines : \A o \in Shown(m) :
        /\ o.finalizers \subseteq {MachineFinalizer}
        /\ o.phase = "deleting" => MachineFinalizer \in o.finalizers

\* A reconcile that deletes never works on an object that is live again.
DeletesDoomed ==
    \A m \in Machines : pc[m] \in DeleteSteps => ~HeldLive(km[m])

-----------------------------------------------------------------------------
(***************************************************************************)
(* The abstract life of a hollow machine, and its state in this model.     *)
(***************************************************************************)
Life(o) == CASE HeldLive(o) -> "held" [] HeldDeleting(o) -> "doomed" [] OTHER -> "free"

lifeBar == [m \in Machines |-> Life(km[m])]
secretBar == {secrets[s] : s \in Slots} \ {Nobody}
podBar == {pods[s].by : s \in {t \in Slots : pods[t].phase = "running"}}

Hollow == INSTANCE HollowMachine WITH life <- lifeBar, secret <- secretBar, pod <- podBar

\* Whatever the cache, the queue, failing calls and crashes do, each machine
\* goes through the life of HollowMachine: nothing is created for a machine
\* that is not held, the pod comes after the secret and goes before it, and
\* the finalizer goes last (Reconcile as a whole; machines with a slot of
\* their own, and a hollow-pod secret that is not retargeted).  A name may be
\* used again as long as nothing is deleted in the foreground: with both, a
\* reconcile of the old object may stop the pod of the new one.
LifeCycle == Hollow!Spec
=============================================================================
