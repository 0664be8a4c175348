------------------------ MODULE KubemarkMachineProofs ------------------------
(***************************************************************************)
(* Proofs about KubemarkMachine, for every set of machines, every number   *)
(* of faults, crashes and re-creations, and every history of the informer. *)
(***************************************************************************)
EXTENDS KubemarkMachine, SequenceTheorems, TLAPS

-----------------------------------------------------------------------------
(***************************************************************************)
(* What the operations on objects return.                                  *)
(***************************************************************************)

\* The empty object is an object.
LEMMA NoObjectType == NoObject \in Objects
  BY DEF NoObject, Objects

\* A merge patch of metadata and spec yields an object.
LEMMA SpecPatchedType ==
  ASSUME NEW o \in Objects, NEW b \in Objects, NEW a \in Objects
  PROVE  SpecPatched(o, b, a) \in Objects
  BY DEF SpecPatched, Objects

\* A merge patch of the status yields an object.
LEMMA StatusPatchedType ==
  ASSUME NEW o \in Objects, NEW b \in Objects, NEW a \in Objects
  PROVE  StatusPatched(o, b, a) \in Objects
  BY DEF StatusPatched, Objects

\* Garbage collection yields an object, or none.
LEMMA CollectedType ==
  ASSUME NEW o \in Objects
  PROVE  Collected(o) \in Objects
  BY NoObjectType DEF Collected

\* Adding and removing the finalizer yields an object.
LEMMA FinalizerType ==
  ASSUME NEW o \in Objects
  PROVE  WithFinalizer(o) \in Objects /\ WithoutFinalizer(o) \in Objects
  BY DEF WithFinalizer, WithoutFinalizer, Objects

\* Storing an object keeps the API server well typed.
LEMMA StoreType ==
  ASSUME TypeOK, NEW m \in Machines, NEW o \in Objects, Store(m, o)
  PROVE  km' \in [Machines -> Objects] /\ watch' \in [Machines -> Seq(Objects)]
  BY DEF TypeOK, Store

\* The same for a write that may be refused.
LEMMA WriteType ==
  ASSUME TypeOK, NEW m \in Machines, NEW o \in Objects, NEW r, Write(m, o, r)
  PROVE  km' \in [Machines -> Objects] /\ watch' \in [Machines -> Seq(Objects)]
  <1>1. CASE UNCHANGED apiVars
    BY <1>1 DEF TypeOK, apiVars
  <1>2. CASE Store(m, Collected(o))
    BY <1>2, StoreType, CollectedType
  <1> QED
    BY <1>1, <1>2 DEF Write

\* A reconcile that returns leaves well typed variables.
LEMMA ReturnType ==
  ASSUME TypeOK, NEW m \in Machines, NEW result, Return(m, result)
  PROVE  /\ queue' \in SUBSET Machines
         /\ pc' \in [Machines -> Steps]
         /\ before' \in [Machines -> Objects]
         /\ obj' \in [Machines -> Objects]
         /\ seen' \in [Machines -> Reads]
         /\ dest' \in [Machines -> Hosts \union {NoHost}]
         /\ ret' \in [Machines -> {"nil", "err"}]
  <1>1. NoReads \in Reads
    BY DEF NoReads, Reads
  <1> QED
    BY <1>1, NoObjectType DEF TypeOK, Return, Goto, Steps

\* So does one that has its result.
LEMMA FinishType ==
  ASSUME TypeOK, NEW m \in Machines, NEW result \in {"nil", "err"}, Finish(m, result)
  PROVE  /\ queue' \in SUBSET Machines
         /\ pc' \in [Machines -> Steps]
         /\ ret' \in [Machines -> {"nil", "err"}]
  BY DEF TypeOK, Finish, Goto, Steps

\* The counter of faults stays a number.
LEMMA ReplyType ==
  ASSUME TypeOK, NEW r, Reply(r)
  PROVE  faults' \in Nat
  BY DEF TypeOK, Reply

\* Setting the provider ID and Ready yields an object.
LEMMA ProvisionedType ==
  ASSUME NEW o \in Objects
  PROVE  Provisioned(o) \in Objects
  BY DEF Provisioned, Objects

\* A pod that is asked to stop is a pod.
LEMMA TerminatedType ==
  ASSUME NEW p \in Pods
  PROVE  Terminated(p) \in Pods
  BY DEF Terminated, Pods

\* A client is obtained for a host, or not at all.
LEMMA ResolveType ==
  ASSUME TypeOK, NEW m \in Machines
  PROVE  Resolve(m) \in Hosts \union {NoHost}
  BY ClusterAssumption, MachineAssumption
  DEF TypeOK, Resolve, GenerateKubemarkClusterClient, Hosts, HollowRefs

-----------------------------------------------------------------------------
(***************************************************************************)
(* Type correctness.                                                       *)
(***************************************************************************)

\* The first steps of a reconcile keep the types.
LEMMA StartType ==
  ASSUME TypeOK, NEW m \in Machines, Start(m)
  PROVE  TypeOK'
  <1>1. CASE FetchNothing(m)
    BY <1>1 DEF TypeOK, FetchNothing, apiVars, localVars, hostVars, capiVars, boundVars
  <1>2. CASE FetchFails(m)
    BY <1>2 DEF TypeOK, FetchFails, vars, apiVars, localVars, workVars, hostVars, capiVars, boundVars
  <1>3. CASE Fetch(m)
    <2>1. /\ before' \in [Machines -> Objects]
          /\ obj' \in [Machines -> Objects]
      BY <1>3, FinalizerType DEF TypeOK, Fetch
    <2>2. seen' \in [Machines -> Reads]
      BY <1>3 DEF TypeOK, Fetch, Reads, MachineObjects, ClusterObjects
    <2>3. pc' \in [Machines -> Steps]
      BY <1>3 DEF TypeOK, Fetch, Goto, Steps
    <2> QED
      BY <1>3, <2>1, <2>2, <2>3 DEF TypeOK, Fetch, apiVars, hostVars, capiVars, boundVars
  <1> QED
    BY <1>1, <1>2, <1>3 DEF Start

\* So do the later ones, whatever becomes of their calls.
LEMMA ContinueType ==
  ASSUME TypeOK, NEW m \in Machines, Continue(m)
  PROVE  TypeOK'
  <1> USE DEF apiVars, localVars, workVars, hostVars, capiVars, boundVars
  <1>1. CASE CheckPrerequisites(m)
    <2>1. /\ queue' \in SUBSET Machines
          /\ pc' \in [Machines -> Steps]
          /\ ret' \in [Machines -> {"nil", "err"}]
      BY <1>1, FinishType DEF TypeOK, CheckPrerequisites, Goto, Steps
    <2> QED
      BY <1>1, <2>1 DEF TypeOK, CheckPrerequisites
  <1>2. ASSUME NEW r \in Replies, AddFinalizer(m, r)
        PROVE  TypeOK'
    <2> DEFINE o == SpecPatched(km[m], before[m], obj[m])
    <2>1. o \in Objects
      BY SpecPatchedType DEF TypeOK
    <2>2. km' \in [Machines -> Objects] /\ watch' \in [Machines -> Seq(Objects)]
      BY <1>2, <2>1, WriteType DEF AddFinalizer
    <2>3. faults' \in Nat
      BY <1>2, ReplyType DEF AddFinalizer
    <2>4. CASE Return(m, "err")
      BY <1>2, <2>2, <2>3, <2>4, ReturnType DEF TypeOK, AddFinalizer
    <2>5. CASE Goto(m, "generateClient") /\ UNCHANGED <<queue, localVars>>
      BY <1>2, <2>2, <2>3, <2>5 DEF TypeOK, AddFinalizer, Goto, Steps
    <2> QED
      BY <1>2, <2>4, <2>5 DEF AddFinalizer
  <1>3. ASSUME NEW r \in Replies, GenerateClient(m, r)
        PROVE  TypeOK'
    <2>1. faults' \in Nat
      BY <1>3, ReplyType DEF GenerateClient
    <2>2. CASE Finish(m, "err") /\ UNCHANGED dest
      BY <1>3, <2>1, <2>2, FinishType DEF TypeOK, GenerateClient
    <2>3. CASE /\ dest' = [dest EXCEPT ![m] = Resolve(m)]
               /\ \E step \in {"deletePod", "patchSpec", "prerequisites"} : Goto(m, step)
               /\ UNCHANGED <<queue, ret>>
      <3>1. dest' \in [Machines -> Hosts \union {NoHost}]
        BY <2>3, ResolveType DEF TypeOK
      <3>2. pc' \in [Machines -> Steps]
        BY <2>3 DEF TypeOK, Goto, Steps
      <3> QED
        BY <1>3, <2>1, <2>3, <3>1, <3>2 DEF TypeOK, GenerateClient
    <2> QED
      BY <1>3, <2>2, <2>3 DEF GenerateClient
  <1>4. ASSUME NEW r \in Replies, DeletePod(m, r)
        PROVE  TypeOK'
    <2>1. faults' \in Nat
      BY <1>4, ReplyType DEF DeletePod
    <2>2. pods' \in [Slots -> Pods]
      BY <1>4, TerminatedType DEF TypeOK, DeletePod
    <2>3. /\ queue' \in SUBSET Machines
          /\ pc' \in [Machines -> Steps]
          /\ ret' \in [Machines -> {"nil", "err"}]
      BY <1>4, FinishType DEF TypeOK, DeletePod, Goto, Steps
    <2> QED
      BY <1>4, <2>1, <2>2, <2>3 DEF TypeOK, DeletePod
  <1>5. ASSUME NEW r \in Replies, DeleteSecret(m, r)
        PROVE  TypeOK'
    <2>1. faults' \in Nat
      BY <1>5, ReplyType DEF DeleteSecret
    <2>2. secrets' \in [Slots -> Machines \union {Nobody}]
      BY <1>5 DEF TypeOK, DeleteSecret
    <2>3. obj' \in [Machines -> Objects]
      BY <1>5, FinalizerType DEF TypeOK, DeleteSecret
    <2>4. /\ queue' \in SUBSET Machines
          /\ pc' \in [Machines -> Steps]
          /\ ret' \in [Machines -> {"nil", "err"}]
      BY <1>5, FinishType DEF DeleteSecret
    <2> QED
      BY <1>5, <2>1, <2>2, <2>3, <2>4 DEF TypeOK, DeleteSecret
  <1>6. ASSUME NEW r \in Replies, CreateSecret(m, r)
        PROVE  TypeOK'
    <2>1. faults' \in Nat
      BY <1>6, ReplyType DEF CreateSecret
    <2>2. secrets' \in [Slots -> Machines \union {Nobody}]
      BY <1>6 DEF TypeOK, CreateSecret
    <2>3. /\ queue' \in SUBSET Machines
          /\ pc' \in [Machines -> Steps]
          /\ ret' \in [Machines -> {"nil", "err"}]
      BY <1>6, FinishType DEF TypeOK, CreateSecret, Goto, Steps
    <2> QED
      BY <1>6, <2>1, <2>2, <2>3 DEF TypeOK, CreateSecret
  <1>7. ASSUME NEW r \in Replies, CreatePod(m, r)
        PROVE  TypeOK'
    <2>1. faults' \in Nat
      BY <1>7, ReplyType DEF CreatePod
    <2>2. pods' \in [Slots -> Pods]
      BY <1>7 DEF TypeOK, CreatePod, Pods
    <2>3. obj' \in [Machines -> Objects]
      <3>1. Provisioned(obj[m]) \in Objects
        BY ProvisionedType DEF TypeOK
      <3> QED
        BY <1>7, <3>1 DEF TypeOK, CreatePod
    <2>4. /\ queue' \in SUBSET Machines
          /\ pc' \in [Machines -> Steps]
          /\ ret' \in [Machines -> {"nil", "err"}]
      BY <1>7, FinishType DEF TypeOK, CreatePod, Goto, Steps
    <2> QED
      BY <1>7, <2>1, <2>2, <2>3, <2>4 DEF TypeOK, CreatePod
  <1>8. ASSUME NEW r \in Replies, PatchMachine(m, r)
        PROVE  TypeOK'
    <2>1. faults' \in Nat
      BY <1>8, ReplyType DEF PatchMachine
    <2>2. machine' \in [Machines -> MachineObjects]
      <3>1. [machine[m] EXCEPT !.providerID = TRUE] \in MachineObjects
        BY DEF TypeOK, MachineObjects
      <3> QED
        BY <1>8, <3>1 DEF TypeOK, PatchMachine
    <2>3. pc' \in [Machines -> Steps]
      BY <1>8 DEF TypeOK, PatchMachine, Goto, Steps
    <2> QED
      BY <1>8, <2>1, <2>2, <2>3 DEF TypeOK, PatchMachine, MachineEvent
  <1>9. ASSUME NEW r \in Replies, PatchSpec(m, r)
        PROVE  TypeOK'
    <2>1. faults' \in Nat
      BY <1>9, ReplyType DEF PatchSpec
    <2>2. SpecPatched(km[m], before[m], obj[m]) \in Objects
      BY SpecPatchedType DEF TypeOK
    <2>3. km' \in [Machines -> Objects] /\ watch' \in [Machines -> Seq(Objects)]
      BY <1>9, <2>2, WriteType DEF TypeOK, PatchSpec
    <2>4. pc' \in [Machines -> Steps]
      BY <1>9 DEF TypeOK, PatchSpec, Goto, Steps
    <2> QED
      BY <1>9, <2>1, <2>3, <2>4 DEF TypeOK, PatchSpec
  <1>10. ASSUME NEW r \in Replies, PatchStatus(m, r)
         PROVE  TypeOK'
    <2>1. faults' \in Nat
      BY <1>10, ReplyType DEF PatchStatus
    <2>2. StatusPatched(km[m], before[m], obj[m]) \in Objects
      BY StatusPatchedType DEF TypeOK
    <2>3. km' \in [Machines -> Objects] /\ watch' \in [Machines -> Seq(Objects)]
      BY <1>10, <2>2, WriteType DEF TypeOK, PatchStatus
    <2>4. Return(m, ret[m])
      BY <1>10 DEF PatchStatus
    <2> QED
      BY <1>10, <2>1, <2>3, <2>4, ReturnType DEF TypeOK, PatchStatus
  <1> QED
    BY <1>1, <1>2, <1>3, <1>4, <1>5, <1>6, <1>7, <1>8, <1>9, <1>10 DEF Continue

\* Users and the other controllers keep the types.
LEMMA EnvironmentType ==
  ASSUME TypeOK, NEW m \in Machines, Environment(m)
  PROVE  TypeOK'
  <1> USE DEF apiVars, localVars, workVars, hostVars, capiVars, boundVars
  <1> DEFINE Api == km' \in [Machines -> Objects] /\ watch' \in [Machines -> Seq(Objects)]
  <1>0. km[m] \in Objects
    BY DEF TypeOK
  <1>1. CASE Create(m)
    <2>1. PICK e \in Options : Store(m, [NoObject EXCEPT !.phase = "live", !.extended = e])
      BY <1>1 DEF Create
    <2>2. [NoObject EXCEPT !.phase = "live", !.extended = e] \in Objects
      BY MachineAssumption DEF NoObject, Objects
    <2>3. Api
      BY <2>1, <2>2, StoreType
    <2>4. creates' \in [Machines -> Nat]
      BY <1>1 DEF TypeOK, Create
    <2> HIDE DEF Api
    <2> QED
      BY <1>1, <2>3, <2>4 DEF TypeOK, Create, Api
  <1>2. CASE Adopt(m)
    <2>1. [km[m] EXCEPT !.owned = TRUE] \in Objects
      BY <1>0 DEF Objects
    <2>2. Api
      BY <1>2, <2>1, StoreType DEF Adopt
    <2> QED
      BY <1>2, <2>2 DEF TypeOK, Adopt
  <1>3. ASSUME NEW added \in SUBSET {ForeignFinalizer}, Delete(m, added)
        PROVE  TypeOK'
    <2>1. [km[m] EXCEPT !.phase = "deleting", !.finalizers = @ \union added] \in Objects
      BY <1>0 DEF Objects
    <2>2. Api
      BY <1>3, <2>1, CollectedType, StoreType DEF Delete
    <2> QED
      BY <1>3, <2>2 DEF TypeOK, Delete
  <1>4. CASE DropForeign(m)
    <2>1. [km[m] EXCEPT !.finalizers = @ \ {ForeignFinalizer}] \in Objects
      BY <1>0 DEF Objects
    <2>2. Api
      BY <1>4, <2>1, CollectedType, StoreType DEF DropForeign
    <2> QED
      BY <1>4, <2>2 DEF TypeOK, DropForeign
  <1>5. CASE BootstrapReady(m)
    <2>1. machine' \in [Machines -> MachineObjects]
      BY <1>5 DEF TypeOK, BootstrapReady, MachineObjects
    <2> QED
      BY <1>5, <2>1 DEF TypeOK, BootstrapReady, MachineEvent
  <1>6. CASE FixVersion(m)
    <2>1. machine' \in [Machines -> MachineObjects]
      BY <1>6 DEF TypeOK, FixVersion, MachineObjects
    <2> QED
      BY <1>6, <2>1 DEF TypeOK, FixVersion, MachineEvent
  <1>7. CASE OwnerLost(m)
    <2>1. machine' \in [Machines -> MachineObjects]
      <3>1. [machine[m] EXCEPT !.exists = FALSE] \in MachineObjects
        BY DEF TypeOK, MachineObjects
      <3> QED
        BY <1>7, <3>1 DEF TypeOK, OwnerLost
    <2>2. cluster' \in ClusterObjects
      <3>1. [cluster EXCEPT !.exists = FALSE] \in ClusterObjects
        BY DEF TypeOK, ClusterObjects
      <3> QED
        BY <1>7, <3>1 DEF TypeOK, OwnerLost
    <2> QED
      BY <1>7, <2>1, <2>2 DEF TypeOK, OwnerLost, MachineEvent
  <1>8. CASE EditHollowSecret(m)
    <2>1. hollow' \in [Machines -> HollowRefs]
      BY <1>8, MachineAssumption DEF TypeOK, EditHollowSecret
    <2> QED
      BY <1>8, <2>1 DEF TypeOK, EditHollowSecret
  <1>9. ASSUME NEW paused \in BOOLEAN, SetPaused(m, paused)
        PROVE  TypeOK'
    <2>1. [km[m] EXCEPT !.paused = paused] \in Objects
      BY <1>0 DEF Objects
    <2>2. Api
      BY <1>9, <2>1, StoreType DEF SetPaused
    <2>3. pauses' \in Nat
      BY <1>9 DEF TypeOK, SetPaused
    <2> HIDE DEF Api
    <2> QED
      BY <1>9, <2>2, <2>3 DEF TypeOK, SetPaused, Api
  <1> QED
    BY <1>1, <1>2, <1>3, <1>4, <1>5, <1>6, <1>7, <1>8, <1>9 DEF Environment

\* A crash and restart keeps the types.
LEMMA CrashRestartType ==
  ASSUME TypeOK, CrashRestart
  PROVE  TypeOK'
  <1>1. NoReads \in Reads
    BY DEF NoReads, Reads
  <1>2. cache' \in [Machines -> Objects] /\ watch' \in [Machines -> Seq(Objects)]
    <2>1. CASE cache' = km /\ watch' = [m \in Machines |-> <<>>]
      BY <2>1 DEF TypeOK
    <2>2. CASE UNCHANGED <<cache, watch>>
      BY <2>2 DEF TypeOK
    <2> QED
      BY <2>1, <2>2 DEF CrashRestart
  <1>3. queue' \in SUBSET Machines
    BY DEF CrashRestart
  <1>4. /\ pc' \in [Machines -> Steps]
        /\ before' \in [Machines -> Objects]
        /\ obj' \in [Machines -> Objects]
        /\ seen' \in [Machines -> Reads]
        /\ dest' \in [Machines -> Hosts \union {NoHost}]
        /\ ret' \in [Machines -> {"nil", "err"}]
        /\ crashes' \in Nat
    BY <1>1, NoObjectType DEF TypeOK, CrashRestart, Steps
  <1> QED
    BY <1>2, <1>3, <1>4 DEF TypeOK, CrashRestart, hostVars, capiVars

\* Every step of the system keeps the types.
LEMMA NextType == TypeOK /\ [Next]_vars => TypeOK'
  <1> SUFFICES ASSUME TypeOK, [Next]_vars PROVE TypeOK'
    OBVIOUS
  <1> USE DEF apiVars, localVars, workVars, hostVars, capiVars, boundVars
  <1>1. ASSUME NEW m \in Machines, Deliver(m)
        PROVE  TypeOK'
    <2>1. watch[m] \in Seq(Objects) /\ watch[m] # <<>>
      BY <1>1 DEF TypeOK, Deliver
    <2>2. Head(watch[m]) \in Objects /\ Tail(watch[m]) \in Seq(Objects)
      BY <2>1
    <2> QED
      BY <1>1, <2>2 DEF TypeOK, Deliver
  <1>2. ASSUME NEW m \in Machines, Resync(m)
        PROVE  TypeOK'
    BY <1>2 DEF TypeOK, Resync
  <1>3. ASSUME NEW s \in Slots, PodGone(s)
        PROVE  TypeOK'
    <2>1. NoPod \in Pods
      BY DEF NoPod, Pods
    <2> QED
      BY <1>3, <2>1 DEF TypeOK, PodGone
  <1>4. CASE ClusterEvent
    <2>1. cluster' \in ClusterObjects
      BY <1>4 DEF TypeOK, ClusterEvent, ClusterObjects
    <2> QED
      BY <1>4, <2>1 DEF TypeOK, ClusterEvent, ClusterToKubemarkMachines
  <1>5. CASE ClusterSecretsReady
    <2>1. cluster' \in ClusterObjects
      BY <1>5 DEF TypeOK, ClusterSecretsReady, ClusterObjects
    <2> QED
      BY <1>5, <2>1 DEF TypeOK, ClusterSecretsReady
  <1>6. CASE UNCHANGED vars
    BY <1>6 DEF TypeOK, vars
  <1> QED
    BY <1>1, <1>2, <1>3, <1>4, <1>5, <1>6, StartType, ContinueType, EnvironmentType,
       CrashRestartType DEF Next

\* The system starts well typed.
LEMMA InitType == Init => TypeOK
  <1> SUFFICES ASSUME Init PROVE TypeOK
    OBVIOUS
  <1>1. NoReads \in Reads /\ NoPod \in Pods
    BY DEF NoReads, Reads, NoPod, Pods
  <1>2. cluster \in ClusterObjects
    BY DEF Init, ClusterObjects
  <1>3. machine \in [Machines -> MachineObjects]
    BY DEF Init, MachineObjects
  <1>4. hollow \in [Machines -> HollowRefs]
    BY MachineAssumption DEF Init
  <1> QED
    BY <1>1, <1>2, <1>3, <1>4, NoObjectType DEF Init, TypeOK, Steps

\* Every variable keeps its type in every behaviour: in particular a client is
\* only ever held for a cluster and a trimmed namespace, and the finalizers of
\* an object are the controller's own and the garbage collector's (Reconcile).
THEOREM TypeCorrect == Spec => []TypeOK
  BY InitType, NextType, PTL DEF Spec

=============================================================================
