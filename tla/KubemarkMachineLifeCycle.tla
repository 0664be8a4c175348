---------------------- MODULE KubemarkMachineLifeCycle ----------------------
(***************************************************************************)
(* KubemarkMachine implements HollowMachine, the abstract life of a hollow *)
(* machine.  On top of CleanupInv this takes that a pod is only created    *)
(* over its secret (SecretInv) and that nothing is deleted on behalf of an *)
(* object that is gone (DeletesDoomed).                                    *)
(***************************************************************************)
EXTENDS KubemarkMachineFirstLife

-----------------------------------------------------------------------------
(***************************************************************************)
(* The pod and its secret.                                                 *)
(***************************************************************************)

\* Who shares no place finds its own secret and its own pod in it, or none.
LEMMA OwnPlace ==
  ASSUME TypeOK, CleanupInv, Apart, NEW m \in Machines
  PROVE  /\ Place(m) \in Slots
         /\ secrets[Place(m)] \in {m, Nobody}
         /\ pods[Place(m)].phase = "running" => pods[Place(m)].by = m
         /\ \A s \in Slots : secrets[s] = m \/ pods[s].by = m => s = Place(m)
  <1>1. Place(m) \in Slots
    BY PlaceIsSlot
  <1>2. \A n \in Machines : \A s \in Slots : secrets[s] = n \/ pods[s].by = n => s = Place(n)
    BY DEF CleanupInv, HostInv, Place
  <1>3. secrets[Place(m)] \in Machines \union {Nobody}
    BY <1>1 DEF TypeOK
  <1>4. pods[Place(m)].phase = "running" => pods[Place(m)].by \in Machines
    BY <1>1 DEF CleanupInv
  <1> QED
    BY <1>1, <1>2, <1>3, <1>4 DEF Apart

\* SecretInv in a step that starts no pod, removes no secret and brings no
\* reconcile to the creation of a pod.
LEMMA SecretFrame ==
  ASSUME SecretInv,
         \A s \in Slots : pods[s]'.phase = "running" => pods[s].phase = "running",
         secrets' = secrets,
         \A n \in Machines : pc[n]' = "createPod" => pc[n] = "createPod"
  PROVE  SecretInv'
  BY DEF SecretInv, PodHasSecret

\* A pod is only created over a secret, and outlived by it.
LEMMA SecretNext ==
  ASSUME TypeOK, CleanupInv, Apart, [Next]_vars, SecretInv
  PROVE  SecretInv'
  <1> USE DEF apiVars, localVars, workVars, hostVars, capiVars, boundVars
  <1>0. Nobody \notin Machines
    BY MachineAssumption
  <1>1. ASSUME NEW m \in Machines, Start(m) PROVE SecretInv'
    BY <1>1, SecretFrame DEF Start, FetchNothing, FetchFails, Fetch, Goto, vars, TypeOK
  <1>2. ASSUME NEW m \in Machines, Continue(m) PROVE SecretInv'
    <2>1. CASE CheckPrerequisites(m)
      BY <2>1, SecretFrame DEF CheckPrerequisites, Finish, Goto, TypeOK
    <2>2. ASSUME NEW r \in Replies, AddFinalizer(m, r) PROVE SecretInv'
      BY <2>2, SecretFrame DEF AddFinalizer, Goto, Return, TypeOK
    <2>3. ASSUME NEW r \in Replies, GenerateClient(m, r) PROVE SecretInv'
      <3>1. \A n \in Machines : pc[n]' = "createPod" => pc[n] = "createPod"
        BY <2>3 DEF GenerateClient, Finish, Goto, TypeOK
      <3> QED
        BY <2>3, <3>1, SecretFrame DEF GenerateClient
    <2>4. ASSUME NEW r \in Replies, DeletePod(m, r) PROVE SecretInv'
      <3>1. \A n \in Machines : pc[n]' = "createPod" => pc[n] = "createPod"
        BY <2>4 DEF DeletePod, Finish, Goto, TypeOK
      <3>2. \A s \in Slots : pods[s]'.phase = "running" => pods[s].phase = "running"
        BY <2>4 DEF DeletePod, Terminated, TypeOK, Pods
      <3> QED
        BY <2>4, <3>1, <3>2, SecretFrame DEF DeletePod
    <2>5. ASSUME NEW r \in Replies, DeleteSecret(m, r) PROVE SecretInv'
      <3>1. pc[m] = "deleteSecret" /\ pods' = pods /\ pc[m]' = "patchSpec"
            /\ \A n \in Machines \ {m} : pc[n]' = pc[n]
        BY <2>5 DEF DeleteSecret, Finish, Goto, TypeOK
      <3>2. Slot(m) = Place(m)
        BY <3>1, OwnSlot DEF DeleteSteps, Place
      <3>3. pods[Place(m)].phase # "running"
        BY <3>1, OwnPlace DEF CleanupInv, HostInv
      <3>4. \A s \in Slots \ {Place(m)} : secrets[s]' = secrets[s]
        BY <2>5, <3>2 DEF DeleteSecret, TypeOK
      <3>5. \A n \in Machines \ {m} : Place(n) \in Slots \ {Place(m)}
        BY PlaceIsSlot DEF Apart
      <3> QED
        BY <3>1, <3>3, <3>4, <3>5 DEF SecretInv, PodHasSecret
    <2>6. ASSUME NEW r \in Replies, CreateSecret(m, r) PROVE SecretInv'
      <3>1. pc[m] = "createSecret" /\ pods' = pods
            /\ \A n \in Machines \ {m} : pc[n]' = pc[n]
        BY <2>6 DEF CreateSecret, Finish, Goto, TypeOK
      <3>2. Slot(m) = Place(m) /\ Place(m) \in Slots
        BY <3>1, OwnSlot DEF CreateSteps, Place
      <3>3. \A s \in Slots : secrets[s] # Nobody => secrets[s]' # Nobody
        BY <1>0, <2>6, <3>2 DEF CreateSecret, TypeOK
      <3>4. pc[m]' = "createPod" => secrets[Place(m)]' # Nobody
        BY <1>0, <2>6, <3>2 DEF CreateSecret, CreateFails, Finish, Goto, TypeOK
      <3>5. \A n \in Machines : Place(n) \in Slots
        BY PlaceIsSlot
      <3> QED
        BY <3>1, <3>3, <3>4, <3>5 DEF SecretInv, PodHasSecret
    <2>7. ASSUME NEW r \in Replies, CreatePod(m, r) PROVE SecretInv'
      <3>1. pc[m] = "createPod" /\ secrets' = secrets /\ pc[m]' # "createPod"
            /\ \A n \in Machines \ {m} : pc[n]' = pc[n]
        BY <2>7 DEF CreatePod, Finish, Goto, TypeOK
      <3>2. Slot(m) = Place(m) /\ Place(m) \in Slots
        BY <3>1, OwnSlot DEF CreateSteps, Place
      <3>3. \A s \in Slots \ {Place(m)} : pods[s]' = pods[s]
        BY <2>7, <3>2 DEF CreatePod, TypeOK
      <3>4. secrets[Place(m)] # Nobody
        BY <3>1 DEF SecretInv
      <3> QED
        BY <3>1, <3>3, <3>4 DEF SecretInv, PodHasSecret
    <2>8. ASSUME NEW r \in Replies,
                 PatchMachine(m, r) \/ PatchSpec(m, r) \/ PatchStatus(m, r)
          PROVE  SecretInv'
      BY <2>8, SecretFrame DEF PatchMachine, PatchSpec, PatchStatus, Goto, Return, TypeOK
    <2> QED
      BY <1>2, <2>1, <2>2, <2>3, <2>4, <2>5, <2>6, <2>7, <2>8 DEF Continue
  <1>3. ASSUME NEW m \in Machines, Deliver(m) \/ Resync(m) \/ Environment(m)
        PROVE  SecretInv'
    BY <1>3, SecretFrame DEF Deliver, Resync, Environment, Create, Adopt, Delete, DropForeign,
       SetPaused, BootstrapReady, FixVersion, OwnerLost, EditHollowSecret
  <1>4. ASSUME NEW s \in Slots, PodGone(s) PROVE SecretInv'
    BY <1>4, SecretFrame DEF PodGone, TypeOK, NoPod
  <1>5. CASE ClusterEvent \/ ClusterSecretsReady \/ CrashRestart \/ UNCHANGED vars
    BY <1>5, SecretFrame DEF ClusterEvent, ClusterSecretsReady, CrashRestart, vars
  <1> QED
    BY <1>1, <1>2, <1>3, <1>4, <1>5 DEF Next

\* A running hollow pod always finds the secret it mounts, whatever fails or is
\* repeated and however often a name is used again, among machines that share
\* no place (Reconcile: secret before pod, deletes in the other order).
THEOREM PodsHaveSecrets ==
  ASSUME "retarget" \notin Disruptions, Apart
  PROVE  Spec => []PodHasSecret
  <1> DEFINE Inv == TypeOK /\ CleanupInv /\ SecretInv
  <1>1. Init => SecretInv
    BY DEF Init, SecretInv, PodHasSecret, NoPod
  <1>2. Init => Inv
    BY <1>1, InitType, CleanupInit
  <1>3. Inv /\ [Next]_vars => Inv'
    BY NextType, CleanupNext, SecretNext
  <1>4. Inv => PodHasSecret
    BY DEF SecretInv
  <1> QED
    BY <1>2, <1>3, <1>4, PTL DEF Spec

-----------------------------------------------------------------------------
(***************************************************************************)
(* Without foreground deletions a version that is being deleted shows the  *)
(* controller's finalizer.                                                 *)
(***************************************************************************)

\* What BackgroundInv says of a version.
Background(o) ==
  /\ o.finalizers \subseteq {MachineFinalizer}
  /\ o.phase = "deleting" => MachineFinalizer \in o.finalizers

\* The garbage collector takes care of the rest.
LEMMA CollectedBackground ==
  ASSUME NEW o, o.finalizers \subseteq {MachineFinalizer}
  PROVE  Background(Collected(o))
  BY DEF Background, Collected, NoObject

\* The machine whose versions do not move.
LEMMA BackgroundFrame ==
  ASSUME BackgroundInv, NEW n \in Machines, watch[n]' = watch[n],
         cache[n]' \in {cache[n], NoObject}, before[n]' \in {before[n], cache[n], NoObject}
  PROVE  \A o \in Shown(n)' : Background(o)
  <1>1. Background(NoObject)
    BY DEF Background, NoObject
  <1>2. \A o \in Shown(n) : Background(o)
    BY DEF BackgroundInv, Background
  <1>3. Shown(n)' \subseteq Shown(n) \union {NoObject}
    BY DEF Shown
  <1> QED
    BY <1>1, <1>2, <1>3

\* Such a version is stored, or nothing is.
LEMMA BackgroundStore ==
  ASSUME TypeOK, BackgroundInv, NEW m \in Machines, NEW o \in Objects, Background(o),
         Store(m, o) \/ UNCHANGED apiVars, cache' = cache,
         before[m]' \in {before[m], NoObject},
         \A n \in Machines \ {m} : before[n]' = before[n]
  PROVE  BackgroundInv'
  <1>1. Background(NoObject)
    BY DEF Background, NoObject
  <1>2. CASE UNCHANGED apiVars
    BY <1>2, BackgroundFrame DEF apiVars, BackgroundInv, Background
  <1>3. CASE Store(m, o)
    <2>1. \A n \in Machines \ {m} : watch[n]' = watch[n]
      BY <1>3, StoreHistory
    <2>2. \A n \in Machines \ {m} : \A v \in Shown(n)' : Background(v)
      BY <2>1, BackgroundFrame
    <2>3. Shown(m)' \subseteq Shown(m) \union {o, NoObject}
      BY <1>3, ShownStore
    <2>4. \A v \in Shown(m) : Background(v)
      BY DEF BackgroundInv, Background
    <2>5. \A v \in Shown(m)' : Background(v)
      BY <1>1, <2>3, <2>4
    <2> QED
      BY <2>2, <2>5 DEF BackgroundInv, Background
  <1> QED
    BY <1>2, <1>3

\* Every step keeps BackgroundInv.
LEMMA BackgroundNext ==
  ASSUME TypeOK, CleanupInv, "foreground" \notin Disruptions, BackgroundInv, [Next]_vars
  PROVE  BackgroundInv'
  <1> USE DEF apiVars, localVars, workVars, hostVars, capiVars, boundVars
  <1> DEFINE kept == \A n \in Machines : \A o \in Shown(n)' : Background(o)
  <1>0. \A m \in Machines : /\ km[m] \in Objects /\ before[m] \in Objects /\ obj[m] \in Objects
                            /\ Background(km[m]) /\ Background(before[m])
    <2> SUFFICES ASSUME NEW m \in Machines
                 PROVE  /\ km[m] \in Objects /\ before[m] \in Objects /\ obj[m] \in Objects
                        /\ Background(km[m]) /\ Background(before[m])
      OBVIOUS
    <2>1. km[m] \in Shown(m) /\ before[m] \in Shown(m)
      BY StoredIsShown DEF CleanupInv, Shown
    <2> QED
      BY <2>1 DEF TypeOK, BackgroundInv, Background
  <1>1. kept => BackgroundInv'
    BY DEF BackgroundInv, Background
  <1>2. ASSUME NEW m \in Machines, Start(m) PROVE BackgroundInv'
    <2>1. \A n \in Machines : before[n]' \in {before[n], cache[n]}
      BY <1>2 DEF Start, FetchNothing, FetchFails, Fetch, vars, TypeOK
    <2>2. watch' = watch /\ cache' = cache
      BY <1>2 DEF Start, FetchNothing, FetchFails, Fetch, vars
    <2> QED
      BY <1>1, <2>1, <2>2, BackgroundFrame
  <1>3. ASSUME NEW m \in Machines, Continue(m) PROVE BackgroundInv'
    <2> DEFINE o == SpecPatched(km[m], before[m], obj[m])
               p == StatusPatched(km[m], before[m], obj[m])
    <2>1. o \in Objects /\ p \in Objects /\ Collected(o) \in Objects /\ Collected(p) \in Objects
      BY <1>0, SpecPatchedType, StatusPatchedType, CollectedType
    <2>2. p.finalizers \subseteq {MachineFinalizer}
      BY <1>0 DEF StatusPatched, Objects, Background
    <2>3. pc[m] # "idle" => o.finalizers \subseteq {MachineFinalizer}
      <3>1. pc[m] # "idle" => obj[m].finalizers \subseteq {MachineFinalizer}
        BY <1>0 DEF CleanupInv, LocalInv, Background
      <3>2. o.finalizers \in {km[m].finalizers, obj[m].finalizers}
        BY <1>0 DEF SpecPatched, Objects
      <3> QED
        BY <1>0, <3>1, <3>2 DEF Background
    <2> HIDE DEF o, p
    <2>4. CASE CheckPrerequisites(m)
      BY <1>1, <2>4, BackgroundFrame DEF CheckPrerequisites
    <2>5. ASSUME NEW r \in Replies, AddFinalizer(m, r) PROVE BackgroundInv'
      <3>1. /\ before[m]' \in {before[m], NoObject}
            /\ \A n \in Machines \ {m} : before[n]' = before[n]
        BY <2>5 DEF AddFinalizer, Return, TypeOK
      <3>2. /\ cache' = cache /\ pc[m] # "idle"
            /\ Store(m, Collected(o)) \/ UNCHANGED apiVars
        BY <2>5 DEF AddFinalizer, Write, o
      <3> QED
        BY <2>1, <2>3, <3>1, <3>2, CollectedBackground, BackgroundStore
    <2>6. ASSUME NEW r \in Replies,
                 \/ GenerateClient(m, r) \/ DeletePod(m, r) \/ DeleteSecret(m, r)
                 \/ CreateSecret(m, r) \/ CreatePod(m, r) \/ PatchMachine(m, r)
          PROVE  BackgroundInv'
      BY <1>1, <2>6, BackgroundFrame DEF GenerateClient, DeletePod, DeleteSecret, CreateSecret,
                                         CreatePod, PatchMachine
    <2>7. ASSUME NEW r \in Replies, PatchSpec(m, r) PROVE BackgroundInv'
      <3>1. /\ cache' = cache /\ before' = before /\ pc[m] # "idle"
            /\ Store(m, Collected(o)) \/ UNCHANGED apiVars
        BY <2>7 DEF PatchSpec, Write, o
      <3> QED
        BY <2>1, <2>3, <3>1, CollectedBackground, BackgroundStore
    <2>8. ASSUME NEW r \in Replies, PatchStatus(m, r) PROVE BackgroundInv'
      <3>1. /\ before[m]' \in {before[m], NoObject}
            /\ \A n \in Machines \ {m} : before[n]' = before[n]
        BY <2>8 DEF PatchStatus, Return, TypeOK
      <3>2. cache' = cache /\ (Store(m, Collected(p)) \/ UNCHANGED apiVars)
        BY <2>8 DEF PatchStatus, Write, p
      <3> QED
        BY <2>1, <2>2, <3>1, <3>2, CollectedBackground, BackgroundStore
    <2> QED
      BY <1>3, <2>4, <2>5, <2>6, <2>7, <2>8 DEF Continue
  <1>4. ASSUME NEW m \in Machines, Environment(m) PROVE BackgroundInv'
    <2>1. CASE Create(m)
      <3>1. PICK e \in Options : Store(m, [NoObject EXCEPT !.phase = "live", !.extended = e])
        BY <2>1 DEF Create
      <3> DEFINE o == [NoObject EXCEPT !.phase = "live", !.extended = e]
      <3>2. o \in Objects /\ Background(o)
        BY MachineAssumption DEF NoObject, Objects, Background
      <3> HIDE DEF o
      <3> QED
        BY <2>1, <3>1, <3>2, BackgroundStore DEF Create, o
    <2>2. CASE Adopt(m)
      <3> DEFINE o == [km[m] EXCEPT !.owned = TRUE]
      <3>1. o \in Objects /\ Background(o)
        BY <1>0 DEF Objects, Background
      <3> HIDE DEF o
      <3> QED
        BY <2>2, <3>1, BackgroundStore DEF Adopt, o
    <2>3. ASSUME NEW added \in SUBSET {ForeignFinalizer}, Delete(m, added) PROVE BackgroundInv'
      <3> DEFINE o == [km[m] EXCEPT !.phase = "deleting", !.finalizers = @ \union added]
      <3>1. o \in Objects /\ o.finalizers = km[m].finalizers
        BY <1>0, <2>3 DEF Objects, Delete
      <3> HIDE DEF o
      <3>2. Collected(o) \in Objects /\ Background(Collected(o))
        BY <1>0, <3>1, CollectedType, CollectedBackground DEF Background
      <3> QED
        BY <2>3, <3>2, BackgroundStore DEF Delete, o
    <2>4. CASE DropForeign(m)
      BY <1>0, <2>4 DEF DropForeign, Background, ForeignFinalizer, MachineFinalizer
    <2>5. ASSUME NEW paused \in BOOLEAN, SetPaused(m, paused) PROVE BackgroundInv'
      <3> DEFINE o == [km[m] EXCEPT !.paused = paused]
      <3>1. o \in Objects /\ Background(o)
        BY <1>0 DEF Objects, Background
      <3> HIDE DEF o
      <3> QED
        BY <2>5, <3>1, BackgroundStore DEF SetPaused, o
    <2>6. CASE BootstrapReady(m) \/ FixVersion(m) \/ OwnerLost(m) \/ EditHollowSecret(m)
      BY <1>1, <2>6, BackgroundFrame DEF BootstrapReady, FixVersion, OwnerLost, EditHollowSecret
    <2> QED
      BY <1>4, <2>1, <2>2, <2>3, <2>4, <2>5, <2>6 DEF Environment
  <1>5. ASSUME NEW m \in Machines, Deliver(m) PROVE BackgroundInv'
    <2>1. watch[m] \in Seq(Objects) /\ watch[m] # <<>>
      BY <1>5 DEF TypeOK, Deliver
    <2>2. cache[m]' = Head(watch[m]) /\ watch[m]' = Tail(watch[m]) /\ before' = before
      BY <1>5 DEF TypeOK, Deliver
    <2>3. \A i \in 1..Len(watch[m]') : /\ i + 1 \in 1..Len(watch[m])
                                       /\ watch[m]'[i] = watch[m][i + 1]
      BY <2>1, <2>2
    <2>4. 1 \in 1..Len(watch[m]) /\ cache[m]' = watch[m][1]
      BY <2>1, <2>2
    <2>5. Shown(m)' \subseteq Shown(m)
      BY <2>2, <2>3, <2>4 DEF Shown
    <2>6. \A o \in Shown(m)' : Background(o)
      BY <2>5 DEF BackgroundInv, Background
    <2>7. ASSUME NEW n \in Machines \ {m} PROVE \A o \in Shown(n)' : Background(o)
      BY <1>5, <2>2, DeliverHistory, BackgroundFrame
    <2> QED
      BY <1>1, <2>6, <2>7
  <1>6. ASSUME NEW m \in Machines, Resync(m) PROVE BackgroundInv'
    BY <1>1, <1>6, BackgroundFrame DEF Resync
  <1>7. ASSUME NEW s \in Slots, PodGone(s) PROVE BackgroundInv'
    BY <1>1, <1>7, BackgroundFrame DEF PodGone
  <1>8. CASE ClusterEvent \/ ClusterSecretsReady \/ UNCHANGED vars
    BY <1>1, <1>8, BackgroundFrame DEF ClusterEvent, ClusterSecretsReady, vars
  <1>9. CASE CrashRestart
    <2> SUFFICES ASSUME NEW n \in Machines PROVE \A o \in Shown(n)' : Background(o)
      BY <1>1
    <2>1. before[n]' = NoObject
      BY <1>9 DEF CrashRestart
    <2>2. CASE cache' = km /\ watch' = [m \in Machines |-> <<>>]
      <3>1. Shown(n)' \subseteq {NoObject, km[n]}
        BY <2>1, <2>2 DEF Shown
      <3>2. Background(NoObject)
        BY DEF Background, NoObject
      <3> QED
        BY <1>0, <3>1, <3>2
    <2>3. CASE UNCHANGED <<cache, watch>>
      BY <2>1, <2>3, BackgroundFrame
    <2> QED
      BY <1>9, <2>2, <2>3 DEF CrashRestart
  <1> QED
    BY <1>2, <1>3, <1>4, <1>5, <1>6, <1>7, <1>8, <1>9 DEF Next

\* Hence a reconcile that deletes has seen the deletion of the object.
LEMMA BackgroundDeletes ==
  ASSUME TypeOK, CleanupInv, BackgroundInv
  PROVE  DeletesDoomed
  <1> SUFFICES ASSUME NEW m \in Machines, pc[m] \in DeleteSteps PROVE ~HeldLive(km[m])
    BY DEF DeletesDoomed
  <1> DEFINE S == History(m)
  <1>1. before[m].phase = "deleting" /\ before[m] \in Shown(m)
    BY DEF CleanupInv, LocalInv, DeleteSteps, Shown
  <1>2. HeldDeleting(before[m])
    BY <1>1 DEF BackgroundInv, HeldDeleting
  <1>3. Falling(S) /\ S[Len(S)] = km[m]
    BY <1>2 DEF CleanupInv, HistoryInv
  <1>4. Len(S) \in 1..Len(S)
    BY HistoryType
  <1> QED
    BY <1>3, <1>4 DEF Falling

\* So has one whose object is the first of its name.
LEMMA FirstLifeDeletes ==
  ASSUME Known
  PROVE  DeletesDoomed
  <1> SUFFICES ASSUME NEW m \in Machines, pc[m] \in DeleteSteps PROVE ~HeldLive(km[m])
    BY DEF DeletesDoomed
  <1>1. before[m].phase = "deleting" /\ before[m] \in Shown(m)
    BY DEF Known, CleanupInv, LocalInv, DeleteSteps, Shown
  <1> QED
    BY <1>1 DEF Known, VersionInv, HeldLive

-----------------------------------------------------------------------------
(***************************************************************************)
(* The refinement, step by step.                                           *)
(***************************************************************************)

\* The condition of an object and the phase of the abstract machine.
LEMMA LifeOf ==
  ASSUME NEW o \in Objects
  PROVE  /\ Life(o) = "held" <=> HeldLive(o)
         /\ Life(o) = "doomed" <=> HeldDeleting(o)
         /\ Life(o) = "free" <=> Loose(o)
         /\ Life(o) \in {"held", "doomed", "free"}
  BY DEF Life, HeldLive, HeldDeleting, Loose

\* The abstract machine has a pod or a secret when there is one in its place.
LEMMA Bars ==
  ASSUME Apart
  PROVE  TypeOK /\ CleanupInv =>
           /\ secretBar = {m \in Machines : secrets[Place(m)] = m}
           /\ podBar = {m \in Machines : pods[Place(m)].phase = "running"}
  <1> SUFFICES ASSUME TypeOK, CleanupInv
               PROVE  /\ secretBar = {m \in Machines : secrets[Place(m)] = m}
                      /\ podBar = {m \in Machines : pods[Place(m)].phase = "running"}
    OBVIOUS
  <1>1. \A m \in Machines :
          /\ Place(m) \in Slots
          /\ secrets[Place(m)] \in {m, Nobody}
          /\ pods[Place(m)].phase = "running" => pods[Place(m)].by = m
          /\ \A s \in Slots : secrets[s] = m \/ pods[s].by = m => s = Place(m)
    BY OwnPlace
  <1>2. Nobody \notin Machines
    BY MachineAssumption
  <1>3. secretBar = {m \in Machines : secrets[Place(m)] = m}
    <2>1. \A s \in Slots : secrets[s] # Nobody =>
             secrets[s] \in Machines /\ s = Place(secrets[s])
      BY <1>1 DEF TypeOK
    <2> QED
      BY <1>1, <1>2, <2>1 DEF secretBar
  <1>4. podBar = {m \in Machines : pods[Place(m)].phase = "running"}
    <2>1. \A s \in Slots : pods[s].phase = "running" =>
             pods[s].by \in Machines /\ s = Place(pods[s].by)
      BY <1>1 DEF CleanupInv
    <2> QED
      BY <1>1, <2>1 DEF podBar
  <1> QED
    BY <1>3, <1>4

\* The same after a step.
LEMMA BarsNext ==
  ASSUME Apart, TypeOK', CleanupInv'
  PROVE  /\ secretBar' = {m \in Machines : secrets[Place(m)]' = m}
         /\ podBar' = {m \in Machines : pods[Place(m)]'.phase = "running"}
  <1>1. (TypeOK /\ CleanupInv =>
           /\ secretBar = {m \in Machines : secrets[Place(m)] = m}
           /\ podBar = {m \in Machines : pods[Place(m)].phase = "running"})'
    BY Bars, PTL
  <1> QED
    BY <1>1

\* A step in which at most one object changes its phase.
LEMMA LifeStep ==
  ASSUME NEW m \in Machines, \A n \in Machines \ {m} : km[n]' = km[n],
         pods' = pods, secrets' = secrets,
         \/ Life(km[m]') = Life(km[m])
         \/ Life(km[m]) = "free" /\ Life(km[m]') = "held"
         \/ Life(km[m]) = "held" /\ Life(km[m]') = "doomed"
         \/ /\ Life(km[m]) = "doomed" /\ Life(km[m]') = "free"
            /\ m \notin podBar \union secretBar
  PROVE  [Hollow!Next]_(Hollow!absVars)
  <1>1. secretBar' = secretBar /\ podBar' = podBar
    BY DEF secretBar, podBar
  <1>2. lifeBar[m] = Life(km[m]) /\ lifeBar' = [lifeBar EXCEPT ![m] = Life(km[m]')]
    BY DEF lifeBar, Life, HeldLive, HeldDeleting
  <1>3. CASE Life(km[m]') = Life(km[m])
    <2>1. lifeBar' = lifeBar
      BY <1>3 DEF lifeBar
    <2> QED
      BY <1>1, <2>1 DEF Hollow!absVars
  <1>4. CASE Life(km[m]) = "free" /\ Life(km[m]') = "held"
    <2>1. Hollow!Hold(m)
      BY <1>1, <1>2, <1>4 DEF Hollow!Hold, Hollow!Becomes
    <2> QED
      BY <2>1 DEF Hollow!Next
  <1>5. CASE Life(km[m]) = "held" /\ Life(km[m]') = "doomed"
    <2>1. Hollow!Doom(m)
      BY <1>1, <1>2, <1>5 DEF Hollow!Doom, Hollow!Becomes
    <2> QED
      BY <2>1 DEF Hollow!Next
  <1>6. CASE /\ Life(km[m]) = "doomed" /\ Life(km[m]') = "free"
             /\ m \notin podBar \union secretBar
    <2>1. Hollow!Release(m)
      BY <1>1, <1>2, <1>6 DEF Hollow!Release, Hollow!Becomes
    <2> QED
      BY <2>1 DEF Hollow!Next
  <1> QED
    BY <1>3, <1>4, <1>5, <1>6

\* A step that touches neither objects nor pods nor secrets.
LEMMA NoStep ==
  ASSUME km' = km, secrets' = secrets, pods' = pods
  PROVE  UNCHANGED Hollow!absVars
  BY DEF Hollow!absVars, lifeBar, secretBar, podBar

\* Storing a version of the object of m.
LEMMA StoreRefines ==
  ASSUME TypeOK, NEW m \in Machines, NEW o, Store(m, o) \/ km' = km,
         pods' = pods, secrets' = secrets,
         \/ Life(o) = Life(km[m])
         \/ Life(km[m]) = "free" /\ Life(o) = "held"
         \/ Life(km[m]) = "held" /\ Life(o) = "doomed"
         \/ /\ Life(km[m]) = "doomed" /\ Life(o) = "free"
            /\ m \notin podBar \union secretBar
  PROVE  [Hollow!Next]_(Hollow!absVars)
  <1>1. CASE km' = km
    BY <1>1, NoStep
  <1>2. CASE Store(m, o)
    <2>1. km[m]' = o /\ \A n \in Machines \ {m} : km[n]' = km[n]
      BY <1>2 DEF Store, TypeOK
    <2> QED
      BY <2>1, LifeStep
  <1> QED
    BY <1>1, <1>2

\* The garbage collector does not change the phase.
LEMMA CollectedLife ==
  ASSUME NEW o \in Objects
  PROVE  Life(Collected(o)) = Life(o)
  <1>1. Collected(o) \in Objects
    BY CollectedType
  <1> QED
    BY <1>1, CollectedKeeps, Conditions, LifeOf DEF Loose

\* What the step lemmas below assume of a state.
Tidy == TypeOK /\ CleanupInv /\ Apart /\ SecretInv /\ DeletesDoomed

\* Creation, adoption and pauses leave the phase alone, a deletion dooms.
LEMMA EnvironmentRefines ==
  ASSUME Tidy, NEW m \in Machines, Environment(m)
  PROVE  [Hollow!Next]_(Hollow!absVars)
  <1> USE DEF apiVars, localVars, workVars, hostVars, capiVars, boundVars
  <1>0. TypeOK /\ km[m] \in Objects
    BY DEF Tidy, TypeOK
  <1>1. CASE Create(m)
    <2>1. PICK e \in Options : Store(m, [NoObject EXCEPT !.phase = "live", !.extended = e])
      BY <1>1 DEF Create
    <2> DEFINE o == [NoObject EXCEPT !.phase = "live", !.extended = e]
    <2>2. Life(o) = "free" /\ Life(km[m]) = "free"
      BY <1>1 DEF Create, NoObject, Life, HeldLive, HeldDeleting
    <2> HIDE DEF o
    <2> QED
      BY <1>0, <1>1, <2>1, <2>2, StoreRefines DEF Create, o
  <1>2. CASE Adopt(m)
    <2> DEFINE o == [km[m] EXCEPT !.owned = TRUE]
    <2>1. Life(o) = Life(km[m])
      BY <1>0 DEF Objects, Life, HeldLive, HeldDeleting
    <2> HIDE DEF o
    <2> QED
      BY <1>0, <1>2, <2>1, StoreRefines DEF Adopt, o
  <1>3. ASSUME NEW added \in SUBSET {ForeignFinalizer}, Delete(m, added)
        PROVE  [Hollow!Next]_(Hollow!absVars)
    <2> DEFINE o == [km[m] EXCEPT !.phase = "deleting", !.finalizers = @ \union added]
    <2>1. o \in Objects /\ o.phase = "deleting" /\ o.finalizers = km[m].finalizers \union added
      BY <1>0 DEF Objects
    <2>2. MachineFinalizer \in o.finalizers <=> MachineFinalizer \in km[m].finalizers
      BY <2>1 DEF MachineFinalizer, ForeignFinalizer
    <2>3. \/ Life(o) = Life(km[m])
          \/ Life(km[m]) = "held" /\ Life(o) = "doomed"
      BY <1>3, <2>1, <2>2 DEF Delete, Life, HeldLive, HeldDeleting
    <2> HIDE DEF o
    <2>4. Life(Collected(o)) = Life(o)
      BY <2>1, CollectedLife
    <2> QED
      BY <1>0, <1>3, <2>3, <2>4, StoreRefines DEF Delete, o
  <1>4. CASE DropForeign(m)
    <2> DEFINE o == [km[m] EXCEPT !.finalizers = @ \ {ForeignFinalizer}]
    <2>1. o \in Objects /\ o.phase = km[m].phase
                        /\ o.finalizers = km[m].finalizers \ {ForeignFinalizer}
      BY <1>0 DEF Objects
    <2>2. MachineFinalizer \in o.finalizers <=> MachineFinalizer \in km[m].finalizers
      BY <2>1 DEF MachineFinalizer, ForeignFinalizer
    <2>3. Life(o) = Life(km[m])
      BY <2>1, <2>2 DEF Life, HeldLive, HeldDeleting
    <2> HIDE DEF o
    <2>4. Life(Collected(o)) = Life(o)
      BY <2>1, CollectedLife
    <2> QED
      BY <1>0, <1>4, <2>3, <2>4, StoreRefines DEF DropForeign, o
  <1>5. ASSUME NEW paused \in BOOLEAN, SetPaused(m, paused)
        PROVE  [Hollow!Next]_(Hollow!absVars)
    <2> DEFINE o == [km[m] EXCEPT !.paused = paused]
    <2>1. Life(o) = Life(km[m])
      BY <1>0 DEF Objects, Life, HeldLive, HeldDeleting
    <2> HIDE DEF o
    <2> QED
      BY <1>0, <1>5, <2>1, StoreRefines DEF SetPaused, o
  <1>6. CASE BootstrapReady(m) \/ FixVersion(m) \/ OwnerLost(m) \/ EditHollowSecret(m)
    BY <1>6, NoStep DEF BootstrapReady, FixVersion, OwnerLost, EditHollowSecret
  <1> QED
    BY <1>1, <1>2, <1>3, <1>4, <1>5, <1>6 DEF Environment

\* The finalizer is added to a live object; on one in deletion it is there
\* already or cannot be added.
LEMMA AddFinalizerRefines ==
  ASSUME Tidy, NEW m \in Machines, NEW r \in Replies, AddFinalizer(m, r)
  PROVE  [Hollow!Next]_(Hollow!absVars)
  <1> DEFINE o == SpecPatched(km[m], before[m], obj[m])
  <1>1. /\ TypeOK /\ km[m] \in Objects /\ before[m] \in Objects /\ obj[m] \in Objects
        /\ LocalInv(m) /\ pc[m] = "addFinalizer"
    BY DEF Tidy, TypeOK, CleanupInv, AddFinalizer
  <1>2. MachineFinalizer \notin before[m].finalizers /\ MachineFinalizer \in obj[m].finalizers
    BY <1>1 DEF LocalInv
  <1>3. o \in Objects /\ o.phase = km[m].phase /\ MachineFinalizer \in o.finalizers
    BY <1>1, <1>2, SpecPatchedType DEF SpecPatched, Objects
  <1> HIDE DEF o
  <1>4. pods' = pods /\ secrets' = secrets /\ Write(m, o, r)
    BY DEF AddFinalizer, hostVars, o
  <1>5. CASE Admitted(km[m], o)
    <2>1. Life(o) = Life(km[m]) \/ (Life(km[m]) = "free" /\ Life(o) = "held")
      BY <1>1, <1>3, <1>5 DEF Admitted, Life, HeldLive, HeldDeleting, Objects
    <2>2. Life(Collected(o)) = Life(o)
      BY <1>3, CollectedLife
    <2>3. Store(m, Collected(o)) \/ km' = km
      BY <1>4 DEF Write, apiVars
    <2> QED
      BY <1>1, <1>4, <2>1, <2>2, <2>3, StoreRefines
  <1>6. CASE ~Admitted(km[m], o)
    BY <1>4, <1>6, NoStep DEF Write, apiVars
  <1> QED
    BY <1>5, <1>6

\* The patch at the end takes the finalizer away from an object in deletion
\* that has neither pod nor secret left, or it changes nothing of this.
LEMMA PatchSpecRefines ==
  ASSUME Tidy, NEW m \in Machines, NEW r \in Replies, PatchSpec(m, r)
  PROVE  [Hollow!Next]_(Hollow!absVars)
  <1> DEFINE k == km[m]
             b == before[m]
             a == obj[m]
             o == SpecPatched(k, b, a)
  <1>1. /\ TypeOK /\ CleanupInv /\ Apart
        /\ k \in Objects /\ b \in Objects /\ a \in Objects
        /\ LocalInv(m) /\ HistoryInv(m) /\ HostInv(m) /\ pc[m] = "patchSpec"
    BY DEF Tidy, TypeOK, CleanupInv, PatchSpec
  <1>2. /\ o \in Objects /\ o.phase = k.phase
        /\ o.finalizers = IF a.finalizers = b.finalizers THEN k.finalizers ELSE a.finalizers
    BY <1>1, SpecPatchedType DEF SpecPatched, Objects
  <1>3. pods' = pods /\ secrets' = secrets
    BY DEF PatchSpec, hostVars
  <1>4. Store(m, Collected(o)) \/ km' = km
    BY DEF PatchSpec, Write, apiVars
  <1> HIDE DEF o
  <1>5. Life(Collected(o)) = Life(o)
    BY <1>2, CollectedLife
  <1>6. CASE a.finalizers = b.finalizers
    <2>1. Life(o) = Life(k)
      BY <1>2, <1>6 DEF Life, HeldLive, HeldDeleting
    <2> QED
      BY <1>1, <1>3, <1>4, <1>5, <2>1, StoreRefines
  <1>7. CASE a.finalizers # b.finalizers /\ MachineFinalizer \in a.finalizers
    <2>1. MachineFinalizer \notin b.finalizers
      BY <1>1, <1>7 DEF LocalInv
    <2>2. k.phase # "none" /\ MachineFinalizer \in k.finalizers
      BY <1>1, <2>1 DEF HistoryInv, HeldDeleting, Held
    <2>3. Life(o) = Life(k)
      BY <1>2, <1>7, <2>2 DEF Life, HeldLive, HeldDeleting
    <2> QED
      BY <1>1, <1>3, <1>4, <1>5, <2>3, StoreRefines
  <1>8. CASE a.finalizers # b.finalizers /\ MachineFinalizer \notin a.finalizers
    <2>1. b.phase = "deleting" /\ MachineFinalizer \in b.finalizers
      BY <1>1, <1>8 DEF LocalInv
    <2>2. ~HeldLive(k)
      <3> DEFINE S == History(m)
      <3>1. Falling(S) /\ S[Len(S)] = k
        BY <1>1, <2>1 DEF HistoryInv, HeldDeleting
      <3>2. Len(S) \in 1..Len(S)
        BY <1>1, HistoryType
      <3> QED
        BY <3>1, <3>2 DEF Falling
    <2>3. Life(o) = "free"
      BY <1>2, <1>8 DEF Life, HeldLive, HeldDeleting
    <2>4. Life(k) \in {"free", "doomed"}
      BY <2>2 DEF Life
    <2>5. m \notin podBar \union secretBar
      <3>1. \A s \in Slots : /\ pods[s].by = m => pods[s].phase # "running"
                             /\ secrets[s] # m
        BY <1>1, <1>8 DEF HostInv
      <3> QED
        BY <3>1 DEF podBar, secretBar
    <2> QED
      BY <1>1, <1>3, <1>4, <1>5, <2>3, <2>4, <2>5, StoreRefines
  <1> QED
    BY <1>6, <1>7, <1>8

\* The status does not matter to the phase.
LEMMA PatchStatusRefines ==
  ASSUME Tidy, NEW m \in Machines, NEW r \in Replies, PatchStatus(m, r)
  PROVE  [Hollow!Next]_(Hollow!absVars)
  <1> DEFINE o == StatusPatched(km[m], before[m], obj[m])
  <1>1. TypeOK /\ km[m] \in Objects /\ before[m] \in Objects /\ obj[m] \in Objects
    BY DEF Tidy, TypeOK
  <1>2. o \in Objects /\ o.phase = km[m].phase /\ o.finalizers = km[m].finalizers
    BY <1>1, StatusPatchedType DEF StatusPatched, Objects
  <1>3. pods' = pods /\ secrets' = secrets /\ (Store(m, Collected(o)) \/ km' = km)
    BY DEF PatchStatus, Write, apiVars, hostVars
  <1> HIDE DEF o
  <1>4. Life(Collected(o)) = Life(o) /\ Life(o) = Life(km[m])
    BY <1>2, CollectedLife DEF Life, HeldLive, HeldDeleting
  <1> QED
    BY <1>1, <1>3, <1>4, StoreRefines

\* A reconcile that creates works for an object that is held.
LEMMA CreatorIsNotFree ==
  ASSUME Tidy, NEW m \in Machines, pc[m] \in CreateSteps
  PROVE  lifeBar[m] # "free"
  <1>1. Held(m) /\ km[m] \in Objects
    BY CreatorIsHeld DEF Tidy, TypeOK
  <1>2. ~Loose(km[m])
    BY <1>1, HeldIsNotLoose DEF Held
  <1> QED
    BY <1>1, <1>2, LifeOf DEF lifeBar

\* A reconcile that deletes works for an object in deletion, if there is
\* anything left to delete.
LEMMA DeleterIsDoomed ==
  ASSUME Tidy, NEW m \in Machines, pc[m] \in DeleteSteps, m \in podBar \union secretBar
  PROVE  lifeBar[m] = "doomed"
  <1>1. km[m] \in Objects /\ CleanupInv
    BY DEF Tidy, TypeOK
  <1>2. Held(m)
    BY <1>1 DEF CleanupInv, NoOrphan, podBar, secretBar
  <1>3. ~Loose(km[m]) /\ ~HeldLive(km[m])
    BY <1>1, <1>2, HeldIsNotLoose DEF Held, Tidy, DeletesDoomed
  <1>4. HeldDeleting(km[m])
    BY <1>3 DEF Loose
  <1> QED
    BY <1>1, <1>4, LifeOf DEF lifeBar

\* The secret and the pod are created, the pod over the secret.
LEMMA CreateRefines ==
  ASSUME Tidy, TypeOK', CleanupInv', NEW m \in Machines, NEW r \in Replies,
         CreateSecret(m, r) \/ CreatePod(m, r)
  PROVE  [Hollow!Next]_(Hollow!absVars)
  <1>0. TypeOK /\ CleanupInv /\ Apart
    BY DEF Tidy
  <1>1. pc[m] \in CreateSteps
    BY DEF CreateSecret, CreatePod, CreateSteps
  <1>2. /\ Slot(m) = Place(m) /\ Place(m) \in Slots /\ lifeBar[m] # "free"
        /\ \A n \in Machines \ {m} : Place(n) \in Slots /\ Place(n) # Place(m)
    BY <1>0, <1>1, OwnSlot, CreatorIsNotFree, PlaceIsSlot DEF Place, Apart
  <1>3. km' = km /\ lifeBar' = lifeBar
    BY DEF CreateSecret, CreatePod, apiVars, lifeBar
  <1>4. CASE CreateSecret(m, r)
    <2>1. pods' = pods /\ podBar' = podBar
      BY <1>4 DEF CreateSecret, podBar
    <2>2. CASE secrets' = secrets
      BY <1>3, <2>1, <2>2, NoStep
    <2>3. CASE secrets' = [secrets EXCEPT ![Slot(m)] = m]
      <3>1. /\ secrets[Place(m)]' = m
            /\ \A n \in Machines \ {m} : secrets[Place(n)]' = secrets[Place(n)]
        BY <1>0, <1>2, <2>3 DEF TypeOK
      <3>2. /\ secretBar = {n \in Machines : secrets[Place(n)] = n}
            /\ secretBar' = {n \in Machines : secrets[Place(n)]' = n}
        BY <1>0, Bars, BarsNext
      <3>3. secretBar' = secretBar \union {m}
        BY <3>1, <3>2
      <3>4. Hollow!Equip(m)
        BY <1>2, <1>3, <2>1, <3>3 DEF Hollow!Equip
      <3> QED
        BY <3>4 DEF Hollow!Next
    <2> QED
      BY <1>4, <2>2, <2>3 DEF CreateSecret
  <1>5. CASE CreatePod(m, r)
    <2>1. secrets' = secrets /\ secretBar' = secretBar
      BY <1>5 DEF CreatePod, secretBar
    <2>2. m \in secretBar
      <3>1. secrets[Place(m)] # Nobody
        BY <1>5 DEF CreatePod, Tidy, SecretInv
      <3> QED
        BY <1>0, <3>1, OwnPlace, Bars
    <2>3. CASE pods' = pods
      BY <1>3, <2>1, <2>3, NoStep
    <2>4. CASE pods' = [pods EXCEPT ![Slot(m)] = [phase |-> "running", by |-> m]]
      <3>1. /\ pods[Place(m)]'.phase = "running"
            /\ \A n \in Machines \ {m} : pods[Place(n)]' = pods[Place(n)]
        BY <1>0, <1>2, <2>4 DEF TypeOK
      <3>2. /\ podBar = {n \in Machines : pods[Place(n)].phase = "running"}
            /\ podBar' = {n \in Machines : pods[Place(n)]'.phase = "running"}
        BY <1>0, Bars, BarsNext
      <3>3. podBar' = podBar \union {m}
        BY <3>1, <3>2
      <3>4. Hollow!Launch(m)
        BY <1>2, <1>3, <2>1, <2>2, <3>3 DEF Hollow!Launch
      <3> QED
        BY <3>4 DEF Hollow!Next
    <2> QED
      BY <1>5, <2>3, <2>4 DEF CreatePod
  <1> QED
    BY <1>4, <1>5

\* The pod and the secret are deleted, the secret after the pod.
LEMMA DeleteRefines ==
  ASSUME Tidy, TypeOK', CleanupInv', NEW m \in Machines, NEW r \in Replies,
         DeletePod(m, r) \/ DeleteSecret(m, r)
  PROVE  [Hollow!Next]_(Hollow!absVars)
  <1>0. TypeOK /\ CleanupInv /\ Apart /\ Nobody \notin Machines
    BY MachineAssumption DEF Tidy
  <1>1. pc[m] \in DeleteSteps
    BY DEF DeletePod, DeleteSecret, DeleteSteps
  <1>2. /\ Slot(m) = Place(m) /\ Place(m) \in Slots
        /\ \A n \in Machines \ {m} : Place(n) \in Slots /\ Place(n) # Place(m)
    BY <1>0, <1>1, OwnSlot, PlaceIsSlot DEF Place, Apart
  <1>3. km' = km /\ lifeBar' = lifeBar
    BY DEF DeletePod, DeleteSecret, apiVars, lifeBar
  <1>4. /\ podBar = {n \in Machines : pods[Place(n)].phase = "running"}
        /\ podBar' = {n \in Machines : pods[Place(n)]'.phase = "running"}
        /\ secretBar = {n \in Machines : secrets[Place(n)] = n}
        /\ secretBar' = {n \in Machines : secrets[Place(n)]' = n}
    BY <1>0, Bars, BarsNext
  <1>5. CASE DeletePod(m, r)
    <2>1. secretBar' = secretBar
      BY <1>5 DEF DeletePod, secretBar
    <2>2. \/ pods' = pods
          \/ /\ pods[Place(m)]' = Terminated(pods[Place(m)])
             /\ \A n \in Machines \ {m} : pods[Place(n)]' = pods[Place(n)]
      BY <1>0, <1>2, <1>5 DEF DeletePod, TypeOK
    <2>3. pods[Place(m)] \in Pods
      BY <1>0, <1>2 DEF TypeOK
    <2>4. Terminated(pods[Place(m)]).phase # "running"
      BY <2>3 DEF Terminated, Pods
    <2>5. podBar' = podBar \/ podBar' = podBar \ {m}
      BY <1>4, <2>2, <2>4
    <2>6. CASE podBar' = podBar
      BY <1>3, <2>1, <2>6 DEF Hollow!absVars
    <2>7. CASE podBar' = podBar \ {m} /\ podBar' # podBar
      <3>1. lifeBar[m] = "doomed"
        BY <1>1, <2>7, DeleterIsDoomed
      <3>2. Hollow!Stop(m)
        BY <1>3, <2>1, <2>7, <3>1 DEF Hollow!Stop
      <3> QED
        BY <3>2 DEF Hollow!Next
    <2> QED
      BY <2>5, <2>6, <2>7
  <1>6. CASE DeleteSecret(m, r)
    <2>1. podBar' = podBar
      BY <1>6 DEF DeleteSecret, podBar
    <2>2. \/ secrets' = secrets
          \/ /\ secrets[Place(m)]' = Nobody
             /\ \A n \in Machines \ {m} : secrets[Place(n)]' = secrets[Place(n)]
      BY <1>0, <1>2, <1>6 DEF DeleteSecret, TypeOK
    <2>3. secretBar' = secretBar \/ secretBar' = secretBar \ {m}
      BY <1>0, <1>4, <2>2
    <2>4. m \notin podBar
      <3>1. \A s \in Slots : pods[s].by = m => pods[s].phase # "running"
        BY <1>0, <1>6 DEF CleanupInv, HostInv, DeleteSecret
      <3> QED
        BY <3>1 DEF podBar
    <2>5. CASE secretBar' = secretBar
      BY <1>3, <2>1, <2>5 DEF Hollow!absVars
    <2>6. CASE secretBar' = secretBar \ {m} /\ secretBar' # secretBar
      <3>1. lifeBar[m] = "doomed"
        BY <1>1, <2>6, DeleterIsDoomed
      <3>2. Hollow!Strip(m)
        BY <1>3, <2>1, <2>4, <2>6, <3>1 DEF Hollow!Strip
      <3> QED
        BY <3>2 DEF Hollow!Next
    <2> QED
      BY <2>3, <2>5, <2>6
  <1> QED
    BY <1>5, <1>6

\* Every step is a step of the abstract machine, or none.
LEMMA NextRefines ==
  ASSUME Tidy, TypeOK', CleanupInv', [Next]_vars
  PROVE  [Hollow!Next]_(Hollow!absVars)
  <1> USE DEF apiVars, localVars, workVars, hostVars, capiVars, boundVars
  <1>1. ASSUME NEW m \in Machines, Start(m) \/ Deliver(m) \/ Resync(m)
        PROVE  [Hollow!Next]_(Hollow!absVars)
    BY <1>1, NoStep DEF Start, FetchNothing, FetchFails, Fetch, vars, Deliver, Resync
  <1>2. ASSUME NEW m \in Machines, Continue(m)
        PROVE  [Hollow!Next]_(Hollow!absVars)
    <2>1. CASE CheckPrerequisites(m)
      BY <2>1, NoStep DEF CheckPrerequisites
    <2>2. ASSUME NEW r \in Replies, GenerateClient(m, r) \/ PatchMachine(m, r)
          PROVE  [Hollow!Next]_(Hollow!absVars)
      BY <2>2, NoStep DEF GenerateClient, PatchMachine
    <2> QED
      BY <1>2, <2>1, <2>2, AddFinalizerRefines, PatchSpecRefines, PatchStatusRefines,
         CreateRefines, DeleteRefines DEF Continue
  <1>3. ASSUME NEW s \in Slots, PodGone(s)
        PROVE  [Hollow!Next]_(Hollow!absVars)
    <2>1. km' = km /\ secrets' = secrets
      BY <1>3 DEF PodGone
    <2>2. \A t \in Slots : /\ pods[t]'.phase = "running" <=> pods[t].phase = "running"
                           /\ pods[t].phase = "running" => pods[t]' = pods[t]
      BY <1>3 DEF PodGone, NoPod, Tidy, TypeOK
    <2>3. podBar' = podBar
      BY <2>2 DEF podBar
    <2> QED
      BY <2>1, <2>3 DEF Hollow!absVars, lifeBar, secretBar
  <1>4. CASE ClusterEvent \/ ClusterSecretsReady \/ CrashRestart \/ UNCHANGED vars
    BY <1>4, NoStep DEF ClusterEvent, ClusterSecretsReady, CrashRestart, vars
  <1> QED
    BY <1>1, <1>2, <1>3, <1>4, EnvironmentRefines DEF Next

\* At first every machine is free and has nothing.
LEMMA InitRefines == Init => Hollow!Init
  <1> SUFFICES ASSUME Init PROVE Hollow!Init
    OBVIOUS
  <1>1. \A m \in Machines : Life(km[m]) = "free"
    BY DEF Init, NoObject, Life, HeldLive, HeldDeleting
  <1>2. lifeBar = [m \in Machines |-> "free"]
    BY <1>1 DEF lifeBar
  <1>3. secretBar = {} /\ podBar = {}
    BY DEF Init, NoPod, secretBar, podBar
  <1> QED
    BY <1>2, <1>3 DEF Hollow!Init

\* The controller implements the life of a hollow machine, for any number of
\* machines, workers, failing calls and crashes; names may be used again, or
\* objects be deleted in the foreground, but not both (Reconcile as a whole).
THEOREM ImplementsLifeCycle ==
  ASSUME "retarget" \notin Disruptions, Apart,
         MaxCreates <= 1 \/ "foreground" \notin Disruptions
  PROVE  Spec => LifeCycle
  <1> DEFINE Inv == TypeOK /\ CleanupInv /\ SecretInv
             Once == MaxCreates <= 1
             Ever == \A m \in Machines : VersionInv(m)
             Strong == Inv /\ (Once => Ever) /\ (~Once => BackgroundInv)
  <1>1. Init => Strong
    <2> SUFFICES ASSUME Init PROVE Strong
      OBVIOUS
    <2>1. SecretInv
      BY DEF Init, SecretInv, PodHasSecret, NoPod
    <2>2. \A m \in Machines : VersionInv(m)
      BY FirstLifeInit
    <2>3. BackgroundInv
      <3>1. \A m \in Machines : before[m] = NoObject /\ cache[m] = NoObject /\ watch[m] = <<>>
        BY DEF Init
      <3> QED
        BY <3>1 DEF BackgroundInv, Shown, NoObject
    <2> QED
      BY <2>1, <2>2, <2>3, InitType, CleanupInit
  <1>2. Strong => Tidy
    <2> SUFFICES ASSUME Strong PROVE DeletesDoomed
      BY DEF Tidy
    <2>1. CASE Once
      BY <2>1, FirstLifeDeletes DEF Known
    <2>2. CASE ~Once
      BY <2>2, BackgroundDeletes
    <2> QED
      BY <2>1, <2>2
  <1>3. Strong /\ [Next]_vars => Strong'
    <2> SUFFICES ASSUME Strong, [Next]_vars PROVE Strong'
      OBVIOUS
    <2>1. TypeOK'
      BY NextType
    <2>2. CleanupInv'
      BY CleanupNext
    <2>3. SecretInv'
      BY SecretNext
    <2>4. CASE Once
      <3>1. Known
        BY <2>4 DEF Known
      <3>2. \A m \in Machines : VersionInv(m)'
        BY <2>1, <2>4, <3>1, VersionNext
      <3> QED
        BY <2>1, <2>2, <2>3, <2>4, <3>2
    <2>5. CASE ~Once
      <3>1. BackgroundInv'
        BY <2>5, BackgroundNext
      <3> QED
        BY <2>1, <2>2, <2>3, <2>5, <3>1
    <2> QED
      BY <2>4, <2>5
  <1> HIDE DEF Strong
  <1>4. Strong /\ [Next]_vars => [Hollow!Next]_(Hollow!absVars)
    <2> SUFFICES ASSUME Strong, [Next]_vars PROVE [Hollow!Next]_(Hollow!absVars)
      OBVIOUS
    <2>1. TypeOK' /\ CleanupInv'
      BY <1>3 DEF Strong
    <2> QED
      BY <1>2, <2>1, NextRefines
  <1> QED
    BY <1>1, <1>3, <1>4, InitRefines, PTL DEF Spec, LifeCycle, Hollow!Spec

=============================================================================
