---------------------- MODULE KubemarkMachineFirstLife ----------------------
(***************************************************************************)
(* Machines whose names are not used again: FirstLifeInv of                *)
(* KubemarkMachine is inductive on top of CleanupInv.  From it: what Ready *)
(* tells about the pod and about the provider IDs, and that the finalizers *)
(* of others survive the merge patches.                                    *)
(***************************************************************************)
EXTENDS KubemarkMachineCleanup

-----------------------------------------------------------------------------
(***************************************************************************)
(* How the stored object and the versions of it that are shown move.       *)
(***************************************************************************)

\* A version o that may be stored over k in the life of one object.
Successor(k, o) ==
  /\ k.phase # "none"
  /\ o = NoObject \/ o.phase = k.phase \/ (k.phase = "live" /\ o.phase = "deleting")
  /\ o.phase = "live" => o.finalizers \subseteq {MachineFinalizer}
  /\ k.phase = "deleting" => o.finalizers \subseteq k.finalizers
  /\ k.providerID => o.providerID \/ o.phase = "none"

\* In a step the object of n is created, or it stays or gets a successor; and
\* nothing is shown that was not shown or stored.
Moves(n) ==
  \/ /\ creates[n]' = creates[n]
     /\ km[n]' = km[n] \/ Successor(km[n], km[n]')
     /\ Shown(n)' \subseteq Shown(n) \union {km[n]', NoObject}
     /\ km[n]'.ready =>
          km[n].ready \/ (pc[n] = "patchStatus" /\ Readies(n) /\ km[n].phase # "none")
  \/ Create(n)

\* In a step the reconcile of n stands still, or it ends.
Still(n) == pc[n]' = pc[n] /\ before[n]' = before[n] /\ obj[n]' = obj[n]
Reset(n) == pc[n]' = "idle" /\ before[n]' = NoObject /\ obj[n]' = NoObject

\* Whatever is shown is an object.
LEMMA ShownType ==
  ASSUME TypeOK, NEW m \in Machines
  PROVE  Shown(m) \subseteq Objects
  <1>1. watch[m] \in Seq(Objects) /\ before[m] \in Objects /\ cache[m] \in Objects
    BY DEF TypeOK
  <1>2. \A i \in 1..Len(watch[m]) : watch[m][i] \in Objects
    BY <1>1
  <1> QED
    BY <1>1, <1>2 DEF Shown

\* The stored object is shown: it is the newest version of the history.
LEMMA StoredIsShown ==
  ASSUME TypeOK, NEW m \in Machines, HistoryInv(m)
  PROVE  km[m] \in Shown(m)
  <1> DEFINE S == History(m)
             w == watch[m]
  <1>1. cache[m] \in Objects /\ w \in Seq(Objects)
    BY DEF TypeOK
  <1>2. S[Len(S)] = km[m] /\ Len(S) = Len(w) + 1 /\ S[1] = cache[m]
    BY HistoryType DEF HistoryInv
  <1>3. CASE Len(w) = 0
    BY <1>2, <1>3 DEF Shown
  <1>4. CASE Len(w) # 0
    <2>1. Len(w) \in 1..Len(w)
      BY <1>1, <1>4
    <2>2. S[Len(w) + 1] = w[Len(w)]
      BY <1>1, <2>1 DEF History
    <2> QED
      BY <1>2, <2>1, <2>2 DEF Shown
  <1> QED
    BY <1>3, <1>4

\* A store adds the stored version to what is shown, and nothing else.
LEMMA ShownStore ==
  ASSUME TypeOK, NEW m \in Machines, NEW o \in Objects, Store(m, o), cache' = cache,
         before[m]' \in {before[m], NoObject}
  PROVE  Shown(m)' \subseteq Shown(m) \union {o, NoObject}
  <1>1. watch[m] \in Seq(Objects)
    BY DEF TypeOK
  <1>2. watch[m]' = watch[m] \/ watch[m]' = Append(watch[m], o)
    BY DEF TypeOK, Store
  <1>3. CASE watch[m]' = watch[m]
    BY <1>3 DEF Shown
  <1>4. CASE watch[m]' = Append(watch[m], o)
    <2>1. \A i \in 1..Len(watch[m]') : watch[m]'[i] = o
                                       \/ (i \in 1..Len(watch[m]) /\ watch[m]'[i] = watch[m][i])
      BY <1>1, <1>4
    <2> QED
      BY <2>1 DEF Shown
  <1> QED
    BY <1>2, <1>3, <1>4

\* The machine whose versions do not move.
LEMMA MovesFrame ==
  ASSUME NEW n \in Machines, km[n]' = km[n], watch[n]' = watch[n], cache[n]' = cache[n],
         creates[n]' = creates[n], before[n]' \in {before[n], cache[n], NoObject}
  PROVE  Moves(n)
  BY DEF Moves, Shown

\* A successor is stored.
LEMMA StoreMoves ==
  ASSUME TypeOK, NEW m \in Machines, NEW o \in Objects, Store(m, o), cache' = cache,
         creates' = creates, before[m]' \in {before[m], NoObject},
         \A n \in Machines \ {m} : before[n]' = before[n],
         o = km[m] \/ Successor(km[m], o),
         o.ready => km[m].ready \/ (pc[m] = "patchStatus" /\ Readies(m) /\ km[m].phase # "none")
  PROVE  \A n \in Machines : Moves(n)
  <1>1. /\ km[m]' = o
        /\ \A n \in Machines \ {m} : km[n]' = km[n] /\ watch[n]' = watch[n]
    BY StoreHistory
  <1>2. Moves(m)
    BY <1>1, ShownStore DEF Moves
  <1>3. ASSUME NEW n \in Machines \ {m} PROVE Moves(n)
    BY <1>1, MovesFrame
  <1> QED
    BY <1>2, <1>3

\* A write stores what the garbage collector leaves of a successor, or nothing.
LEMMA WriteMoves ==
  ASSUME TypeOK, NEW m \in Machines, NEW o \in Objects, NEW r, Write(m, o, r), cache' = cache,
         creates' = creates, before[m]' \in {before[m], NoObject},
         \A n \in Machines \ {m} : before[n]' = before[n],
         Admitted(km[m], o) => Successor(km[m], o),
         Admitted(km[m], o) /\ o.ready => km[m].ready \/ (pc[m] = "patchStatus" /\ Readies(m))
  PROVE  \A n \in Machines : Moves(n)
  <1>1. CASE UNCHANGED apiVars
    BY <1>1, MovesFrame DEF apiVars
  <1>2. CASE Admitted(km[m], o) /\ Store(m, Collected(o))
    <2>1. Collected(o) \in Objects
      BY CollectedType
    <2>2. Successor(km[m], Collected(o))
      BY <1>2 DEF Collected, Successor, NoObject
    <2>3. Collected(o).ready => o.ready
      BY DEF Collected, NoObject
    <2> QED
      BY <1>2, <2>1, <2>2, <2>3, StoreMoves DEF Admitted
  <1> QED
    BY <1>1, <1>2 DEF Write

-----------------------------------------------------------------------------
(***************************************************************************)
(* Every step moves every object like that.                                *)
(***************************************************************************)

\* The invariants the rest of the module builds on.
Known == TypeOK /\ CleanupInv /\ \A m \in Machines : VersionInv(m)

\* What the merge patch of metadata and spec makes of the stored object.
LEMMA PatchSucceeds ==
  ASSUME Known, NEW m \in Machines, pc[m] # "idle",
         Admitted(km[m], SpecPatched(km[m], before[m], obj[m]))
  PROVE  Successor(km[m], SpecPatched(km[m], before[m], obj[m]))
  <1> DEFINE k == km[m]
             b == before[m]
             a == obj[m]
             o == SpecPatched(k, b, a)
  <1>1. k \in Objects /\ b \in Objects /\ a \in Objects
    BY DEF Known, TypeOK
  <1>2. /\ o.phase = k.phase
        /\ o.finalizers = IF a.finalizers = b.finalizers THEN k.finalizers ELSE a.finalizers
        /\ o.providerID = IF a.providerID = b.providerID THEN k.providerID ELSE a.providerID
    BY <1>1 DEF SpecPatched, Objects
  <1>3. k.phase # "none" /\ (k.phase = "deleting" => o.finalizers \subseteq k.finalizers)
    BY DEF Admitted
  <1>4. b.phase # "none" /\ a.finalizers \subseteq b.finalizers \union {MachineFinalizer}
    BY DEF Known, CleanupInv, LocalInv
  <1>5. b \in Shown(m) /\ k \in Shown(m)
    BY StoredIsShown DEF Known, CleanupInv, Shown
  <1>6. k.phase = "live" => o.finalizers \subseteq {MachineFinalizer}
    <2>1. k.phase = "live" => k.finalizers \subseteq {MachineFinalizer}
      BY <1>5 DEF Known, VersionInv
    <2>2. k.phase = "live" => b.finalizers \subseteq {MachineFinalizer}
      BY <1>1, <1>4, <1>5 DEF Known, VersionInv, Objects
    <2> QED
      BY <1>2, <1>4, <2>1, <2>2
  <1>7. k.providerID => o.providerID
    BY <1>1, <1>2 DEF Known, VersionInv, CopyInv, Objects
  <1> QED
    BY <1>2, <1>3, <1>6, <1>7 DEF Successor

\* A write that leaves the finalizers and the provider ID alone, and does not
\* bring a deleted object back.
LEMMA PlainSuccessor ==
  ASSUME Known, NEW m \in Machines, NEW o, km[m].phase # "none",
         o.phase = km[m].phase \/ (km[m].phase = "live" /\ o.phase = "deleting"),
         km[m].phase = o.phase => o.finalizers \subseteq km[m].finalizers,
         o.providerID = km[m].providerID
  PROVE  Successor(km[m], o)
  <1>1. km[m] \in Shown(m) /\ km[m] \in Objects
    BY StoredIsShown DEF Known, CleanupInv, TypeOK
  <1>2. km[m].phase = "live" => km[m].finalizers \subseteq {MachineFinalizer}
    BY <1>1 DEF Known, VersionInv
  <1> QED
    BY <1>1, <1>2 DEF Successor

\* The environment.
LEMMA EnvironmentMoves ==
  ASSUME Known, NEW m \in Machines, Environment(m)
  PROVE  \A n \in Machines : Moves(n)
  <1> USE DEF apiVars, localVars, workVars, hostVars, capiVars, boundVars
  <1>0. km[m] \in Objects /\ TypeOK
    BY DEF Known, TypeOK
  <1>1. CASE Create(m)
    <2>1. PICK e \in Options : Store(m, [NoObject EXCEPT !.phase = "live", !.extended = e])
      BY <1>1 DEF Create
    <2>2. [NoObject EXCEPT !.phase = "live", !.extended = e] \in Objects
      BY MachineAssumption DEF NoObject, Objects
    <2>3. \A n \in Machines \ {m} : km[n]' = km[n] /\ watch[n]' = watch[n]
      BY <1>0, <1>1, <2>1, <2>2, StoreHistory DEF Create
    <2>4. \A n \in Machines \ {m} : /\ cache[n]' = cache[n] /\ before[n]' = before[n]
                                    /\ creates[n]' = creates[n]
      BY <1>0, <1>1 DEF Create, TypeOK
    <2>5. \A n \in Machines \ {m} : Moves(n)
      BY <2>3, <2>4, MovesFrame
    <2> QED
      BY <1>1, <2>5 DEF Moves
  <1>2. CASE Adopt(m)
    <2> DEFINE o == [km[m] EXCEPT !.owned = TRUE]
    <2>1. o \in Objects /\ o.phase = km[m].phase /\ o.finalizers = km[m].finalizers
                        /\ o.providerID = km[m].providerID /\ o.ready = km[m].ready
      BY <1>0 DEF Objects
    <2>2. Successor(km[m], o)
      BY <1>2, <2>1, PlainSuccessor DEF Adopt
    <2> QED
      BY <1>0, <1>2, <2>1, <2>2, StoreMoves DEF Adopt
  <1>3. ASSUME NEW added \in SUBSET {ForeignFinalizer}, Delete(m, added)
        PROVE  \A n \in Machines : Moves(n)
    <2> DEFINE p == [km[m] EXCEPT !.phase = "deleting", !.finalizers = @ \union added]
               o == Collected(p)
    <2>1. p \in Objects /\ p.phase = "deleting" /\ p.providerID = km[m].providerID
                        /\ p.ready = km[m].ready
      BY <1>0 DEF Objects
    <2>2. Successor(km[m], p)
      BY <1>3, <2>1, PlainSuccessor DEF Delete
    <2>3. o \in Objects /\ Successor(km[m], o)
      BY <2>1, <2>2, CollectedType DEF Collected, Successor, NoObject
    <2>4. o.ready => km[m].ready
      BY <2>1 DEF Collected, NoObject
    <2> QED
      BY <1>0, <1>3, <2>3, <2>4, StoreMoves DEF Delete
  <1>4. CASE DropForeign(m)
    <2> DEFINE p == [km[m] EXCEPT !.finalizers = @ \ {ForeignFinalizer}]
               o == Collected(p)
    <2>1. p \in Objects /\ p.phase = km[m].phase /\ p.finalizers \subseteq km[m].finalizers
                        /\ p.providerID = km[m].providerID /\ p.ready = km[m].ready
      BY <1>0 DEF Objects
    <2>2. Successor(km[m], p)
      BY <1>4, <2>1, PlainSuccessor DEF DropForeign
    <2>3. o \in Objects /\ Successor(km[m], o)
      BY <2>1, <2>2, CollectedType DEF Collected, Successor, NoObject
    <2>4. o.ready => km[m].ready
      BY <2>1 DEF Collected, NoObject
    <2> QED
      BY <1>0, <1>4, <2>3, <2>4, StoreMoves DEF DropForeign
  <1>5. ASSUME NEW paused \in BOOLEAN, SetPaused(m, paused)
        PROVE  \A n \in Machines : Moves(n)
    <2> DEFINE o == [km[m] EXCEPT !.paused = paused]
    <2>1. o \in Objects /\ o.phase = km[m].phase /\ o.finalizers = km[m].finalizers
                        /\ o.providerID = km[m].providerID /\ o.ready = km[m].ready
      BY <1>0 DEF Objects
    <2>2. Successor(km[m], o)
      BY <1>5, <2>1, PlainSuccessor DEF SetPaused
    <2> QED
      BY <1>0, <1>5, <2>1, <2>2, StoreMoves DEF SetPaused
  <1>6. CASE BootstrapReady(m) \/ FixVersion(m) \/ OwnerLost(m) \/ EditHollowSecret(m)
    BY <1>6, MovesFrame DEF BootstrapReady, FixVersion, OwnerLost, EditHollowSecret
  <1> QED
    BY <1>1, <1>2, <1>3, <1>4, <1>5, <1>6 DEF Environment

\* The steps of a reconcile.
LEMMA ContinueMoves ==
  ASSUME Known, NEW m \in Machines, Continue(m)
  PROVE  \A n \in Machines : Moves(n)
  <1> USE DEF apiVars, localVars, workVars, hostVars, capiVars, boundVars
  <1>0. TypeOK /\ km[m] \in Objects /\ before[m] \in Objects /\ obj[m] \in Objects
    BY DEF Known, TypeOK
  <1>1. CASE CheckPrerequisites(m)
    BY <1>1, MovesFrame DEF CheckPrerequisites
  <1>2. ASSUME NEW r \in Replies, AddFinalizer(m, r) PROVE \A n \in Machines : Moves(n)
    <2> DEFINE o == SpecPatched(km[m], before[m], obj[m])
    <2>1. o \in Objects /\ o.ready = km[m].ready
      BY <1>0, SpecPatchedType DEF SpecPatched, Objects
    <2>2. /\ before[m]' \in {before[m], NoObject}
          /\ \A n \in Machines \ {m} : before[n]' = before[n]
      BY <1>0, <1>2 DEF AddFinalizer, Return, TypeOK
    <2>3. Admitted(km[m], o) => Successor(km[m], o)
      BY <1>2, PatchSucceeds DEF AddFinalizer
    <2>4. Write(m, o, r) /\ cache' = cache /\ creates' = creates
      BY <1>2 DEF AddFinalizer
    <2> QED
      BY <1>0, <2>1, <2>2, <2>3, <2>4, WriteMoves
  <1>3. ASSUME NEW r \in Replies,
               \/ GenerateClient(m, r) \/ DeletePod(m, r) \/ DeleteSecret(m, r)
               \/ CreateSecret(m, r) \/ CreatePod(m, r) \/ PatchMachine(m, r)
        PROVE  \A n \in Machines : Moves(n)
    BY <1>3, MovesFrame
    DEF GenerateClient, DeletePod, DeleteSecret, CreateSecret, CreatePod, PatchMachine
  <1>4. ASSUME NEW r \in Replies, PatchSpec(m, r) PROVE \A n \in Machines : Moves(n)
    <2> DEFINE o == SpecPatched(km[m], before[m], obj[m])
    <2>1. o \in Objects /\ o.ready = km[m].ready
      BY <1>0, SpecPatchedType DEF SpecPatched, Objects
    <2>2. Admitted(km[m], o) => Successor(km[m], o)
      BY <1>4, PatchSucceeds DEF PatchSpec
    <2>3. CASE UNCHANGED apiVars
      BY <1>4, <2>3, MovesFrame DEF PatchSpec
    <2>4. CASE Write(m, o, r)
      <3>1. cache' = cache /\ creates' = creates /\ before' = before
        BY <1>4 DEF PatchSpec
      <3> QED
        BY <1>0, <2>1, <2>2, <2>4, <3>1, WriteMoves
    <2> QED
      BY <1>4, <2>3, <2>4 DEF PatchSpec
  <1>5. ASSUME NEW r \in Replies, PatchStatus(m, r) PROVE \A n \in Machines : Moves(n)
    <2> DEFINE o == StatusPatched(km[m], before[m], obj[m])
    <2>1. /\ o \in Objects /\ o.phase = km[m].phase /\ o.finalizers = km[m].finalizers
          /\ o.providerID = km[m].providerID
          /\ o.ready = IF obj[m].ready = before[m].ready THEN km[m].ready ELSE obj[m].ready
      BY <1>0, StatusPatchedType DEF StatusPatched, Objects
    <2>2. o.ready => km[m].ready \/ Readies(m)
      BY <1>0, <2>1 DEF Readies, Objects
    <2>3. Admitted(km[m], o) => Successor(km[m], o)
      BY <2>1, PlainSuccessor DEF Admitted
    <2>4. /\ cache' = cache /\ creates' = creates /\ pc[m] = "patchStatus"
          /\ before[m]' \in {before[m], NoObject}
          /\ \A n \in Machines \ {m} : before[n]' = before[n]
      BY <1>0, <1>5 DEF PatchStatus, Return, TypeOK
    <2>5. CASE UNCHANGED apiVars
      BY <2>4, <2>5, MovesFrame
    <2>6. CASE Write(m, o, r)
      BY <1>0, <2>1, <2>2, <2>3, <2>4, <2>6, WriteMoves
    <2> QED
      BY <1>5, <2>5, <2>6 DEF PatchStatus
  <1> QED
    BY <1>1, <1>2, <1>3, <1>4, <1>5 DEF Continue

\* Every step.
LEMMA NextMoves ==
  ASSUME Known, [Next]_vars
  PROVE  \A n \in Machines : Moves(n)
  <1> USE DEF apiVars, localVars, workVars, hostVars, capiVars, boundVars
  <1>0. TypeOK
    BY DEF Known
  <1>1. ASSUME NEW m \in Machines, Start(m) PROVE \A n \in Machines : Moves(n)
    <2>1. CASE FetchNothing(m)
      BY <2>1, MovesFrame DEF FetchNothing
    <2>2. CASE FetchFails(m)
      BY <2>2, MovesFrame DEF FetchFails, vars
    <2>3. CASE Fetch(m)
      <3>1. \A n \in Machines : before[n]' \in {before[n], cache[n]}
        BY <1>0, <2>3 DEF Fetch, TypeOK
      <3> QED
        BY <2>3, <3>1, MovesFrame DEF Fetch
    <2> QED
      BY <1>1, <2>1, <2>2, <2>3 DEF Start
  <1>2. ASSUME NEW m \in Machines, Deliver(m) PROVE \A n \in Machines : Moves(n)
    <2>1. watch[m] \in Seq(Objects) /\ watch[m] # <<>>
      BY <1>0, <1>2 DEF TypeOK, Deliver
    <2>2. cache[m]' = Head(watch[m]) /\ watch[m]' = Tail(watch[m])
      BY <1>0, <1>2 DEF TypeOK, Deliver
    <2>3. \A i \in 1..Len(watch[m]') : /\ i + 1 \in 1..Len(watch[m])
                                       /\ watch[m]'[i] = watch[m][i + 1]
      BY <2>1, <2>2
    <2>4. 1 \in 1..Len(watch[m]) /\ cache[m]' = watch[m][1]
      BY <2>1, <2>2
    <2>5. km' = km /\ before' = before /\ creates' = creates
      BY <1>2 DEF Deliver
    <2>6. Moves(m)
      BY <2>3, <2>4, <2>5 DEF Moves, Shown
    <2>7. ASSUME NEW n \in Machines \ {m} PROVE Moves(n)
      BY <1>0, <1>2, <2>5, DeliverHistory, MovesFrame
    <2> QED
      BY <2>6, <2>7
  <1>3. ASSUME NEW m \in Machines, Resync(m) PROVE \A n \in Machines : Moves(n)
    BY <1>3, MovesFrame DEF Resync
  <1>4. ASSUME NEW s \in Slots, PodGone(s) PROVE \A n \in Machines : Moves(n)
    BY <1>4, MovesFrame DEF PodGone
  <1>5. CASE ClusterEvent \/ ClusterSecretsReady \/ UNCHANGED vars
    BY <1>5, MovesFrame DEF ClusterEvent, ClusterSecretsReady, vars
  <1>6. CASE CrashRestart
    <2> SUFFICES ASSUME NEW n \in Machines PROVE Moves(n)
      OBVIOUS
    <2>1. km' = km /\ before[n]' = NoObject /\ creates' = creates
      BY <1>6 DEF CrashRestart
    <2>2. CASE cache' = km /\ watch' = [m \in Machines |-> <<>>]
      <3>1. watch[n]' = <<>> /\ cache[n]' = km[n]
        BY <2>2
      <3> QED
        BY <2>1, <3>1 DEF Moves, Shown
    <2>3. CASE UNCHANGED <<cache, watch>>
      BY <2>1, <2>3, MovesFrame
    <2> QED
      BY <1>6, <2>2, <2>3 DEF CrashRestart
  <1> QED
    BY <1>1, <1>2, <1>3, <1>4, <1>5, <1>6, ContinueMoves, EnvironmentMoves DEF Next

-----------------------------------------------------------------------------
(***************************************************************************)
(* What a step does to the reconciles.                                     *)
(***************************************************************************)

\* The step of another machine, of the environment or of the manager leaves
\* the reconcile of n where it is, or ends it.
LEMMA Reconciles ==
  ASSUME TypeOK, [Next]_vars, NEW n \in Machines
  PROVE  Still(n) \/ Reset(n) \/ Fetch(n) \/ Continue(n)
  <1> USE DEF apiVars, localVars, workVars, hostVars, capiVars, boundVars
  <1>1. ASSUME NEW m \in Machines, Start(m)
        PROVE  Still(n) \/ Fetch(n)
    BY <1>1 DEF Start, FetchNothing, FetchFails, Fetch, Goto, vars, Still, TypeOK
  <1>2. ASSUME NEW m \in Machines, Continue(m)
        PROVE  Still(n) \/ Continue(n)
    <2> SUFFICES ASSUME n # m PROVE Still(n)
      BY <1>2
    <2>1. CASE CheckPrerequisites(m)
      BY <2>1 DEF CheckPrerequisites, Goto, Finish, Still, TypeOK
    <2>2. ASSUME NEW r \in Replies, AddFinalizer(m, r) PROVE Still(n)
      BY <2>2 DEF AddFinalizer, Goto, Return, Still, TypeOK
    <2>3. ASSUME NEW r \in Replies,
                 \/ GenerateClient(m, r) \/ DeletePod(m, r) \/ DeleteSecret(m, r)
                 \/ CreateSecret(m, r) \/ CreatePod(m, r)
          PROVE  Still(n)
      BY <2>3 DEF GenerateClient, DeletePod, DeleteSecret, CreateSecret, CreatePod,
                  Goto, Finish, Still, TypeOK
    <2>4. ASSUME NEW r \in Replies,
                 PatchMachine(m, r) \/ PatchSpec(m, r) \/ PatchStatus(m, r)
          PROVE  Still(n)
      BY <2>4 DEF PatchMachine, PatchSpec, PatchStatus, Goto, Return, Still, TypeOK
    <2> QED
      BY <1>2, <2>1, <2>2, <2>3, <2>4 DEF Continue
  <1>3. ASSUME NEW m \in Machines, Deliver(m) \/ Resync(m) \/ Environment(m)
        PROVE  Still(n)
    BY <1>3 DEF Deliver, Resync, Environment, Create, Adopt, Delete, DropForeign, SetPaused,
                BootstrapReady, FixVersion, OwnerLost, EditHollowSecret, Still
  <1>4. ASSUME NEW s \in Slots, PodGone(s) PROVE Still(n)
    BY <1>4 DEF PodGone, Still
  <1>5. CASE ClusterEvent \/ ClusterSecretsReady \/ UNCHANGED vars
    BY <1>5 DEF ClusterEvent, ClusterSecretsReady, vars, Still
  <1>6. CASE CrashRestart
    BY <1>6 DEF CrashRestart, Reset
  <1> QED
    BY <1>1, <1>2, <1>3, <1>4, <1>5, <1>6 DEF Next

\* The calls of a reconcile that has not finished say what CopyInv says.
LEMMA CopyNext ==
  ASSUME Known, [Next]_vars, NEW n \in Machines
  PROVE  CopyInv(n)'
  <1> USE DEF apiVars, localVars, workVars, hostVars, capiVars, boundVars
  <1>0. /\ TypeOK /\ CopyInv(n) /\ LocalInv(n)
        /\ before[n] \in Objects /\ obj[n] \in Objects /\ cache[n] \in Objects
    BY DEF Known, VersionInv, CleanupInv, TypeOK
  <1>1. CASE Still(n)
    BY <1>0, <1>1 DEF Still, CopyInv
  <1>2. CASE Reset(n)
    BY <1>2 DEF Reset, CopyInv
  <1>3. CASE Fetch(n)
    BY <1>0, <1>3 DEF Fetch, WithFinalizer, Objects, CopyInv, TypeOK
  <1>4. CASE CheckPrerequisites(n)
    BY <1>0, <1>4 DEF CheckPrerequisites, CopyInv
  <1>5. ASSUME NEW r \in Replies, AddFinalizer(n, r) PROVE CopyInv(n)'
    BY <1>0, <1>5 DEF AddFinalizer, Return, CopyInv, TypeOK
  <1>6. ASSUME NEW r \in Replies,
               GenerateClient(n, r) \/ DeletePod(n, r) \/ CreateSecret(n, r)
        PROVE  CopyInv(n)'
    BY <1>0, <1>6 DEF GenerateClient, DeletePod, CreateSecret, CopyInv
  <1>7. ASSUME NEW r \in Replies, DeleteSecret(n, r) PROVE CopyInv(n)'
    <2>1. obj[n]' \in {obj[n], WithoutFinalizer(obj[n])} /\ before[n]' = before[n]
      BY <1>0, <1>7 DEF DeleteSecret, TypeOK
    <2>2. obj[n].ready = before[n].ready /\ obj[n].providerID = before[n].providerID
      BY <1>0, <1>7 DEF CopyInv, DeleteSecret
    <2> QED
      BY <1>0, <2>1, <2>2 DEF WithoutFinalizer, Objects, CopyInv
  <1>8. ASSUME NEW r \in Replies, CreatePod(n, r) PROVE CopyInv(n)'
    <2>1. /\ before[n]' = before[n]
          /\ \/ obj[n]' = obj[n]
             \/ obj[n]' = Provisioned(obj[n]) /\ pc[n]' = "patchMachine"
      BY <1>0, <1>8 DEF CreatePod, Goto, TypeOK
    <2>2. /\ obj[n].ready = before[n].ready /\ obj[n].providerID = before[n].providerID
          /\ obj[n].phase = "live"
      BY <1>0, <1>8 DEF CopyInv, LocalInv, CreateSteps, CreatePod
    <2> QED
      BY <1>0, <2>1, <2>2 DEF Provisioned, Objects, CopyInv
  <1>9. ASSUME NEW r \in Replies, PatchMachine(n, r) \/ PatchSpec(n, r)
        PROVE  CopyInv(n)'
    BY <1>0, <1>9 DEF PatchMachine, PatchSpec, Goto, CopyInv, TypeOK
  <1>10. ASSUME NEW r \in Replies, PatchStatus(n, r) PROVE CopyInv(n)'
    BY <1>0, <1>10 DEF PatchStatus, Return, CopyInv, TypeOK
  <1> QED
    BY <1>0, <1>1, <1>2, <1>3, <1>4, <1>5, <1>6, <1>7, <1>8, <1>9, <1>10, Reconciles DEF Continue

\* The versions of a name that is used once stay what VersionInv says.
LEMMA VersionNext ==
  ASSUME Known, TypeOK', [Next]_vars, MaxCreates <= 1, NEW n \in Machines
  PROVE  VersionInv(n)'
  <1>0. /\ VersionInv(n) /\ km[n] \in Shown(n) /\ km[n]' \in Objects /\ km[n] \in Objects
        /\ before[n]' \in Shown(n)' /\ creates[n] \in Nat
    BY StoredIsShown DEF Known, CleanupInv, TypeOK, Shown
  <1>1. CopyInv(n)'
    BY CopyNext
  <1>2. CASE Create(n)
    <2>1. creates[n] = 0 /\ creates[n]' = 1
      BY <1>0, <1>2, MachineAssumption DEF Create, Known, TypeOK
    <2>2. PICK e \in Options : Store(n, [NoObject EXCEPT !.phase = "live", !.extended = e])
      BY <1>2 DEF Create
    <2> DEFINE o == [NoObject EXCEPT !.phase = "live", !.extended = e]
    <2>3. o \in Objects /\ o.phase = "live" /\ o.finalizers = {} /\ ~o.providerID
      BY MachineAssumption DEF NoObject, Objects
    <2>4. cache' = cache /\ before' = before
      BY <1>2 DEF Create, workVars, localVars
    <2>5. km[n]' = o
      BY <2>2, <2>3, <2>4, StoreHistory DEF Known
    <2>6. Shown(n)' \subseteq {o, NoObject}
      BY <1>0, <2>1, <2>2, <2>3, <2>4, ShownStore DEF Known, VersionInv
    <2> HIDE DEF o
    <2>7. NoObject.phase = "none" /\ ~NoObject.providerID
      BY DEF NoObject
    <2> QED
      BY <1>1, <2>1, <2>3, <2>5, <2>6, <2>7 DEF VersionInv
  <1>3. CASE ~Create(n)
    <2>1. /\ creates[n]' = creates[n]
          /\ km[n]' = km[n] \/ Successor(km[n], km[n]')
          /\ Shown(n)' \subseteq Shown(n) \union {km[n]', NoObject}
      BY <1>3, NextMoves DEF Moves
    <2>2. creates[n]' = 0 => Shown(n)' = {NoObject} /\ km[n]' = NoObject
      <3> SUFFICES ASSUME creates[n]' = 0 PROVE Shown(n)' = {NoObject} /\ km[n]' = NoObject
        OBVIOUS
      <3>1. Shown(n) = {NoObject} /\ km[n] = NoObject
        BY <1>0, <2>1 DEF VersionInv
      <3>2. km[n]' = NoObject
        BY <2>1, <3>1 DEF Successor, NoObject
      <3> QED
        BY <1>0, <2>1, <3>1, <3>2
    <2>3. ASSUME NEW o \in Shown(n)'
          PROVE  /\ o.phase = "live" => o.finalizers \subseteq {MachineFinalizer}
                 /\ o.phase = "deleting" => /\ km[n]'.phase # "live"
                                            /\ km[n]'.finalizers \subseteq o.finalizers
                 /\ o.providerID => km[n]'.providerID \/ km[n]'.phase = "none"
      <3>1. CASE o = NoObject
        BY <3>1 DEF NoObject
      <3>2. CASE o = km[n]'
        BY <1>0, <2>1, <3>2 DEF VersionInv, Successor, NoObject
      <3>3. CASE o \in Shown(n)
        <4>1. /\ o.phase = "live" => o.finalizers \subseteq {MachineFinalizer}
              /\ o.phase = "deleting" => km[n].phase # "live" /\ km[n].finalizers \subseteq o.finalizers
              /\ o.providerID => km[n].providerID \/ km[n].phase = "none"
          BY <1>0, <3>3 DEF VersionInv
        <4>2. CASE km[n]' = km[n]
          BY <4>1, <4>2
        <4>3. CASE Successor(km[n], km[n]')
          <5>1. km[n].phase \in {"live", "deleting"}
            BY <1>0, <4>3 DEF Successor, Objects
          <5>2. CASE km[n]' = NoObject
            BY <4>1, <5>2 DEF NoObject
          <5> QED
            BY <4>1, <4>3, <5>1, <5>2 DEF Successor
        <4> QED
          BY <2>1, <4>2, <4>3
      <3> QED
        BY <2>1, <3>1, <3>2, <3>3
    <2> QED
      BY <1>1, <2>2, <2>3 DEF VersionInv
  <1> QED
    BY <1>2, <1>3

-----------------------------------------------------------------------------
(***************************************************************************)
(* Provider IDs.                                                           *)
(***************************************************************************)

\* Faults are only counted up, and a Machine does not lose its provider ID.
LEMMA Counters ==
  ASSUME TypeOK, [Next]_vars, NEW n \in Machines
  PROVE  /\ faults' >= faults
         /\ MachineIDMissing(n)' <= MachineIDMissing(n)
  <1> USE DEF apiVars, localVars, workVars, hostVars, capiVars, boundVars
  <1> DEFINE linked == machine[n].exists => machine[n].providerID
  <1>0. faults \in Nat /\ machine \in [Machines -> MachineObjects]
    BY DEF TypeOK
  <1>1. ASSUME NEW m \in Machines, Start(m) \/ Deliver(m) \/ Resync(m)
        PROVE  faults' = faults /\ machine' = machine
    BY <1>1 DEF Start, FetchNothing, FetchFails, Fetch, Deliver, Resync, vars
  <1>2. ASSUME NEW m \in Machines, Continue(m)
        PROVE  faults' >= faults /\ (linked => linked')
    <2>1. CASE CheckPrerequisites(m)
      BY <1>0, <2>1 DEF CheckPrerequisites
    <2>2. ASSUME NEW r \in Replies, Reply(r) PROVE faults' >= faults
      BY <1>0, <2>2 DEF Reply
    <2>3. ASSUME NEW r \in Replies,
                 \/ AddFinalizer(m, r) \/ GenerateClient(m, r) \/ DeletePod(m, r)
                 \/ DeleteSecret(m, r) \/ CreateSecret(m, r) \/ CreatePod(m, r)
                 \/ PatchSpec(m, r) \/ PatchStatus(m, r)
          PROVE  Reply(r) /\ machine' = machine
      BY <2>3 DEF AddFinalizer, GenerateClient, DeletePod, DeleteSecret, CreateSecret,
                  CreatePod, PatchSpec, PatchStatus
    <2>4. ASSUME NEW r \in Replies, PatchMachine(m, r)
          PROVE  Reply(r) /\ (linked => linked')
      BY <1>0, <2>4 DEF PatchMachine, MachineObjects
    <2> QED
      BY <1>2, <2>1, <2>2, <2>3, <2>4 DEF Continue
  <1>3. ASSUME NEW m \in Machines, Environment(m)
        PROVE  faults' = faults /\ (linked => linked')
    <2>1. CASE \/ Create(m) \/ Adopt(m) \/ DropForeign(m) \/ EditHollowSecret(m)
               \/ \E added \in SUBSET {ForeignFinalizer} : Delete(m, added)
               \/ \E paused \in BOOLEAN : SetPaused(m, paused)
      BY <2>1 DEF Create, Adopt, Delete, DropForeign, SetPaused, EditHollowSecret
    <2>2. CASE BootstrapReady(m) \/ FixVersion(m) \/ OwnerLost(m)
      BY <1>0, <2>2 DEF BootstrapReady, FixVersion, OwnerLost, MachineObjects
    <2> QED
      BY <1>3, <2>1, <2>2 DEF Environment
  <1>4. ASSUME NEW s \in Slots, PodGone(s) PROVE faults' = faults /\ machine' = machine
    BY <1>4 DEF PodGone
  <1>5. ASSUME ClusterEvent \/ ClusterSecretsReady \/ CrashRestart \/ UNCHANGED vars
        PROVE  faults' = faults /\ machine' = machine
    BY <1>5 DEF ClusterEvent, ClusterSecretsReady, CrashRestart, vars
  <1>6. faults' >= faults /\ (linked => linked')
    BY <1>0, <1>1, <1>2, <1>3, <1>4, <1>5 DEF Next
  <1> QED
    BY <1>6 DEF MachineIDMissing

\* An object does not lose its provider ID before it is gone.
LEMMA OwnIDKept ==
  ASSUME NEW n \in Machines, Moves(n), ~Create(n)
  PROVE  OwnIDMissing(n)' <= OwnIDMissing(n)
  BY DEF Moves, Successor, OwnIDMissing, NoObject

\* When the patch of the spec was answered, the object has its provider ID.
LEMMA PatchSpecSetsID ==
  ASSUME Known, NEW n \in Machines, PatchSpec(n, "ok"), Readies(n)
  PROVE  OwnIDMissing(n)' = 0
  <1> DEFINE k == km[n]
             b == before[n]
             a == obj[n]
             o == SpecPatched(k, b, a)
  <1>1. /\ TypeOK /\ k \in Objects /\ b \in Objects /\ a \in Objects /\ pc[n] = "patchSpec"
        /\ VersionInv(n) /\ LocalInv(n) /\ HistoryInv(n)
    BY DEF Known, TypeOK, PatchSpec, CleanupInv
  <1>2. a.phase = "live" /\ b.phase = "live" /\ a.providerID
    BY <1>1 DEF VersionInv, CopyInv, Readies, LocalInv
  <1>3. k.phase # "none" /\ MachineFinalizer \in k.finalizers
    BY <1>1, <1>2 DEF HistoryInv, HeldDeleting, Held
  <1>4. b \in Shown(n)
    BY DEF Shown
  <1>5. CASE b.providerID
    <2>1. k.providerID
      BY <1>1, <1>3, <1>4, <1>5 DEF VersionInv
    <2>2. ~Create(n)
      BY <1>3 DEF Create
    <2>3. Continue(n)
      BY DEF Continue, Replies
    <2>4. OwnIDMissing(n)' <= OwnIDMissing(n)
      BY <2>2, <2>3, ContinueMoves, OwnIDKept
    <2> QED
      BY <2>1, <2>4 DEF OwnIDMissing
  <1>6. CASE ~b.providerID
    <2>1. /\ o \in Objects /\ o.phase = k.phase
          /\ o.providerID = IF a.providerID = b.providerID THEN k.providerID ELSE a.providerID
          /\ o.finalizers = IF a.finalizers = b.finalizers THEN k.finalizers ELSE a.finalizers
      BY <1>1, SpecPatchedType DEF SpecPatched, Objects
    <2>2. a.finalizers \subseteq {MachineFinalizer}
      <3>1. b.finalizers \subseteq {MachineFinalizer}
        BY <1>1, <1>2, <1>4 DEF VersionInv
      <3> QED
        BY <1>1, <1>2, <3>1 DEF LocalInv
    <2>3. Admitted(k, o)
      BY <1>3, <2>1, <2>2 DEF Admitted
    <2>4. HasSpecPatch(b, a)
      BY <1>2, <1>6 DEF HasSpecPatch
    <2>5. Store(n, Collected(o))
      BY <2>3, <2>4 DEF PatchSpec, Write
    <2>6. km[n]' = Collected(o)
      BY <1>1, <2>5 DEF Store, TypeOK
    <2>7. o.providerID
      BY <1>1, <1>2, <1>6, <2>1 DEF Objects
    <2> HIDE DEF o
    <2> QED
      BY <2>6, <2>7 DEF Collected, OwnIDMissing, NoObject
  <1> QED
    BY <1>5, <1>6

\* Each missing provider ID has cost a fault.
LEMMA ProviderNext ==
  ASSUME Known, TypeOK', [Next]_vars, MaxCreates <= 1, NEW n \in Machines, ProviderInv(n)
  PROVE  ProviderInv(n)'
  <1> USE DEF apiVars, localVars, workVars, hostVars, capiVars, boundVars
  <1>0. /\ TypeOK /\ VersionInv(n) /\ LocalInv(n) /\ CopyInv(n) /\ Moves(n)
        /\ faults \in Nat /\ faults' \in Nat /\ creates[n] \in Nat
    BY NextMoves DEF Known, CleanupInv, TypeOK, VersionInv
  <1>1. faults' >= faults /\ MachineIDMissing(n)' <= MachineIDMissing(n)
    BY <1>0, Counters
  <1>2. /\ MachineIDMissing(n) \in {0, 1} /\ MachineIDMissing(n)' \in {0, 1}
        /\ OwnIDMissing(n) \in {0, 1} /\ OwnIDMissing(n)' \in {0, 1}
    BY DEF MachineIDMissing, OwnIDMissing
  <1>3. CASE Create(n)
    <2>1. creates[n] = 0
      BY <1>0, <1>3, MachineAssumption DEF Create
    <2>2. pc[n] = "idle"
      BY <1>0, <2>1 DEF VersionInv, Shown, LocalInv, NoObject
    <2>3. pc[n]' = "idle"
      BY <1>3, <2>2 DEF Create
    <2>4. PICK e \in Options : Store(n, [NoObject EXCEPT !.phase = "live", !.extended = e])
      BY <1>3 DEF Create
    <2>5. km[n]' = [NoObject EXCEPT !.phase = "live", !.extended = e]
      BY <1>0, <2>4 DEF Store, TypeOK
    <2>6. ~km[n]'.ready
      BY <2>5 DEF NoObject
    <2> QED
      BY <2>3, <2>6 DEF ProviderInv
  <1>4. CASE ~Create(n)
    <2>1. OwnIDMissing(n)' <= OwnIDMissing(n)
      BY <1>0, <1>4, OwnIDKept
    <2>2. km[n]'.ready => /\ faults' >= OwnIDMissing(n)' + MachineIDMissing(n)'
                          /\ km[n]'.phase # "none"
      <3> SUFFICES ASSUME km[n]'.ready
                   PROVE  /\ faults' >= OwnIDMissing(n)' + MachineIDMissing(n)'
                          /\ km[n]'.phase # "none"
        OBVIOUS
      <3>1. km[n].ready \/ (pc[n] = "patchStatus" /\ Readies(n) /\ km[n].phase # "none")
        BY <1>0, <1>4 DEF Moves
      <3>2. faults >= OwnIDMissing(n) + MachineIDMissing(n) /\ km[n].phase # "none"
        BY <3>1 DEF ProviderInv
      <3>3. km[n]'.phase # "none"
        BY <1>0, <1>4, <3>2 DEF Moves, Successor, NoObject
      <3> QED
        BY <1>0, <1>1, <1>2, <2>1, <3>2, <3>3
    <2>3. /\ pc[n]' = "patchSpec" /\ Readies(n)' => faults' >= MachineIDMissing(n)'
          /\ pc[n]' = "patchStatus" /\ Readies(n)' =>
                 faults' >= OwnIDMissing(n)' + MachineIDMissing(n)'
      <3> DEFINE goal == /\ pc[n]' = "patchSpec" /\ Readies(n)' => faults' >= MachineIDMissing(n)'
                         /\ pc[n]' = "patchStatus" /\ Readies(n)' =>
                                faults' >= OwnIDMissing(n)' + MachineIDMissing(n)'
      <3>1. CASE Still(n)
        <4>1. pc[n]' = pc[n] /\ (Readies(n)' <=> Readies(n))
          BY <3>1 DEF Still, Readies
        <4> QED
          BY <1>0, <1>1, <1>2, <2>1, <4>1 DEF ProviderInv
      <3>2. CASE Reset(n)
        BY <3>2 DEF Reset
      <3>3. CASE Fetch(n)
        BY <1>0, <3>3 DEF Fetch, Goto, TypeOK
      <3>4. CASE CheckPrerequisites(n)
        <4>1. pc[n]' # "patchStatus" /\ ~Readies(n)'
          BY <1>0, <3>4 DEF CheckPrerequisites, Finish, Goto, TypeOK, CopyInv, Readies
        <4> QED
          BY <4>1
      <3>5. ASSUME NEW r \in Replies, AddFinalizer(n, r) PROVE goal
        BY <1>0, <3>5 DEF AddFinalizer, Return, Goto, TypeOK
      <3>6. ASSUME NEW r \in Replies,
                   GenerateClient(n, r) \/ DeletePod(n, r) \/ CreateSecret(n, r)
            PROVE  goal
        <4>1. pc[n]' # "patchStatus" /\ ~Readies(n)'
          BY <1>0, <3>6 DEF GenerateClient, DeletePod, CreateSecret, Finish, Goto, TypeOK,
                            CopyInv, Readies
        <4> QED
          BY <4>1
      <3>7. ASSUME NEW r \in Replies, DeleteSecret(n, r) PROVE goal
        <4>1. obj[n]' \in {obj[n], WithoutFinalizer(obj[n])} /\ before[n]' = before[n]
          BY <1>0, <3>7 DEF DeleteSecret, TypeOK
        <4>2. obj[n].ready = before[n].ready /\ pc[n]' = "patchSpec" /\ obj[n] \in Objects
          BY <1>0, <3>7 DEF CopyInv, DeleteSecret, Finish, Goto, TypeOK
        <4> QED
          BY <4>1, <4>2 DEF WithoutFinalizer, Objects, Readies
      <3>8. ASSUME NEW r \in Replies, CreatePod(n, r) PROVE goal
        <4>1. obj[n].ready = before[n].ready
          BY <1>0, <3>8 DEF CopyInv, CreatePod
        <4>2. /\ before' = before
              /\ \/ pc[n]' = "patchSpec" /\ obj' = obj
                 \/ pc[n]' = "patchMachine"
          BY <1>0, <3>8 DEF CreatePod, Finish, Goto, TypeOK
        <4> QED
          BY <4>1, <4>2 DEF Readies
      <3>9. ASSUME NEW r \in Replies, PatchMachine(n, r) PROVE goal
        <4>1. pc[n]' = "patchSpec"
          BY <1>0, <3>9 DEF PatchMachine, Goto, TypeOK
        <4>2. r = "refused" => faults' >= 1
          BY <1>0, <3>9 DEF PatchMachine, Reply
        <4>3. r # "refused" => MachineIDMissing(n)' = 0
          <5>1. machine[n] \in MachineObjects
            BY <1>0 DEF TypeOK
          <5>2. CASE ~machine[n].exists \/ machine[n].providerID
            BY <3>9, <5>1, <5>2 DEF PatchMachine, MachineIDMissing
          <5>3. CASE r # "refused" /\ machine[n].exists /\ ~machine[n].providerID
            <6>1. machine' = [machine EXCEPT ![n].providerID = TRUE]
              BY <3>9, <5>3 DEF PatchMachine
            <6>2. machine[n]'.providerID
              BY <1>0, <5>1, <6>1 DEF TypeOK, MachineObjects
            <6> QED
              BY <6>2 DEF MachineIDMissing
          <5> QED
            BY <5>2, <5>3
        <4> QED
          BY <1>0, <1>2, <4>1, <4>2, <4>3
      <3>10. ASSUME NEW r \in Replies, PatchSpec(n, r) PROVE goal
        <4>1. pc[n] = "patchSpec" /\ pc[n]' = "patchStatus" /\ (Readies(n)' <=> Readies(n))
          BY <1>0, <3>10 DEF PatchSpec, Goto, TypeOK, Readies
        <4>2. r # "ok" => faults' = faults + 1
          BY <3>10 DEF PatchSpec, Reply
        <4>3. r = "ok" /\ Readies(n) => OwnIDMissing(n)' = 0
          BY <3>10, PatchSpecSetsID
        <4>4. Readies(n) => faults >= MachineIDMissing(n)
          BY <4>1 DEF ProviderInv
        <4> QED
          BY <1>0, <1>1, <1>2, <4>1, <4>2, <4>3, <4>4
      <3>11. ASSUME NEW r \in Replies, PatchStatus(n, r) PROVE goal
        BY <1>0, <3>11 DEF PatchStatus, Return, Goto, TypeOK
      <3> QED
        BY <1>0, <3>1, <3>2, <3>3, <3>4, <3>5, <3>6, <3>7, <3>8, <3>9, <3>10, <3>11,
           Reconciles DEF Continue
    <2> QED
      BY <2>2, <2>3 DEF ProviderInv
  <1> QED
    BY <1>3, <1>4

-----------------------------------------------------------------------------
(***************************************************************************)
(* Ready.                                                                  *)
(***************************************************************************)

\* The place of a machine is a slot.
LEMMA PlaceIsSlot ==
  ASSUME NEW m \in Machines
  PROVE  Place(m) \in Slots
  BY MachineAssumption DEF Place, Slots

\* In its place a machine's own reconcile and the kubelet act, nobody else.
LEMMA PodMoves ==
  ASSUME TypeOK, CleanupInv, Apart, [Next]_vars, NEW n \in Machines
  PROVE  \/ pods[Place(n)]' = pods[Place(n)]
         \/ \E r \in Replies : CreatePod(n, r) \/ DeletePod(n, r)
         \/ pods[Place(n)].phase = "terminating"
  <1> USE DEF apiVars, localVars, workVars, hostVars, capiVars, boundVars
  <1>0. Place(n) \in Slots
    BY PlaceIsSlot
  <1>1. ASSUME NEW m \in Machines, Start(m) \/ Deliver(m) \/ Resync(m) \/ Environment(m)
        PROVE  pods' = pods
    BY <1>1 DEF Start, FetchNothing, FetchFails, Fetch, vars, Deliver, Resync, Environment,
                Create, Adopt, Delete, DropForeign, SetPaused, BootstrapReady, FixVersion,
                OwnerLost, EditHollowSecret
  <1>2. ASSUME NEW m \in Machines, Continue(m)
        PROVE  \/ pods[Place(n)]' = pods[Place(n)]
               \/ \E r \in Replies : CreatePod(n, r) \/ DeletePod(n, r)
    <2>1. ASSUME NEW r \in Replies, CreatePod(m, r) \/ DeletePod(m, r), n # m
          PROVE  pods[Place(n)]' = pods[Place(n)]
      <3>1. pc[m] \in DeleteSteps \union CreateSteps
        BY <2>1 DEF CreatePod, DeletePod, DeleteSteps, CreateSteps
      <3>2. Slot(m) = Place(m) /\ Place(m) # Place(n)
        BY <2>1, <3>1, OwnSlot DEF Place, Apart
      <3> QED
        BY <1>0, <2>1, <3>2 DEF CreatePod, DeletePod, TypeOK
    <2>2. CASE CheckPrerequisites(m)
      BY <2>2 DEF CheckPrerequisites
    <2>3. ASSUME NEW r \in Replies,
                 \/ AddFinalizer(m, r) \/ GenerateClient(m, r) \/ DeleteSecret(m, r)
                 \/ CreateSecret(m, r) \/ PatchMachine(m, r)
                 \/ PatchSpec(m, r) \/ PatchStatus(m, r)
          PROVE  pods' = pods
      BY <2>3 DEF AddFinalizer, GenerateClient, DeleteSecret, CreateSecret, PatchMachine,
                  PatchSpec, PatchStatus
    <2> QED
      BY <1>2, <2>1, <2>2, <2>3 DEF Continue
  <1>3. ASSUME NEW s \in Slots, PodGone(s)
        PROVE  \/ pods[Place(n)]' = pods[Place(n)]
               \/ pods[Place(n)].phase = "terminating"
    BY <1>0, <1>3 DEF PodGone, TypeOK
  <1>4. ASSUME ClusterEvent \/ ClusterSecretsReady \/ CrashRestart \/ UNCHANGED vars
        PROVE  pods' = pods
    BY <1>4 DEF ClusterEvent, ClusterSecretsReady, CrashRestart, vars
  <1> QED
    BY <1>1, <1>2, <1>3, <1>4 DEF Next

\* What CreatePod and DeletePod leave in the place of the machine.
LEMMA OwnPod ==
  ASSUME TypeOK, CleanupInv, NEW n \in Machines, NEW r \in Replies,
         CreatePod(n, r) \/ DeletePod(n, r)
  PROVE  /\ pods[Place(n)].phase # "none" => pods[Place(n)]'.phase # "none"
         /\ pods[Place(n)].phase = "none" => pods[Place(n)]'.phase \in {"none", "running"}
         /\ CreatePod(n, r) /\ r # "refused" => pods[Place(n)]'.phase # "none"
         /\ CreatePod(n, r) => pods[Place(n)]' = pods[Place(n)] \/ pods[Place(n)]'.phase = "running"
  <1>1. pc[n] \in DeleteSteps \union CreateSteps
    BY DEF CreatePod, DeletePod, DeleteSteps, CreateSteps
  <1>2. Slot(n) = Place(n) /\ Place(n) \in Slots /\ pods[Place(n)] \in Pods
    BY <1>1, OwnSlot DEF Place, TypeOK
  <1>3. CASE CreatePod(n, r)
    <2>1. \/ pods' = pods /\ (r = "refused" \/ pods[Place(n)].phase # "none")
          \/ pods' = [pods EXCEPT ![Place(n)] = [phase |-> "running", by |-> n]]
      BY <1>2, <1>3 DEF CreatePod
    <2>2. \/ pods[Place(n)]' = pods[Place(n)] /\ (r = "refused" \/ pods[Place(n)].phase # "none")
          \/ pods[Place(n)]' = [phase |-> "running", by |-> n]
      BY <1>2, <2>1 DEF TypeOK
    <2>3. ~DeletePod(n, r)
      BY <1>3 DEF CreatePod, DeletePod
    <2> QED
      BY <2>2, <2>3
  <1>4. CASE DeletePod(n, r)
    <2>1. pods[Place(n)]' = pods[Place(n)] \/ pods[Place(n)]' = Terminated(pods[Place(n)])
      BY <1>2, <1>4 DEF DeletePod, TypeOK
    <2>2. ~CreatePod(n, r)
      BY <1>4 DEF CreatePod, DeletePod
    <2> QED
      BY <1>2, <2>1, <2>2 DEF Terminated, Pods
  <1> QED
    BY <1>3, <1>4

\* A reconcile makes its machine ready when it has created the pod.
LEMMA ReadiesStep ==
  ASSUME Known, [Next]_vars, NEW n \in Machines, Readies(n)'
  PROVE  Readies(n) \/ pods[Place(n)]'.phase # "none"
  <1> USE DEF apiVars, localVars, workVars, hostVars, capiVars, boundVars
  <1>0. /\ TypeOK /\ CleanupInv /\ before[n] \in Objects /\ obj[n] \in Objects
        /\ cache[n] \in Objects
    BY DEF Known, TypeOK
  <1>1. CASE Still(n)
    BY <1>1 DEF Still, Readies
  <1>2. CASE Reset(n)
    BY <1>2 DEF Reset, Readies
  <1>3. CASE Fetch(n)
    BY <1>0, <1>3 DEF Fetch, WithFinalizer, Objects, Readies, TypeOK
  <1>4. CASE CheckPrerequisites(n)
    BY <1>4 DEF CheckPrerequisites, Readies
  <1>5. ASSUME NEW r \in Replies, AddFinalizer(n, r) PROVE Readies(n)
    BY <1>0, <1>5 DEF AddFinalizer, Return, Readies, TypeOK, NoObject
  <1>6. ASSUME NEW r \in Replies,
               \/ GenerateClient(n, r) \/ DeletePod(n, r) \/ CreateSecret(n, r)
               \/ PatchMachine(n, r) \/ PatchSpec(n, r)
        PROVE  Readies(n)
    BY <1>6 DEF GenerateClient, DeletePod, CreateSecret, PatchMachine, PatchSpec, Readies
  <1>7. ASSUME NEW r \in Replies, DeleteSecret(n, r) PROVE Readies(n)
    <2>1. obj[n]' \in {obj[n], WithoutFinalizer(obj[n])} /\ before[n]' = before[n]
      BY <1>0, <1>7 DEF DeleteSecret, TypeOK
    <2> QED
      BY <1>0, <2>1 DEF WithoutFinalizer, Objects, Readies
  <1>8. ASSUME NEW r \in Replies, CreatePod(n, r)
        PROVE  Readies(n) \/ pods[Place(n)]'.phase # "none"
    <2>1. CASE r = "ok"
      BY <1>0, <1>8, <2>1, OwnPod
    <2>2. CASE r # "ok"
      BY <1>8, <2>2 DEF CreatePod, CreateFails, Readies
    <2> QED
      BY <2>1, <2>2
  <1>9. ASSUME NEW r \in Replies, PatchStatus(n, r) PROVE Readies(n)
    BY <1>0, <1>9 DEF PatchStatus, Return, Readies, TypeOK, NoObject
  <1> QED
    BY <1>0, <1>1, <1>2, <1>3, <1>4, <1>5, <1>6, <1>7, <1>8, <1>9, Reconciles DEF Continue

\* The pod of a ready machine is there, and not about to go.
LEMMA ReadyNext ==
  ASSUME Known, Apart, TypeOK', [Next]_vars, MaxCreates <= 1, NEW n \in Machines, ReadyInv(n)
  PROVE  ReadyInv(n)'
  <1> DEFINE p == pods[Place(n)]
  <1>0. /\ TypeOK /\ CleanupInv /\ VersionInv(n) /\ LocalInv(n) /\ CopyInv(n) /\ Moves(n)
        /\ creates[n] \in Nat /\ p \in Pods /\ km[n] \in Objects
        /\ before[n] \in Objects /\ obj[n] \in Objects
    BY NextMoves, PlaceIsSlot DEF Known, CleanupInv, TypeOK, VersionInv
  <1>1. creates[n] = 0 => pc[n] = "idle" /\ ~Readies(n)
    BY <1>0 DEF VersionInv, Shown, LocalInv, CopyInv, Readies, NoObject
  <1>2. creates[n] = 0 => p' = p
    <2> SUFFICES ASSUME creates[n] = 0 PROVE p' = p
      OBVIOUS
    <2>1. \A r \in Replies : ~CreatePod(n, r) /\ ~DeletePod(n, r)
      BY <1>1 DEF CreatePod, DeletePod
    <2>2. p.phase # "terminating"
      BY DEF ReadyInv
    <2> QED
      BY <1>0, <2>1, <2>2, PodMoves
  <1>3. CASE Create(n)
    <2>1. creates[n] = 0 /\ creates[n]' = 1
      BY <1>0, <1>3, MachineAssumption DEF Create, TypeOK
    <2>2. PICK e \in Options : Store(n, [NoObject EXCEPT !.phase = "live", !.extended = e])
      BY <1>3 DEF Create
    <2>3. km[n]' = [NoObject EXCEPT !.phase = "live", !.extended = e]
      BY <1>0, <2>2 DEF Store, TypeOK
    <2>4. ~km[n]'.ready
      BY <2>3 DEF NoObject
    <2>5. ~Readies(n)'
      BY <1>1, <1>3, <2>1 DEF Create, workVars, localVars, Readies
    <2>6. p.phase = "none"
      BY <2>1 DEF ReadyInv
    <2>7. p' = p
      BY <1>2, <2>1
    <2> HIDE DEF p
    <2> QED
      BY <2>1, <2>4, <2>5, <2>6, <2>7 DEF ReadyInv, p
  <1>4. CASE ~Create(n)
    <2>1. /\ creates[n]' = creates[n]
          /\ km[n]'.phase = "live" => km[n].phase = "live"
          /\ km[n]'.ready => km[n].ready \/ Readies(n)
      BY <1>0, <1>4 DEF Moves, Successor, NoObject
    <2>2. creates[n]' = 0 => p'.phase = "none"
      BY <1>2, <2>1 DEF ReadyInv
    <2>3. p'.phase = "terminating" => km[n]'.phase # "live"
      <3> SUFFICES ASSUME p'.phase = "terminating" PROVE km[n].phase # "live"
        BY <2>1
      <3>1. CASE p.phase = "terminating"
        BY <3>1 DEF ReadyInv
      <3>2. CASE p.phase # "terminating"
        <4>1. PICK r \in Replies : DeletePod(n, r)
          BY <1>0, <3>2, PodMoves, OwnPod
        <4>2. before[n].phase = "deleting" /\ before[n] \in Shown(n)
          BY <1>0, <4>1 DEF DeletePod, LocalInv, DeleteSteps, Shown
        <4> QED
          BY <1>0, <4>2 DEF VersionInv
      <3> QED
        BY <3>1, <3>2
    <2>4. Readies(n)' \/ km[n]'.ready => p'.phase # "none" \/ km[n]'.phase # "live"
      <3> SUFFICES ASSUME Readies(n)' \/ km[n]'.ready, p'.phase = "none", km[n]'.phase = "live"
                   PROVE  FALSE
        OBVIOUS
      <3>1. Readies(n) \/ km[n].ready
        BY <2>1, ReadiesStep
      <3>2. p.phase # "none" /\ km[n].phase = "live"
        BY <2>1, <3>1 DEF ReadyInv
      <3>3. p.phase # "terminating"
        BY <3>2 DEF ReadyInv
      <3> QED
        BY <1>0, <3>2, <3>3, PodMoves, OwnPod
    <2> QED
      BY <2>2, <2>3, <2>4 DEF ReadyInv
  <1> QED
    BY <1>3, <1>4

-----------------------------------------------------------------------------
(***************************************************************************)
(* Finalizers of others.                                                   *)
(***************************************************************************)

\* What the garbage collector leaves keeps a finalizer of others.
LEMMA CollectedForeign ==
  ASSUME NEW o, ForeignFinalizer \in o.finalizers
  PROVE  ForeignFinalizer \in Collected(o).finalizers
  BY DEF Collected

\* A write of n with the finalizer of others leaves it on every object.
LEMMA WriteForeign ==
  ASSUME TypeOK, NEW n \in Machines, NEW o, NEW m \in Machines,
         km' = km \/ Store(n, o),
         ForeignFinalizer \in km[m].finalizers,
         m = n => ForeignFinalizer \in o.finalizers \/ km' = km
  PROVE  ForeignFinalizer \in km[m]'.finalizers
  BY DEF TypeOK, Store

\* The patch of the spec only drops the finalizer of others from a copy
\* without our own: the list it sends has all the stored object has left.
LEMMA PatchSpecForeign ==
  ASSUME Known, NEW m \in Machines, NEW r \in Replies, PatchSpec(m, r),
         ForeignFinalizer \in km[m].finalizers, MachineFinalizer \in before[m].finalizers
  PROVE  ForeignFinalizer \in km[m]'.finalizers
  <1> DEFINE k == km[m]
             b == before[m]
             a == obj[m]
             o == SpecPatched(k, b, a)
  <1>1. /\ TypeOK /\ k \in Objects /\ b \in Objects /\ a \in Objects /\ pc[m] = "patchSpec"
        /\ VersionInv(m) /\ LocalInv(m)
    BY DEF Known, TypeOK, PatchSpec, CleanupInv
  <1>2. o.finalizers = IF a.finalizers = b.finalizers THEN k.finalizers ELSE a.finalizers
    BY <1>1 DEF SpecPatched, Objects
  <1>3. ForeignFinalizer \in o.finalizers
    <2>1. CASE a.finalizers = b.finalizers
      BY <1>2, <2>1
    <2>2. CASE a.finalizers # b.finalizers
      <3>1. a.phase = "deleting" /\ a.finalizers = b.finalizers \ {MachineFinalizer}
        BY <1>1, <2>2 DEF LocalInv
      <3>2. b.phase = "deleting" /\ b \in Shown(m)
        BY <1>1, <3>1 DEF LocalInv, Shown
      <3>3. k.finalizers \subseteq b.finalizers
        BY <1>1, <3>2 DEF VersionInv
      <3> QED
        BY <1>2, <2>2, <3>1, <3>3 DEF MachineFinalizer, ForeignFinalizer
    <2> QED
      BY <2>1, <2>2
  <1> HIDE DEF o
  <1>4. ForeignFinalizer \in Collected(o).finalizers
    BY <1>3, CollectedForeign
  <1>5. km' = km \/ Store(m, Collected(o))
    BY DEF PatchSpec, Write, apiVars, o
  <1> QED
    BY <1>1, <1>4, <1>5, WriteForeign

\* No step takes the finalizer of others away but the two that may.
LEMMA ForeignKeptStep ==
  ASSUME Known, Next, MaxCreates <= 1, NEW m \in Machines,
         ForeignFinalizer \in km[m].finalizers, ForeignFinalizer \notin km[m]'.finalizers
  PROVE  DropForeign(m) \/ (MachineFinalizer \notin before[m].finalizers /\ pc[m] # "idle")
  <1> USE DEF apiVars, localVars, workVars, hostVars, capiVars, boundVars
  <1>0. TypeOK /\ LocalInv(m) /\ \A n \in Machines : km[n] \in Objects
    BY DEF Known, CleanupInv, TypeOK
  <1>1. km' # km
    OBVIOUS
  <1>2. ASSUME NEW n \in Machines, Continue(n)
        PROVE  MachineFinalizer \notin before[m].finalizers /\ pc[m] # "idle"
    <2>1. n = m
      <3> SUFFICES ASSUME n # m PROVE FALSE
        OBVIOUS
      <3>1. \A o, r : Write(n, o, r) => km' = km \/ \E p : Store(n, p)
        BY DEF Write
      <3>2. km' = km \/ \E p : Store(n, p)
        BY <1>2, <3>1 DEF Continue, CheckPrerequisites, AddFinalizer, GenerateClient, DeletePod,
             DeleteSecret, CreateSecret, CreatePod, PatchMachine, PatchSpec, PatchStatus
      <3> QED
        BY <1>0, <1>1, <3>2, WriteForeign
    <2>2. ASSUME NEW r \in Replies, AddFinalizer(m, r)
          PROVE  MachineFinalizer \notin before[m].finalizers /\ pc[m] # "idle"
      BY <1>0, <2>2 DEF AddFinalizer, LocalInv
    <2>3. ASSUME NEW r \in Replies, PatchSpec(m, r)
          PROVE  MachineFinalizer \notin before[m].finalizers /\ pc[m] # "idle"
      <3>1. pc[m] # "idle"
        BY <2>3 DEF PatchSpec
      <3> QED
        BY <2>3, <3>1, PatchSpecForeign
    <2>4. ASSUME NEW r \in Replies, PatchStatus(m, r) PROVE FALSE
      <3> DEFINE o == StatusPatched(km[m], before[m], obj[m])
      <3>1. o.finalizers = km[m].finalizers
        BY <1>0 DEF StatusPatched, Objects
      <3> HIDE DEF o
      <3>2. ForeignFinalizer \in Collected(o).finalizers
        BY <3>1, CollectedForeign
      <3>3. km' = km \/ Store(m, Collected(o))
        BY <2>4 DEF PatchStatus, Write, o
      <3> QED
        BY <1>0, <3>2, <3>3, WriteForeign
    <2>5. CASE CheckPrerequisites(m)
      BY <1>1, <2>5 DEF CheckPrerequisites
    <2>6. ASSUME NEW r \in Replies,
                 \/ GenerateClient(m, r) \/ DeletePod(m, r) \/ DeleteSecret(m, r)
                 \/ CreateSecret(m, r) \/ CreatePod(m, r) \/ PatchMachine(m, r)
          PROVE  FALSE
      BY <1>1, <2>6 DEF GenerateClient, DeletePod, DeleteSecret, CreateSecret, CreatePod,
                        PatchMachine
    <2> QED
      BY <1>2, <2>1, <2>2, <2>3, <2>4, <2>5, <2>6 DEF Continue
  <1>3. ASSUME NEW n \in Machines, Environment(n)
        PROVE  DropForeign(m)
    <2>1. n = m
      <3> SUFFICES ASSUME n # m PROVE FALSE
        OBVIOUS
      <3>1. km' = km \/ \E p : Store(n, p)
        BY <1>3 DEF Environment, Create, Adopt, Delete, DropForeign, SetPaused, BootstrapReady,
             FixVersion, OwnerLost, EditHollowSecret
      <3> QED
        BY <1>0, <1>1, <3>1, WriteForeign
    <2>2. CASE Create(m)
      <3>1. creates[m] = 0 /\ VersionInv(m)
        BY <1>0, <2>2, MachineAssumption DEF Create, Known, TypeOK
      <3> QED
        BY <3>1 DEF VersionInv, NoObject
    <2>3. CASE Adopt(m)
      <3>1. ForeignFinalizer \in [km[m] EXCEPT !.owned = TRUE].finalizers
        BY <1>0 DEF Objects
      <3> QED
        BY <1>0, <2>3, <3>1, WriteForeign DEF Adopt
    <2>4. ASSUME NEW added \in SUBSET {ForeignFinalizer}, Delete(m, added) PROVE FALSE
      <3> DEFINE o == [km[m] EXCEPT !.phase = "deleting", !.finalizers = @ \union added]
      <3>1. ForeignFinalizer \in o.finalizers
        BY <1>0 DEF Objects
      <3>2. Store(m, Collected(o))
        BY <2>4 DEF Delete
      <3> HIDE DEF o
      <3> QED
        BY <1>0, <3>1, <3>2, CollectedForeign, WriteForeign
    <2>5. ASSUME NEW paused \in BOOLEAN, SetPaused(m, paused) PROVE FALSE
      <3>1. ForeignFinalizer \in [km[m] EXCEPT !.paused = paused].finalizers
        BY <1>0 DEF Objects
      <3> QED
        BY <1>0, <2>5, <3>1, WriteForeign DEF SetPaused
    <2>6. CASE BootstrapReady(m) \/ FixVersion(m) \/ OwnerLost(m) \/ EditHollowSecret(m)
      BY <1>1, <2>6 DEF BootstrapReady, FixVersion, OwnerLost, EditHollowSecret
    <2> QED
      BY <1>3, <2>1, <2>2, <2>3, <2>4, <2>5, <2>6 DEF Environment
  <1>4. ASSUME NEW n \in Machines, Start(n) \/ Deliver(n) \/ Resync(n) PROVE FALSE
    BY <1>1, <1>4 DEF Start, FetchNothing, FetchFails, Fetch, vars, Deliver, Resync
  <1>5. ASSUME NEW s \in Slots, PodGone(s) PROVE FALSE
    BY <1>1, <1>5 DEF PodGone
  <1>6. CASE ClusterEvent \/ ClusterSecretsReady \/ CrashRestart
    BY <1>1, <1>6 DEF ClusterEvent, ClusterSecretsReady, CrashRestart
  <1> QED
    BY <1>2, <1>3, <1>4, <1>5, <1>6 DEF Next

-----------------------------------------------------------------------------
(***************************************************************************)
(* The theorems.                                                           *)
(***************************************************************************)

\* Nothing is created yet.
LEMMA FirstLifeInit ==
  ASSUME Init, NEW m \in Machines
  PROVE  VersionInv(m) /\ ProviderInv(m) /\ ReadyInv(m)
  <1>1. /\ km[m] = NoObject /\ cache[m] = NoObject /\ watch[m] = <<>>
        /\ before[m] = NoObject /\ obj[m] = NoObject /\ pc[m] = "idle"
        /\ pods[Place(m)] = NoPod
    BY PlaceIsSlot DEF Init
  <1>2. Shown(m) = {NoObject}
    BY <1>1 DEF Shown
  <1> QED
    BY <1>1, <1>2 DEF VersionInv, ProviderInv, ReadyInv, CopyInv, Readies, NoObject, NoPod

\* The versions that are shown, whoever shares a place with whom.
THEOREM KnownInvariant ==
  ASSUME "retarget" \notin Disruptions, MaxCreates <= 1
  PROVE  Spec => []Known
  <1>1. Init => Known
    BY InitType, CleanupInit, FirstLifeInit DEF Known
  <1>2. Known /\ [Next]_vars => Known'
    <2> SUFFICES ASSUME Known, [Next]_vars PROVE Known'
      OBVIOUS
    <2>1. TypeOK'
      BY NextType DEF Known
    <2>2. CleanupInv'
      BY CleanupNext DEF Known
    <2> QED
      BY <2>1, <2>2, VersionNext DEF Known
  <1> QED
    BY <1>1, <1>2, PTL DEF Spec

\* FirstLifeInv is an invariant: for any number of machines, workers, faults
\* and crashes, with foreground deletions, pauses and losses of the owner
\* (Reconcile and the patches it defers).
THEOREM FirstLifeInvariant ==
  ASSUME "retarget" \notin Disruptions, Apart, MaxCreates <= 1
  PROVE  Spec => []FirstLifeInv
  <1> DEFINE Inv == Known /\ \A m \in Machines : ProviderInv(m) /\ ReadyInv(m)
  <1>1. Init => Inv
    BY InitType, CleanupInit, FirstLifeInit DEF Known
  <1>2. Inv /\ [Next]_vars => Inv'
    <2> SUFFICES ASSUME Inv, [Next]_vars PROVE Inv'
      OBVIOUS
    <2>1. TypeOK'
      BY NextType DEF Known
    <2>2. CleanupInv'
      BY CleanupNext DEF Known
    <2>3. \A m \in Machines : VersionInv(m)'
      BY <2>1, VersionNext
    <2>4. \A m \in Machines : ProviderInv(m)'
      BY <2>1, ProviderNext
    <2>5. \A m \in Machines : ReadyInv(m)'
      BY <2>1, ReadyNext
    <2> QED
      BY <2>1, <2>2, <2>3, <2>4, <2>5 DEF Known
  <1>3. Inv => FirstLifeInv
    BY DEF Known, FirstLifeInv
  <1> QED
    BY <1>1, <1>2, <1>3, PTL DEF Spec

\* Status.Ready tells the truth about the pod: it exists where the machine's
\* pod belongs for as long as the machine is live (Reconcile returns early on
\* Ready, AlreadyExists counts as created).
THEOREM ReadyMeansPod ==
  ASSUME "retarget" \notin Disruptions, Apart, MaxCreates <= 1
  PROVE  Spec => []ReadyHasPod
  <1>1. FirstLifeInv => ReadyHasPod
    BY DEF FirstLifeInv, ReadyInv, ReadyHasPod, Place
  <1> QED
    BY <1>1, FirstLifeInvariant, PTL

\* A ready machine lacks no more provider IDs than calls have failed, whoever
\* shares a place with whom (the three deferred patches and their order).
THEOREM ReadyMeansProviderID ==
  ASSUME "retarget" \notin Disruptions, MaxCreates <= 1
  PROVE  Spec => []ReadyHasProviderID
  <1> DEFINE Inv == Known /\ \A m \in Machines : ProviderInv(m)
  <1>1. Init => Inv
    BY InitType, CleanupInit, FirstLifeInit DEF Known
  <1>2. Inv /\ [Next]_vars => Inv'
    <2> SUFFICES ASSUME Inv, [Next]_vars PROVE Inv'
      OBVIOUS
    <2>1. TypeOK'
      BY NextType DEF Known
    <2>2. CleanupInv'
      BY CleanupNext DEF Known
    <2>3. \A m \in Machines : VersionInv(m)'
      BY <2>1, VersionNext
    <2>4. \A m \in Machines : ProviderInv(m)'
      BY <2>1, ProviderNext
    <2> QED
      BY <2>1, <2>2, <2>3, <2>4 DEF Known
  <1>3. Inv => ReadyHasProviderID
    <2> SUFFICES ASSUME Inv, NEW m \in Machines, km[m].ready
                 PROVE  faults >= (IF km[m].providerID THEN 0 ELSE 1)
                                + (IF machine[m].exists => machine[m].providerID THEN 0 ELSE 1)
      BY DEF ReadyHasProviderID
    <2>1. faults >= OwnIDMissing(m) + MachineIDMissing(m) /\ km[m].phase # "none"
      BY DEF ProviderInv
    <2> QED
      BY <2>1 DEF OwnIDMissing, MachineIDMissing
  <1> QED
    BY <1>1, <1>2, <1>3, PTL DEF Spec

\* The merge patches lose no finalizer of another party, except from a copy
\* that did not show our own yet (AddFinalizer, RemoveFinalizer, helper.Patch).
THEOREM ForeignFinalizersKept ==
  ASSUME "retarget" \notin Disruptions, MaxCreates <= 1
  PROVE  Spec => ForeignFinalizerKept
  <1>1. Known /\ [Next]_vars =>
          [\A m \in Machines :
              \/ ForeignFinalizer \notin km[m].finalizers \ km'[m].finalizers
              \/ DropForeign(m)
              \/ MachineFinalizer \notin before[m].finalizers /\ pc[m] # "idle"]_vars
    BY ForeignKeptStep
  <1> QED
    BY <1>1, KnownInvariant, PTL DEF Spec, ForeignFinalizerKept

=============================================================================
