----------------------- MODULE KubemarkMachineCleanup -----------------------
(***************************************************************************)
(* No hollow pod and no secret outlives its KubemarkMachine: the invariant *)
(* CleanupInv of KubemarkMachine is inductive as long as the hollow-pod    *)
(* cluster Secret is never pointed at another host.                        *)
(***************************************************************************)
EXTENDS KubemarkMachineProofs

-----------------------------------------------------------------------------
(***************************************************************************)
(* Histories.  Storing a version appends it, delivering one drops the      *)
(* oldest.                                                                 *)
(***************************************************************************)

\* A write that leaves the finalizer where it is, and does not undo a deletion.
Keeps(l, o) ==
  /\ Loose(l) <=> Loose(o)
  /\ HeldDeleting(l) => HeldDeleting(o)

\* An object is in exactly one of three conditions.
LEMMA Conditions ==
  ASSUME NEW o \in Objects
  PROVE  /\ HeldLive(o) \in BOOLEAN /\ HeldDeleting(o) \in BOOLEAN /\ Loose(o) \in BOOLEAN
         /\ ~(HeldLive(o) /\ HeldDeleting(o))
  BY DEF HeldLive, HeldDeleting, Loose

\* Elements of a sequence to which an element is appended.
LEMMA AppendElements ==
  ASSUME NEW S \in Seq(Objects), NEW o \in Objects
  PROVE  /\ Append(S, o) \in Seq(Objects)
         /\ Len(Append(S, o)) = Len(S) + 1
         /\ \A i \in 1..Len(S) : Append(S, o)[i] = S[i]
         /\ Append(S, o)[Len(S) + 1] = o
  OBVIOUS

\* A history stays ordered when a version is appended that fits its end.
LEMMA OrderedAppend ==
  ASSUME NEW S \in Seq(Objects), NEW o \in Objects, Ordered(S), Len(S) >= 1,
         \A i \in 1..Len(S) : HeldLive(S[i]) => ~Loose(o),
         DeletionIn(S) => ~HeldLive(o),
         DeletionIn(S) /\ HeldDeleting(o) => HeldDeleting(S[Len(S)]),
         \A i, j \in 1..Len(S) : i < j /\ Loose(S[i]) /\ HeldDeleting(S[j]) => HeldDeleting(o)
  PROVE  Ordered(Append(S, o))
  <1> DEFINE T == Append(S, o)
             n == Len(S)
  <1>1. n \in Nat /\ Len(T) = n + 1 /\ T[n + 1] = o /\ \A i \in 1..n : T[i] = S[i]
    BY AppendElements
  <1> HIDE DEF T
  <1> SUFFICES ASSUME NEW i \in 1..(n+1), NEW j \in 1..(n+1), i < j
               PROVE  /\ HeldLive(T[i]) => ~Loose(T[j])
                      /\ HeldDeleting(T[i]) => ~HeldLive(T[j])
                      /\ \A k \in 1..(n+1) : j < k =>
                           /\ HeldDeleting(T[i]) /\ HeldDeleting(T[k]) => HeldDeleting(T[j])
                           /\ Loose(T[i]) /\ HeldDeleting(T[j]) => HeldDeleting(T[k])
    BY <1>1 DEF Ordered, T
  <1>2. i \in 1..n /\ T[i] = S[i]
    BY <1>1
  <1>3. CASE j \in 1..n
    <2>1. T[j] = S[j]
      BY <1>1, <1>3
    <2>2. /\ HeldLive(S[i]) => ~Loose(S[j])
          /\ HeldDeleting(S[i]) => ~HeldLive(S[j])
      BY <1>2, <1>3 DEF Ordered
    <2>3. ASSUME NEW k \in 1..(n+1), j < k
          PROVE  /\ HeldDeleting(T[i]) /\ HeldDeleting(T[k]) => HeldDeleting(T[j])
                 /\ Loose(T[i]) /\ HeldDeleting(T[j]) => HeldDeleting(T[k])
      <3>1. CASE k \in 1..n
        BY <1>1, <1>2, <1>3, <2>1, <2>3, <3>1 DEF Ordered
      <3>2. CASE k = n + 1
        <4>1. T[k] = o
          BY <1>1, <3>2
        <4>2. HeldDeleting(S[i]) /\ HeldDeleting(o) => HeldDeleting(S[j])
          <5>1. HeldDeleting(S[i]) /\ HeldDeleting(o) => HeldDeleting(S[n])
            BY <1>2 DEF DeletionIn
          <5>2. n \in 1..n
            BY <1>1, <1>3
          <5>3. j < n => (HeldDeleting(S[i]) /\ HeldDeleting(S[n]) => HeldDeleting(S[j]))
            BY <1>2, <1>3, <5>2 DEF Ordered
          <5> QED
            BY <1>1, <1>3, <5>1, <5>3
        <4> QED
          BY <1>2, <1>3, <2>1, <4>1, <4>2
      <3> QED
        BY <1>1, <3>1, <3>2
    <2> QED
      BY <1>2, <2>1, <2>2, <2>3
  <1>4. CASE j = n + 1
    <2>1. T[j] = o
      BY <1>1, <1>4
    <2>2. \A k \in 1..(n+1) : ~(j < k)
      BY <1>1, <1>4
    <2> QED
      BY <1>2, <2>1, <2>2 DEF DeletionIn
  <1> QED
    BY <1>1, <1>3, <1>4

\* A write that keeps the finalizer keeps everything the history says.
LEMMA KeepAppend ==
  ASSUME NEW S \in Seq(Objects), NEW o \in Objects, Ordered(S), Len(S) >= 1,
         Keeps(S[Len(S)], o)
  PROVE  /\ Ordered(Append(S, o))
         /\ Falling(S) => Falling(Append(S, o))
         /\ (DeletionIn(S) => HeldDeleting(S[Len(S)])) =>
                (DeletionIn(Append(S, o)) => HeldDeleting(o))
  <1> DEFINE T == Append(S, o)
             n == Len(S)
             l == S[n]
  <1>1. n \in Nat /\ n \in 1..n /\ Len(T) = n + 1 /\ T[n + 1] = o /\ \A i \in 1..n : T[i] = S[i]
    BY AppendElements
  <1>2. /\ l \in Objects
        /\ \A i \in 1..n : S[i] \in Objects
    BY <1>1
  <1>3. \A i \in 1..n : HeldLive(S[i]) => ~Loose(l)
    BY <1>1, <1>2 DEF Ordered, Loose
  <1>4. \A i \in 1..n : HeldDeleting(S[i]) => ~HeldLive(l)
    BY <1>1, <1>2, Conditions DEF Ordered
  <1>5. HeldLive(o) => HeldLive(l)
    BY <1>2, Conditions DEF Keeps, Loose
  <1>6. Ordered(T)
    <2>1. \A i \in 1..n : HeldLive(S[i]) => ~Loose(o)
      BY <1>3 DEF Keeps
    <2>2. DeletionIn(S) => ~HeldLive(o)
      BY <1>4, <1>5 DEF DeletionIn
    <2>3. DeletionIn(S) /\ HeldDeleting(o) => HeldDeleting(l)
      BY <1>4 DEF DeletionIn, Keeps, Loose
    <2>4. \A i, j \in 1..n : i < j /\ Loose(S[i]) /\ HeldDeleting(S[j]) => HeldDeleting(o)
      <3> SUFFICES ASSUME NEW i \in 1..n, NEW j \in 1..n, i < j, Loose(S[i]), HeldDeleting(S[j])
                   PROVE  HeldDeleting(l)
        BY DEF Keeps
      <3>1. CASE j = n
        BY <3>1
      <3>2. CASE j < n
        BY <3>2, <1>1 DEF Ordered
      <3> QED
        BY <1>1, <3>1, <3>2
    <2> QED
      BY <2>1, <2>2, <2>3, <2>4, OrderedAppend
  <1> HIDE DEF T
  <1>7. ASSUME Falling(S)
        PROVE  Falling(T)
    <2>1. ASSUME NEW i \in 1..(n+1)
          PROVE  ~HeldLive(T[i])
      <3>1. CASE i \in 1..n
        BY <1>1, <1>7, <3>1 DEF Falling
      <3>2. CASE i = n + 1
        BY <1>1, <1>5, <1>7, <3>2 DEF Falling
      <3> QED
        BY <1>1, <3>1, <3>2
    <2>2. ASSUME NEW i \in 1..(n+1), NEW j \in 1..(n+1), i < j, Loose(T[i])
          PROVE  ~HeldDeleting(T[j])
      <3>1. i \in 1..n /\ T[i] = S[i]
        BY <1>1, <2>2
      <3>2. CASE j \in 1..n
        BY <1>1, <1>7, <2>2, <3>1, <3>2 DEF Falling
      <3>3. CASE j = n + 1
        <4>1. T[j] = o
          BY <1>1, <3>3
        <4>2. ~HeldDeleting(l) /\ ~HeldLive(l)
          <5>1. CASE i = n
            BY <2>2, <3>1, <5>1 DEF Loose
          <5>2. CASE i < n
            BY <1>1, <1>7, <2>2, <3>1, <5>2 DEF Falling
          <5> QED
            BY <1>1, <3>1, <5>1, <5>2
        <4> QED
          BY <4>1, <4>2 DEF Keeps, Loose
      <3> QED
        BY <1>1, <3>2, <3>3
    <2> QED
      BY <1>1, <2>1, <2>2 DEF Falling
  <1>8. ASSUME DeletionIn(S) => HeldDeleting(l), DeletionIn(T)
        PROVE  HeldDeleting(o)
    <2>1. PICK i \in 1..(n+1) : HeldDeleting(T[i])
      BY <1>1, <1>8 DEF DeletionIn
    <2>2. CASE i \in 1..n
      BY <1>1, <1>8, <2>1, <2>2 DEF DeletionIn, Keeps
    <2>3. CASE i = n + 1
      BY <1>1, <2>1, <2>3
    <2> QED
      BY <1>1, <2>2, <2>3
  <1> QED
    BY <1>6, <1>7, <1>8 DEF T

\* What is left of a history after a delivery says the same.
LEMMA TailKeeps ==
  ASSUME NEW S \in Seq(Objects), Len(S) >= 2, Ordered(S)
  PROVE  /\ Tail(S)[Len(Tail(S))] = S[Len(S)]
         /\ Ordered(Tail(S))
         /\ Falling(S) => Falling(Tail(S))
         /\ DeletionIn(Tail(S)) => DeletionIn(S)
  <1> DEFINE T == Tail(S)
             n == Len(S)
  <1>1. n \in Nat /\ Len(T) = n - 1 /\ \A i \in 1..(n-1) : i + 1 \in 1..n /\ T[i] = S[i + 1]
    OBVIOUS
  <1> HIDE DEF T
  <1>2. T[Len(T)] = S[n]
    BY <1>1
  <1>3. Ordered(T)
    <2> SUFFICES ASSUME NEW i \in 1..(n-1), NEW j \in 1..(n-1), i < j
                 PROVE  /\ HeldLive(T[i]) => ~Loose(T[j])
                        /\ HeldDeleting(T[i]) => ~HeldLive(T[j])
                        /\ \A k \in 1..(n-1) : j < k =>
                             /\ HeldDeleting(T[i]) /\ HeldDeleting(T[k]) => HeldDeleting(T[j])
                             /\ Loose(T[i]) /\ HeldDeleting(T[j]) => HeldDeleting(T[k])
      BY <1>1 DEF Ordered
    <2>1. i + 1 < j + 1 /\ i + 1 \in 1..n /\ j + 1 \in 1..n
      BY <1>1
    <2>2. /\ HeldLive(S[i + 1]) => ~Loose(S[j + 1])
          /\ HeldDeleting(S[i + 1]) => ~HeldLive(S[j + 1])
      BY <2>1 DEF Ordered
    <2>3. ASSUME NEW k \in 1..(n-1), j < k
          PROVE  /\ HeldDeleting(T[i]) /\ HeldDeleting(T[k]) => HeldDeleting(T[j])
                 /\ Loose(T[i]) /\ HeldDeleting(T[j]) => HeldDeleting(T[k])
      <3>1. k + 1 \in 1..n /\ j + 1 < k + 1
        BY <1>1, <2>3
      <3>2. /\ HeldDeleting(S[i+1]) /\ HeldDeleting(S[k+1]) => HeldDeleting(S[j+1])
            /\ Loose(S[i+1]) /\ HeldDeleting(S[j+1]) => HeldDeleting(S[k+1])
        BY <2>1, <3>1 DEF Ordered
      <3> QED
        BY <1>1, <3>2
    <2> QED
      BY <1>1, <2>2, <2>3
  <1>4. ASSUME Falling(S) PROVE Falling(T)
    BY <1>1, <1>4 DEF Falling
  <1>5. DeletionIn(T) => DeletionIn(S)
    BY <1>1 DEF DeletionIn
  <1> QED
    BY <1>2, <1>3, <1>4, <1>5 DEF T

\* A history is not empty and starts with what is in the cache.
LEMMA HistoryType ==
  ASSUME TypeOK, NEW m \in Machines
  PROVE  /\ History(m) \in Seq(Objects)
         /\ Len(History(m)) = Len(watch[m]) + 1
         /\ Len(History(m)) >= 1
         /\ History(m)[1] = cache[m]
  <1>1. cache[m] \in Objects /\ watch[m] \in Seq(Objects)
    BY DEF TypeOK
  <1> QED
    BY <1>1 DEF History

\* An object is held exactly when it is not loose.
LEMMA HeldIsNotLoose ==
  ASSUME NEW o \in Objects
  PROVE  (o.phase # "none" /\ MachineFinalizer \in o.finalizers) <=> ~Loose(o)
  BY DEF Loose, HeldLive, HeldDeleting, Objects

\* Storing a version appends it to the history of its machine.
LEMMA StoreHistory ==
  ASSUME TypeOK, NEW m \in Machines, NEW o \in Objects, Store(m, o), cache' = cache
  PROVE  /\ km[m]' = o
         /\ History(m)' = IF o = km[m] THEN History(m) ELSE Append(History(m), o)
         /\ \A n \in Machines \ {m} : km[n]' = km[n] /\ watch[n]' = watch[n]
  <1>1. cache[m] \in Objects /\ watch[m] \in Seq(Objects)
    BY DEF TypeOK
  <1>2. km[m]' = o /\ \A n \in Machines \ {m} : km[n]' = km[n] /\ watch[n]' = watch[n]
    BY DEF TypeOK, Store
  <1>3. CASE o = km[m]
    BY <1>2, <1>3 DEF Store, History
  <1>4. CASE o # km[m]
    <2>1. watch[m]' = Append(watch[m], o)
      BY <1>4 DEF TypeOK, Store
    <2>2. <<cache[m]>> \o Append(watch[m], o) = Append(<<cache[m]>> \o watch[m], o)
      BY <1>1
    <2> QED
      BY <1>2, <1>4, <2>1, <2>2 DEF History
  <1> QED
    BY <1>3, <1>4

\* Delivering a version drops the first one.
LEMMA DeliverHistory ==
  ASSUME TypeOK, NEW m \in Machines, Deliver(m)
  PROVE  /\ History(m)' = Tail(History(m))
         /\ Len(History(m)) >= 2
         /\ \A n \in Machines \ {m} : cache[n]' = cache[n] /\ watch[n]' = watch[n]
  <1>1. cache[m] \in Objects /\ watch[m] \in Seq(Objects) /\ watch[m] # <<>>
    BY DEF TypeOK, Deliver
  <1>2. cache[m]' = Head(watch[m]) /\ watch[m]' = Tail(watch[m])
    BY DEF TypeOK, Deliver
  <1>3. \A n \in Machines \ {m} : cache[n]' = cache[n] /\ watch[n]' = watch[n]
    BY DEF TypeOK, Deliver
  <1>4. <<Head(watch[m])>> \o Tail(watch[m]) = Tail(<<cache[m]>> \o watch[m])
    <2>1. <<Head(watch[m])>> \o Tail(watch[m]) = watch[m]
      BY <1>1
    <2>2. Tail(<<cache[m]>> \o watch[m]) = watch[m]
      BY <1>1
    <2> QED
      BY <2>1, <2>2
  <1>5. Len(<<cache[m]>> \o watch[m]) >= 2
    BY <1>1
  <1> QED
    BY <1>2, <1>3, <1>4, <1>5 DEF History

\* A stored version that keeps the finalizer keeps what the history says.
LEMMA KeepStore ==
  ASSUME TypeOK, NEW m \in Machines, NEW o \in Objects, Store(m, o), cache' = cache,
         History(m)[Len(History(m))] = km[m], Ordered(History(m)), Keeps(km[m], o)
  PROVE  /\ History(m)'[Len(History(m)')] = km[m]'
         /\ Ordered(History(m)')
         /\ Falling(History(m)) => Falling(History(m)')
         /\ (DeletionIn(History(m)) => HeldDeleting(km[m])) =>
                (DeletionIn(History(m)') => HeldDeleting(km[m]'))
  <1>1. km[m]' = o
    BY StoreHistory
  <1>2. CASE o = km[m]
    BY <1>1, <1>2, StoreHistory
  <1>3. CASE o # km[m]
    <2>1. History(m)' = Append(History(m), o)
      BY <1>3, StoreHistory
    <2>2. History(m) \in Seq(Objects) /\ Len(History(m)) >= 1
      BY HistoryType
    <2> QED
      BY <1>1, <2>1, <2>2, KeepAppend, AppendElements
  <1> QED
    BY <1>2, <1>3

-----------------------------------------------------------------------------
(***************************************************************************)
(* What a step leaves alone.                                               *)
(***************************************************************************)

\* HistoryInv of a machine whose versions and reconcile do not move.
LEMMA HistoryFrame ==
  ASSUME NEW n \in Machines, HistoryInv(n),
         km[n]' = km[n], watch[n]' = watch[n], cache[n]' = cache[n],
         pc[n]' = pc[n], before[n]' = before[n]
  PROVE  HistoryInv(n)'
  BY DEF HistoryInv, History, Held

\* HistoryInv of a machine whose reconcile goes on without touching the object.
LEMMA HistoryOnward ==
  ASSUME NEW n \in Machines, HistoryInv(n),
         km' = km, watch' = watch, cache' = cache, before' = before,
         pc[n] \notin {"idle", "addFinalizer", "patchStatus"}, pc[n]' # "addFinalizer"
  PROVE  HistoryInv(n)'
  BY DEF HistoryInv, History, Held

\* LocalInv of a machine whose reconcile does not move.
LEMMA LocalFrame ==
  ASSUME NEW n \in Machines, LocalInv(n),
         pc[n]' = pc[n], before[n]' = before[n], obj[n]' = obj[n], dest[n]' = dest[n]
  PROVE  LocalInv(n)'
  BY DEF LocalInv

\* HostInv of a machine whose reconcile does not move, in a step that may stop
\* or remove pods, remove secrets, and create objects of other machines.
LEMMA HostFrame ==
  ASSUME NEW n \in Machines, HostInv(n),
         hollow[n]' = hollow[n], pc[n]' = pc[n], obj[n]' = obj[n],
         \A s \in Slots : /\ pods[s].by' = n => pods[s].by = n
                          /\ pods[s].by' = n /\ pods[s].phase' = "running" =>
                                 pods[s].phase = "running"
                          /\ secrets[s]' = n => secrets[s] = n
  PROVE  HostInv(n)'
  <1>1. Resolve(n)' = Resolve(n)
    BY DEF Resolve
  <1> QED
    BY <1>1 DEF HostInv

\* NoOrphan in a step that creates nothing and removes no finalizer.
LEMMA NoOrphanFrame ==
  ASSUME TypeOK, CleanupInv,
         \A n \in Machines : Held(n) => Held(n)',
         \A s \in Slots : /\ pods[s].phase' = "running" =>
                                 pods[s].phase = "running" /\ pods[s].by' = pods[s].by
                          /\ secrets[s]' \in {secrets[s], Nobody}
  PROVE  /\ NoOrphan'
         /\ \A s \in Slots : pods[s].phase' = "running" => pods[s].by' \in Machines
  <1>1. \A s \in Slots : secrets[s] \in Machines \union {Nobody}
    BY DEF TypeOK
  <1>2. \A s \in Slots : pods[s].phase = "running" => pods[s].by \in Machines /\ Held(pods[s].by)
    BY DEF CleanupInv, NoOrphan
  <1>3. \A s \in Slots : secrets[s] # Nobody => secrets[s] \in Machines /\ Held(secrets[s])
    BY <1>1 DEF CleanupInv, NoOrphan
  <1>4. \A s \in Slots : pods[s].phase' = "running" => pods[s].by' \in Machines /\ Held(pods[s].by)'
    BY <1>2
  <1>5. \A s \in Slots : secrets[s]' # Nobody => Held(secrets[s])'
    BY <1>3
  <1> QED
    BY <1>4, <1>5 DEF NoOrphan

\* A step that touches none of this.
LEMMA QuietStep ==
  ASSUME TypeOK, CleanupInv,
         UNCHANGED <<km, watch, cache, pc, before, obj, dest, pods, secrets, hollow>>
  PROVE  CleanupInv'
  <1>1. ASSUME NEW n \in Machines
        PROVE  HistoryInv(n)' /\ LocalInv(n)' /\ HostInv(n)'
    BY HistoryFrame, LocalFrame, HostFrame DEF CleanupInv
  <1>2. NoOrphan' /\ \A s \in Slots : pods[s].phase' = "running" => pods[s].by' \in Machines
    BY NoOrphanFrame DEF Held
  <1> QED
    BY <1>1, <1>2 DEF CleanupInv

-----------------------------------------------------------------------------
(***************************************************************************)
(* Steps of the environment.                                               *)
(***************************************************************************)

\* A version is stored that keeps the finalizer where it is.
LEMMA KeepStep ==
  ASSUME TypeOK, CleanupInv, NEW m \in Machines, NEW o \in Objects,
         Store(m, o), Keeps(km[m], o), TypeOK',
         UNCHANGED <<cache, pc, before, obj, dest, pods, secrets, hollow>>
  PROVE  CleanupInv'
  <1>1. km[m]' = o
    BY StoreHistory
  <1>2. \A n \in Machines : Held(n) => Held(n)'
    <2>1. Held(m) => Held(m)'
      <3>1. km[m] \in Objects /\ km[m]' \in Objects
        BY <1>1 DEF TypeOK
      <3> QED
        BY <1>1, <3>1, HeldIsNotLoose DEF Keeps, Held
    <2>2. \A n \in Machines \ {m} : km[n]' = km[n]
      BY StoreHistory
    <2> QED
      BY <2>1, <2>2 DEF Held
  <1>3. HistoryInv(m)'
    <2>1. HistoryInv(m)
      BY DEF CleanupInv
    <2>2. /\ History(m)'[Len(History(m)')] = km[m]'
          /\ Ordered(History(m)')
          /\ Falling(History(m)) => Falling(History(m)')
          /\ (DeletionIn(History(m)) => HeldDeleting(km[m])) =>
                 (DeletionIn(History(m)') => HeldDeleting(km[m]'))
      BY <2>1, KeepStore DEF HistoryInv
    <2> QED
      BY <1>2, <2>1, <2>2 DEF HistoryInv
  <1>4. ASSUME NEW n \in Machines
        PROVE  HistoryInv(n)' /\ LocalInv(n)' /\ HostInv(n)'
    <2>1. LocalInv(n)' /\ HostInv(n)'
      BY LocalFrame, HostFrame DEF CleanupInv
    <2>2. CASE n # m
      <3>1. km[n]' = km[n] /\ watch[n]' = watch[n]
        BY <2>2, StoreHistory
      <3>2. HistoryInv(n)
        BY DEF CleanupInv
      <3>3. cache[n]' = cache[n] /\ pc[n]' = pc[n] /\ before[n]' = before[n]
        OBVIOUS
      <3> QED
        BY <2>1, <3>1, <3>2, <3>3, HistoryFrame
    <2> QED
      BY <1>3, <2>1, <2>2
  <1>5. NoOrphan' /\ \A s \in Slots : pods[s].phase' = "running" => pods[s].by' \in Machines
    BY <1>2, NoOrphanFrame
  <1> QED
    BY <1>4, <1>5 DEF CleanupInv

\* The garbage collector removes an object only when it is loose.
LEMMA CollectedKeeps ==
  ASSUME NEW o \in Objects
  PROVE  /\ Loose(o) <=> Loose(Collected(o))
         /\ HeldDeleting(o) <=> HeldDeleting(Collected(o))
  BY DEF Collected, Loose, HeldLive, HeldDeleting, NoObject, Objects

\* Creation, adoption and deletion of the object keep the finalizer.
LEMMA EnvironmentStep ==
  ASSUME TypeOK, CleanupInv, TypeOK', "retarget" \notin Disruptions,
         NEW m \in Machines, Environment(m)
  PROVE  CleanupInv'
  <1> USE DEF apiVars, localVars, workVars, hostVars, capiVars, boundVars
  <1>0. km[m] \in Objects
    BY DEF TypeOK
  <1>1. CASE Create(m)
    <2>1. PICK e \in Options : Store(m, [NoObject EXCEPT !.phase = "live", !.extended = e])
      BY <1>1 DEF Create
    <2> DEFINE o == [NoObject EXCEPT !.phase = "live", !.extended = e]
    <2>2. o \in Objects
      BY MachineAssumption DEF NoObject, Objects
    <2>3. Keeps(km[m], o)
      BY <1>0, <1>1 DEF Create, Keeps, Loose, HeldLive, HeldDeleting, NoObject, Objects
    <2> QED
      BY <1>1, <2>1, <2>2, <2>3, KeepStep DEF Create
  <1>2. CASE Adopt(m)
    <2> DEFINE o == [km[m] EXCEPT !.owned = TRUE]
    <2>1. o \in Objects
      BY <1>0 DEF Objects
    <2>2. Keeps(km[m], o)
      BY <1>0 DEF Keeps, Loose, HeldLive, HeldDeleting, Objects
    <2> QED
      BY <1>2, <2>1, <2>2, KeepStep DEF Adopt
  <1>3. ASSUME NEW added \in SUBSET {ForeignFinalizer}, Delete(m, added)
        PROVE  CleanupInv'
    <2> DEFINE o == [km[m] EXCEPT !.phase = "deleting", !.finalizers = @ \union added]
    <2>1. o \in Objects
      BY <1>0 DEF Objects
    <2>2. Keeps(km[m], o)
      BY <1>0, <1>3 DEF Delete, Keeps, Loose, HeldLive, HeldDeleting, Objects,
                        MachineFinalizer, ForeignFinalizer
    <2>3. Collected(o) \in Objects /\ Keeps(km[m], Collected(o))
      BY <2>1, <2>2, CollectedType, CollectedKeeps DEF Keeps
    <2> QED
      BY <1>3, <2>3, KeepStep DEF Delete
  <1>4. CASE DropForeign(m)
    <2> DEFINE o == [km[m] EXCEPT !.finalizers = @ \ {ForeignFinalizer}]
    <2>1. o \in Objects
      BY <1>0 DEF Objects
    <2>2. Keeps(km[m], o)
      BY <1>0 DEF Keeps, Loose, HeldLive, HeldDeleting, Objects,
                  MachineFinalizer, ForeignFinalizer
    <2>3. Collected(o) \in Objects /\ Keeps(km[m], Collected(o))
      BY <2>1, <2>2, CollectedType, CollectedKeeps DEF Keeps
    <2> QED
      BY <1>4, <2>3, KeepStep DEF DropForeign
  <1>5. CASE BootstrapReady(m)
    BY <1>5, QuietStep DEF BootstrapReady, MachineEvent
  <1>6. CASE FixVersion(m)
    BY <1>6, QuietStep DEF FixVersion, MachineEvent
  <1>7. CASE OwnerLost(m)
    BY <1>7, QuietStep DEF OwnerLost, MachineEvent
  <1>8. CASE EditHollowSecret(m)
    <2>1. PICK h \in HollowChoices :
            /\ GenerateKubemarkClusterClient(h, NamespaceOf[m]) \in {NoHost, Home[m]}
            /\ hollow' = [hollow EXCEPT ![m] = h]
      BY <1>8 DEF EditHollowSecret
    <2>2. \A n \in Machines : Resolve(n)' \in {NoHost, Home[n]}
      <3> SUFFICES ASSUME NEW n \in Machines PROVE Resolve(n)' \in {NoHost, Home[n]}
        OBVIOUS
      <3>1. CASE n = m
        BY <2>1, <3>1 DEF TypeOK, Resolve
      <3>2. CASE n # m
        BY <2>1, <3>2 DEF TypeOK, Resolve, CleanupInv, HostInv
      <3> QED
        BY <3>1, <3>2
    <2>3. UNCHANGED <<km, watch, cache, pc, before, obj, dest, pods, secrets>>
      BY <1>8 DEF EditHollowSecret
    <2>4. ASSUME NEW n \in Machines
          PROVE  HistoryInv(n)' /\ LocalInv(n)' /\ HostInv(n)'
      <3>1. HistoryInv(n)' /\ LocalInv(n)'
        BY <2>3, HistoryFrame, LocalFrame DEF CleanupInv
      <3>2. HostInv(n)'
        BY <2>2, <2>3 DEF CleanupInv, HostInv
      <3> QED
        BY <3>1, <3>2
    <2>5. NoOrphan' /\ \A s \in Slots : pods[s].phase' = "running" => pods[s].by' \in Machines
      BY <2>3, NoOrphanFrame DEF Held
    <2> QED
      BY <2>4, <2>5 DEF CleanupInv
  <1>9. ASSUME NEW paused \in BOOLEAN, SetPaused(m, paused)
        PROVE  CleanupInv'
    <2> DEFINE o == [km[m] EXCEPT !.paused = paused]
    <2>1. o \in Objects
      BY <1>0 DEF Objects
    <2>2. Keeps(km[m], o)
      BY <1>0 DEF Keeps, Loose, HeldLive, HeldDeleting, Objects
    <2> QED
      BY <1>9, <2>1, <2>2, KeepStep DEF SetPaused
  <1> QED
    BY <1>1, <1>2, <1>3, <1>4, <1>5, <1>6, <1>7, <1>8, <1>9 DEF Environment

\* The informer moves on; a reconcile under way keeps its copy.
LEMMA DeliverStep ==
  ASSUME TypeOK, CleanupInv, NEW m \in Machines, Deliver(m)
  PROVE  CleanupInv'
  <1>1. UNCHANGED <<km, pc, before, obj, dest, pods, secrets, hollow>>
    BY DEF Deliver, localVars, hostVars, capiVars
  <1>2. HistoryInv(m)'
    <2>1. HistoryInv(m) /\ History(m) \in Seq(Objects)
      BY HistoryType DEF CleanupInv
    <2>2. History(m)' = Tail(History(m)) /\ Len(History(m)) >= 2
      BY DeliverHistory
    <2>3. Ordered(History(m))
      BY <2>1 DEF HistoryInv
    <2>4. /\ Tail(History(m))[Len(Tail(History(m)))] = History(m)[Len(History(m))]
          /\ Ordered(Tail(History(m)))
          /\ Falling(History(m)) => Falling(Tail(History(m)))
          /\ DeletionIn(Tail(History(m))) => DeletionIn(History(m))
      BY <2>1, <2>2, <2>3, TailKeeps
    <2> QED
      BY <1>1, <2>1, <2>2, <2>4 DEF HistoryInv, Held
  <1>3. ASSUME NEW n \in Machines
        PROVE  HistoryInv(n)' /\ LocalInv(n)' /\ HostInv(n)'
    <2>1. LocalInv(n)' /\ HostInv(n)'
      BY <1>1, LocalFrame, HostFrame DEF CleanupInv
    <2>2. ASSUME n # m PROVE HistoryInv(n)'
      <3>1. cache[n]' = cache[n] /\ watch[n]' = watch[n]
        BY <2>2, DeliverHistory
      <3> QED
        BY <1>1, <3>1, HistoryFrame DEF CleanupInv
    <2> QED
      BY <1>2, <2>1, <2>2
  <1>4. NoOrphan' /\ \A s \in Slots : pods[s].phase' = "running" => pods[s].by' \in Machines
    BY <1>1, NoOrphanFrame DEF Held
  <1> QED
    BY <1>3, <1>4 DEF CleanupInv

\* A restarted manager sees the stored objects, or as much of their history as
\* before, and has forgotten the rest.
LEMMA CrashRestartStep ==
  ASSUME TypeOK, CleanupInv, CrashRestart
  PROVE  CleanupInv'
  <1>1. UNCHANGED <<km, pods, secrets, hollow>>
    BY DEF CrashRestart, hostVars, capiVars
  <1>2. ASSUME NEW n \in Machines
        PROVE  HistoryInv(n)' /\ LocalInv(n)' /\ HostInv(n)'
    <2>1. pc[n]' = "idle" /\ before[n]' = NoObject
      BY DEF CrashRestart
    <2>2. ~HeldDeleting(NoObject)
      BY DEF HeldDeleting, NoObject
    <2>3. ASSUME UNCHANGED <<cache, watch>> PROVE HistoryInv(n)'
      <3>1. History(n)' = History(n)
        BY <2>3 DEF History
      <3>2. History(n)[Len(History(n))] = km[n] /\ Ordered(History(n))
        BY DEF CleanupInv, HistoryInv
      <3> QED
        BY <1>1, <2>1, <2>2, <3>1, <3>2 DEF HistoryInv
    <2>4. ASSUME cache' = km, watch' = [k \in Machines |-> <<>>] PROVE HistoryInv(n)'
      <3>1. History(n)' = <<km[n]>>
        BY <2>4 DEF History
      <3>2. Ordered(<<km[n]>>)
        BY DEF Ordered
      <3> QED
        BY <1>1, <2>1, <2>2, <3>1, <3>2 DEF HistoryInv
    <2>5. HistoryInv(n)'
      BY <2>3, <2>4 DEF CrashRestart
    <2>6. LocalInv(n)'
      BY <2>1 DEF LocalInv, DeleteSteps, CreateSteps
    <2>7. HostInv(n)'
      BY <1>1, <2>1 DEF CleanupInv, HostInv, Resolve
    <2> QED
      BY <2>5, <2>6, <2>7
  <1>3. NoOrphan' /\ \A s \in Slots : pods[s].phase' = "running" => pods[s].by' \in Machines
    BY <1>1, NoOrphanFrame DEF Held
  <1> QED
    BY <1>2, <1>3 DEF CleanupInv

\* The kubelet removes a pod that is already being stopped.
LEMMA PodGoneStep ==
  ASSUME TypeOK, CleanupInv, NEW s \in Slots, PodGone(s)
  PROVE  CleanupInv'
  <1>1. UNCHANGED <<km, watch, cache, pc, before, obj, dest, secrets, hollow>>
    BY DEF PodGone, apiVars, workVars, localVars, capiVars
  <1>2. \A t \in Slots : /\ pods[t].phase' = "running" =>
                                 pods[t].phase = "running" /\ pods[t].by' = pods[t].by
                         /\ pods[t].by' \in Machines => pods[t].by' = pods[t].by
    BY MachineAssumption DEF TypeOK, PodGone, NoPod
  <1>3. ASSUME NEW n \in Machines
        PROVE  HistoryInv(n)' /\ LocalInv(n)' /\ HostInv(n)'
    <2>1. HistoryInv(n)' /\ LocalInv(n)'
      BY <1>1, HistoryFrame, LocalFrame DEF CleanupInv
    <2>2. HostInv(n)'
      BY <1>1, <1>2, HostFrame DEF CleanupInv
    <2> QED
      BY <2>1, <2>2
  <1>4. NoOrphan' /\ \A t \in Slots : pods[t].phase' = "running" => pods[t].by' \in Machines
    BY <1>1, <1>2, NoOrphanFrame DEF Held
  <1> QED
    BY <1>3, <1>4 DEF CleanupInv

-----------------------------------------------------------------------------
(***************************************************************************)
(* Steps of a reconcile.                                                   *)
(***************************************************************************)

\* The machines whose reconcile does not move.
LEMMA OtherMachines ==
  ASSUME TypeOK, CleanupInv, NEW m \in Machines, NEW n \in Machines \ {m},
         km[n]' = km[n], watch[n]' = watch[n], cache' = cache, hollow' = hollow,
         pc[n]' = pc[n], before[n]' = before[n], obj[n]' = obj[n], dest[n]' = dest[n],
         \A s \in Slots : /\ pods[s].by' = n => pods[s].by = n
                          /\ pods[s].by' = n /\ pods[s].phase' = "running" =>
                                 pods[s].phase = "running"
                          /\ secrets[s]' = n => secrets[s] = n
  PROVE  HistoryInv(n)' /\ LocalInv(n)' /\ HostInv(n)'
  <1>1. HistoryInv(n) /\ LocalInv(n) /\ HostInv(n) /\ n \in Machines
    BY DEF CleanupInv
  <1>2. HistoryInv(n)'
    BY <1>1, HistoryFrame
  <1>3. LocalInv(n)'
    BY <1>1, LocalFrame
  <1>4. HostInv(n)'
    BY <1>1, HostFrame
  <1> QED
    BY <1>2, <1>3, <1>4

\* A reconcile starts from a copy that may be old.  What the history says is
\* enough: a live copy with the finalizer means that the stored object is
\* held, and a copy under deletion that no later version is held and live.
LEMMA FetchStep ==
  ASSUME TypeOK, CleanupInv, NEW m \in Machines, Fetch(m)
  PROVE  CleanupInv'
  <1> DEFINE S == History(m)
             c == cache[m]
  <1>1. UNCHANGED <<km, watch, cache, dest, pods, secrets, hollow>>
    BY DEF Fetch, apiVars, hostVars, capiVars
  <1>2. /\ before[m]' = c
        /\ obj[m]' = WithFinalizer(c)
        /\ c.phase # "none"
        /\ pc[m]' = IF MachineFinalizer \in c.finalizers THEN "generateClient" ELSE "addFinalizer"
    BY DEF TypeOK, Fetch, Goto
  <1>3. \A n \in Machines \ {m} : pc[n]' = pc[n] /\ before[n]' = before[n] /\ obj[n]' = obj[n]
    BY DEF TypeOK, Fetch, Goto
  <1>4. S \in Seq(Objects) /\ Len(S) \in Nat /\ Len(S) >= 1 /\ S[1] = c
    BY HistoryType
  <1>5. S[Len(S)] = km[m] /\ Ordered(S)
    BY DEF CleanupInv, HistoryInv
  <1>6. History(m)' = S
    BY <1>1 DEF History
  <1>7. c \in Objects /\ km[m] \in Objects /\ \A i \in 1..Len(S) : S[i] \in Objects
    BY <1>4 DEF TypeOK
  <1> HIDE DEF S, c
  <1>8. HistoryInv(m)'
    <2>1. ASSUME pc[m]' = "addFinalizer", DeletionIn(S)
          PROVE  HeldDeleting(km[m])
      <3>1. PICK i \in 1..Len(S) : HeldDeleting(S[i])
        BY <2>1 DEF DeletionIn
      <3>2. Loose(c)
        BY <1>2, <2>1 DEF Loose, HeldLive, HeldDeleting
      <3>3. i # 1
        BY <1>4, <3>1, <3>2 DEF Loose
      <3>4. CASE i = Len(S)
        BY <1>5, <3>1, <3>4
      <3>5. CASE i < Len(S)
        BY <1>4, <1>5, <3>1, <3>2, <3>3, <3>5 DEF Ordered
      <3> QED
        BY <1>4, <3>4, <3>5
    <2>2. ASSUME HeldDeleting(c)
          PROVE  Falling(S)
      <3>1. ~Loose(c) /\ ~HeldLive(c)
        BY <1>7, <2>2, Conditions DEF Loose
      <3>2. ASSUME NEW i \in 1..Len(S)
            PROVE  ~HeldLive(S[i])
        BY <1>4, <1>5, <2>2, <3>1 DEF Ordered
      <3>3. ASSUME NEW i \in 1..Len(S), NEW j \in 1..Len(S), i < j, Loose(S[i])
            PROVE  ~HeldDeleting(S[j])
        <4>1. 1 < i /\ 1 \in 1..Len(S)
          BY <1>4, <3>1, <3>3
        <4>2. HeldDeleting(S[1]) /\ HeldDeleting(S[j]) => HeldDeleting(S[i])
          BY <1>5, <3>3, <4>1 DEF Ordered
        <4> QED
          BY <1>4, <2>2, <3>3, <4>2 DEF Loose
      <3> QED
        BY <3>2, <3>3 DEF Falling
    <2>3. ASSUME pc[m]' # "addFinalizer", ~HeldDeleting(c)
          PROVE  Held(m)
      <3>1. HeldLive(c)
        BY <1>2, <1>7, <2>3 DEF HeldLive, HeldDeleting, Objects
      <3>2. ~Loose(km[m])
        <4>1. CASE Len(S) = 1
          BY <1>4, <1>5, <3>1, <4>1 DEF Loose
        <4>2. CASE Len(S) # 1
          <5>1. Len(S) \in Nat /\ Len(S) >= 1
            BY <1>4
          <5>2. 1 \in 1..Len(S) /\ Len(S) \in 1..Len(S) /\ 1 < Len(S)
            BY <4>2, <5>1
          <5> QED
            BY <1>4, <1>5, <3>1, <5>2 DEF Ordered
        <4> QED
          BY <4>1, <4>2
      <3> QED
        BY <1>7, <3>2, HeldIsNotLoose DEF Held
    <2>4. Held(m)' = Held(m)
      BY <1>1 DEF Held
    <2> QED
      BY <1>1, <1>2, <1>5, <1>6, <2>1, <2>2, <2>3, <2>4 DEF HistoryInv
  <1>9. LocalInv(m)'
    BY <1>2, <1>7 DEF LocalInv, WithFinalizer, DeleteSteps, CreateSteps, Objects
  <1>10. HostInv(m)'
    BY <1>1, <1>2 DEF CleanupInv, HostInv, Resolve
  <1>11. \A n \in Machines : HistoryInv(n)' /\ LocalInv(n)' /\ HostInv(n)'
    BY <1>1, <1>3, <1>8, <1>9, <1>10, OtherMachines
  <1>12. NoOrphan' /\ \A s \in Slots : pods[s].phase' = "running" => pods[s].by' \in Machines
    BY <1>1, NoOrphanFrame DEF Held
  <1> QED
    BY <1>11, <1>12 DEF CleanupInv

\* A reconcile that returns forgets its copies.
LEMMA ReturnLocal ==
  ASSUME TypeOK, NEW m \in Machines, NEW result, Return(m, result)
  PROVE  /\ pc[m]' = "idle" /\ before[m]' = NoObject
         /\ LocalInv(m)'
         /\ ~HeldDeleting(before[m]')
         /\ \A n \in Machines \ {m} : /\ pc[n]' = pc[n] /\ before[n]' = before[n]
                                      /\ obj[n]' = obj[n] /\ dest[n]' = dest[n]
  <1>1. pc[m]' = "idle" /\ before[m]' = NoObject
    BY DEF TypeOK, Return, Goto
  <1>2. LocalInv(m)'
    BY <1>1 DEF LocalInv, DeleteSteps, CreateSteps
  <1>3. ~HeldDeleting(before[m]')
    BY <1>1 DEF HeldDeleting, NoObject
  <1>4. \A n \in Machines \ {m} : /\ pc[n]' = pc[n] /\ before[n]' = before[n]
                                  /\ obj[n]' = obj[n] /\ dest[n]' = dest[n]
    BY DEF TypeOK, Return, Goto
  <1> QED
    BY <1>1, <1>2, <1>3, <1>4

\* The first patch: the object is held from now on.
LEMMA AddFinalizerStep ==
  ASSUME TypeOK, CleanupInv, TypeOK', NEW m \in Machines, NEW r \in Replies, AddFinalizer(m, r)
  PROVE  CleanupInv'
  <1> DEFINE o == SpecPatched(km[m], before[m], obj[m])
             S == History(m)
  <1>1. UNCHANGED <<cache, pods, secrets, hollow>>
    BY DEF AddFinalizer, hostVars, capiVars
  <1>2. pc[m] = "addFinalizer"
    BY DEF AddFinalizer
  <1>3. /\ MachineFinalizer \notin before[m].finalizers
        /\ MachineFinalizer \in obj[m].finalizers
        /\ ~HeldDeleting(before[m])
    BY <1>2 DEF CleanupInv, LocalInv, HeldDeleting
  <1>4. km[m] \in Objects /\ o \in Objects
    BY SpecPatchedType DEF TypeOK
  <1>5. o.phase = km[m].phase /\ MachineFinalizer \in o.finalizers
    BY <1>3, <1>4 DEF SpecPatched, Objects
  <1>6. S \in Seq(Objects) /\ Len(S) >= 1 /\ S[Len(S)] = km[m] /\ Ordered(S)
    BY HistoryType DEF CleanupInv, HistoryInv
  <1>7. DeletionIn(S) => HeldDeleting(km[m])
    BY <1>2 DEF CleanupInv, HistoryInv
  <1>8. Collected(o) = o
    BY <1>5 DEF Collected
  <1>9. /\ History(m)'[Len(History(m)')] = km[m]'
        /\ Ordered(History(m)')
        /\ Held(m) => Held(m)'
        /\ r = "ok" /\ Admitted(km[m], o) => Held(m)'
        /\ \A n \in Machines \ {m} : km[n]' = km[n] /\ watch[n]' = watch[n]
    <2>1. CASE UNCHANGED apiVars /\ ~(r = "ok" /\ Admitted(km[m], o))
      BY <1>1, <1>6, <2>1 DEF apiVars, History, Held
    <2>2. CASE Admitted(km[m], o) /\ Store(m, o)
      <3>1. /\ km[m]' = o
            /\ History(m)' = IF o = km[m] THEN S ELSE Append(S, o)
            /\ \A n \in Machines \ {m} : km[n]' = km[n] /\ watch[n]' = watch[n]
        BY <1>1, <1>4, <2>2, StoreHistory
      <3>2. Held(m)'
        BY <1>5, <2>2, <3>1 DEF Held, Admitted
      <3>3. CASE ~Loose(km[m])
        <4>1. Keeps(km[m], o)
          BY <1>4, <1>5, <3>3 DEF Keeps, Loose, HeldLive, HeldDeleting
        <4> QED
          BY <1>1, <1>4, <1>6, <2>2, <3>1, <3>2, <4>1, KeepStore
      <3>4. CASE Loose(km[m])
        <4>1. MachineFinalizer \notin km[m].finalizers /\ km[m].phase = "live"
          BY <1>4, <1>5, <2>2, <3>4 DEF Admitted, Loose, HeldLive, HeldDeleting, Objects
        <4>2. HeldLive(o) /\ ~Loose(o) /\ ~HeldDeleting(o)
          BY <1>5, <4>1 DEF HeldLive, HeldDeleting, Loose
        <4>3. ~DeletionIn(S)
          BY <1>7, <3>4 DEF Loose
        <4>4. Ordered(Append(S, o))
          BY <1>4, <1>6, <4>2, <4>3, OrderedAppend DEF DeletionIn
        <4>5. o # km[m]
          BY <3>4, <4>2
        <4> QED
          BY <1>4, <1>6, <3>1, <3>2, <4>4, <4>5, AppendElements
      <3> QED
        BY <3>3, <3>4
    <2> QED
      BY <1>8, <2>1, <2>2 DEF AddFinalizer, Write
  <1> HIDE DEF o
  <1>10. CASE r = "ok" /\ Admitted(km[m], o)
    <2>1. Goto(m, "generateClient") /\ UNCHANGED localVars
      BY <1>10 DEF AddFinalizer, o
    <2>2. pc[m]' = "generateClient" /\ \A n \in Machines \ {m} : pc[n]' = pc[n]
      BY <2>1 DEF TypeOK, Goto
    <2>3. UNCHANGED <<before, obj, dest>>
      BY <2>1 DEF localVars
    <2>4. HistoryInv(m)'
      BY <1>3, <1>9, <1>10, <2>2, <2>3 DEF HistoryInv
    <2>5. LocalInv(m)'
      BY <1>2, <2>2, <2>3 DEF CleanupInv, LocalInv, DeleteSteps, CreateSteps
    <2>6. HostInv(m)'
      BY <1>1, <2>2, <2>3 DEF CleanupInv, HostInv, Resolve
    <2>7. \A n \in Machines : HistoryInv(n)' /\ LocalInv(n)' /\ HostInv(n)'
      BY <1>1, <1>9, <2>2, <2>3, <2>4, <2>5, <2>6, OtherMachines
    <2>8. NoOrphan' /\ \A s \in Slots : pods[s].phase' = "running" => pods[s].by' \in Machines
      BY <1>1, <1>9, NoOrphanFrame DEF Held
    <2> QED
      BY <2>7, <2>8 DEF CleanupInv
  <1>11. CASE Return(m, "err")
    <2>1. HistoryInv(m)'
      BY <1>9, <1>11, ReturnLocal DEF HistoryInv
    <2>2. HostInv(m)'
      BY <1>1, <1>11, ReturnLocal DEF CleanupInv, HostInv, Resolve
    <2>3. \A n \in Machines : HistoryInv(n)' /\ LocalInv(n)' /\ HostInv(n)'
      BY <1>1, <1>9, <1>11, <2>1, <2>2, ReturnLocal, OtherMachines
    <2>4. NoOrphan' /\ \A s \in Slots : pods[s].phase' = "running" => pods[s].by' \in Machines
      BY <1>1, <1>9, NoOrphanFrame DEF Held
    <2> QED
      BY <2>3, <2>4 DEF CleanupInv
  <1> QED
    BY <1>10, <1>11 DEF AddFinalizer, o

\* A step of the reconcile of m that leaves the stored object, the first copy
\* and the hosting cluster alone: what is to be shown for it.
LEMMA LocalStep ==
  ASSUME TypeOK, CleanupInv, NEW m \in Machines,
         UNCHANGED <<km, watch, cache, before, pods, secrets, hollow>>,
         pc[m] \notin {"idle", "addFinalizer", "patchStatus"}, pc[m]' # "addFinalizer",
         \A n \in Machines \ {m} : pc[n]' = pc[n] /\ obj[n]' = obj[n] /\ dest[n]' = dest[n],
         LocalInv(m)', HostInv(m)'
  PROVE  CleanupInv'
  <1>1. HistoryInv(m)'
    BY HistoryOnward DEF CleanupInv
  <1>2. \A n \in Machines : HistoryInv(n)' /\ LocalInv(n)' /\ HostInv(n)'
    BY <1>1, OtherMachines
  <1>3. NoOrphan' /\ \A s \in Slots : pods[s].phase' = "running" => pods[s].by' \in Machines
    BY NoOrphanFrame DEF Held
  <1> QED
    BY <1>2, <1>3 DEF CleanupInv

\* The client that is obtained is for the machine's own host.
LEMMA GenerateClientStep ==
  ASSUME TypeOK, CleanupInv, NEW m \in Machines, NEW r \in Replies, GenerateClient(m, r)
  PROVE  CleanupInv'
  <1>1. /\ UNCHANGED <<km, watch, cache, before, obj, pods, secrets, hollow>>
        /\ pc[m] = "generateClient"
    BY DEF GenerateClient, apiVars, hostVars, capiVars
  <1>2. /\ \A n \in Machines \ {m} : pc[n]' = pc[n] /\ dest[n]' = dest[n]
        /\ \/ pc[m]' = "patchSpec"
           \/ pc[m]' = "deletePod" /\ obj[m].phase = "deleting" /\ dest[m]' = Resolve(m)
                                   /\ Resolve(m) # NoHost
           \/ pc[m]' = "prerequisites" /\ obj[m].phase # "deleting" /\ dest[m]' = Resolve(m)
                                       /\ Resolve(m) # NoHost
    <2>1. CASE r = "ok" /\ Resolve(m) # NoHost
      <3>1. dest' = [dest EXCEPT ![m] = Resolve(m)]
        BY <2>1 DEF GenerateClient
      <3>2. CASE obj[m].phase = "deleting"
        BY <2>1, <3>1, <3>2 DEF TypeOK, GenerateClient, Goto
      <3>3. CASE obj[m].phase # "deleting" /\ obj[m].ready
        BY <2>1, <3>1, <3>3 DEF TypeOK, GenerateClient, Goto
      <3>4. CASE obj[m].phase # "deleting" /\ ~obj[m].ready
        BY <2>1, <3>1, <3>4 DEF TypeOK, GenerateClient, Goto
      <3> QED
        BY <3>2, <3>3, <3>4
    <2>2. CASE ~(r = "ok" /\ Resolve(m) # NoHost)
      BY <2>2 DEF TypeOK, GenerateClient, Finish, Goto
    <2> QED
      BY <2>1, <2>2
  <1>3. LocalInv(m) /\ HostInv(m) /\ obj[m] \in Objects
    BY DEF CleanupInv, TypeOK
  <1>4. MachineFinalizer \in obj[m].finalizers
    BY <1>1, <1>3 DEF LocalInv
  <1>5. LocalInv(m)'
    BY <1>1, <1>2, <1>3 DEF LocalInv, HostInv, DeleteSteps, CreateSteps, Objects
  <1>6. HostInv(m)'
    BY <1>1, <1>2, <1>3, <1>4 DEF HostInv, Resolve
  <1> QED
    BY <1>1, <1>2, <1>5, <1>6, LocalStep

\* The prerequisites are only looked at.
LEMMA CheckPrerequisitesStep ==
  ASSUME TypeOK, CleanupInv, NEW m \in Machines, CheckPrerequisites(m)
  PROVE  CleanupInv'
  <1>1. /\ UNCHANGED <<km, watch, cache, before, obj, dest, pods, secrets, hollow>>
        /\ pc[m] = "prerequisites"
    BY DEF CheckPrerequisites, apiVars, hostVars, capiVars
  <1>2. /\ \A n \in Machines \ {m} : pc[n]' = pc[n]
        /\ pc[m]' \in {"createSecret", "patchSpec"}
    BY DEF TypeOK, CheckPrerequisites, Finish, Goto
  <1>3. LocalInv(m) /\ HostInv(m)
    BY DEF CleanupInv
  <1>4. MachineFinalizer \in obj[m].finalizers
    BY <1>1, <1>3 DEF LocalInv
  <1>5. LocalInv(m)'
    BY <1>1, <1>2, <1>3 DEF LocalInv, DeleteSteps, CreateSteps
  <1>6. HostInv(m)'
    BY <1>1, <1>2, <1>3, <1>4 DEF HostInv, Resolve
  <1> QED
    BY <1>1, <1>2, <1>5, <1>6, LocalStep

\* The patch of the Machine object does not concern the clean-up.
LEMMA PatchMachineStep ==
  ASSUME TypeOK, CleanupInv, NEW m \in Machines, NEW r \in Replies, PatchMachine(m, r)
  PROVE  CleanupInv'
  <1>1. /\ UNCHANGED <<km, watch, cache, before, obj, dest, pods, secrets, hollow>>
        /\ pc[m] = "patchMachine"
    BY DEF PatchMachine, apiVars, localVars, hostVars
  <1>2. /\ \A n \in Machines \ {m} : pc[n]' = pc[n]
        /\ pc[m]' = "patchSpec"
    BY DEF TypeOK, PatchMachine, Goto
  <1>3. LocalInv(m) /\ HostInv(m)
    BY DEF CleanupInv
  <1>4. MachineFinalizer \in obj[m].finalizers
    BY <1>1, <1>3 DEF LocalInv
  <1>5. LocalInv(m)'
    BY <1>1, <1>2, <1>3 DEF LocalInv, DeleteSteps, CreateSteps
  <1>6. HostInv(m)'
    BY <1>1, <1>2, <1>3, <1>4 DEF HostInv, Resolve
  <1> QED
    BY <1>1, <1>2, <1>5, <1>6, LocalStep

\* The slot a deleting or creating reconcile works on is the machine's own.
LEMMA OwnSlot ==
  ASSUME TypeOK, CleanupInv, NEW m \in Machines, pc[m] \in DeleteSteps \union CreateSteps
  PROVE  Slot(m) = <<Home[m], NameOf[m]>> /\ Slot(m) \in Slots
  BY MachineAssumption DEF CleanupInv, LocalInv, Slot, Slots

\* After the pod's deletion was accepted no pod of m runs.
LEMMA DeletePodStep ==
  ASSUME TypeOK, CleanupInv, NEW m \in Machines, NEW r \in Replies, DeletePod(m, r)
  PROVE  CleanupInv'
  <1>1. /\ UNCHANGED <<km, watch, cache, before, obj, dest, secrets, hollow>>
        /\ pc[m] = "deletePod"
    BY DEF DeletePod, apiVars, capiVars
  <1>2. /\ \A n \in Machines \ {m} : pc[n]' = pc[n]
        /\ pc[m]' \in {"deleteSecret", "patchSpec"}
        /\ pc[m]' = "deleteSecret" => r = "ok"
    BY DEF TypeOK, DeletePod, DeleteFails, Finish, Goto
  <1>3. LocalInv(m) /\ HostInv(m) /\ HistoryInv(m)
    BY DEF CleanupInv
  <1>4. MachineFinalizer \in obj[m].finalizers
    BY <1>1, <1>3 DEF LocalInv
  <1>5. Slot(m) = <<Home[m], NameOf[m]>> /\ Slot(m) \in Slots
    BY <1>1, OwnSlot DEF DeleteSteps
  <1>6. ASSUME NEW s \in Slots
        PROVE  /\ pods[s].by' = pods[s].by
               /\ pods[s].phase' = "running" => pods[s].phase = "running"
               /\ r = "ok" /\ s = Slot(m) => pods[s].phase' # "running"
    <2>1. pods[s] \in Pods
      BY DEF TypeOK
    <2> QED
      BY <1>5, <2>1 DEF TypeOK, DeletePod, Terminated, Pods
  <1>7. HistoryInv(m)'
    BY <1>1, <1>2, <1>3, HistoryOnward
  <1>8. LocalInv(m)'
    BY <1>1, <1>2, <1>3 DEF LocalInv, DeleteSteps, CreateSteps
  <1>9. HostInv(m)'
    BY <1>1, <1>2, <1>3, <1>4, <1>5, <1>6 DEF HostInv, Resolve
  <1>10. \A n \in Machines : HistoryInv(n)' /\ LocalInv(n)' /\ HostInv(n)'
    BY <1>1, <1>2, <1>6, <1>7, <1>8, <1>9, OtherMachines
  <1>11. NoOrphan' /\ \A s \in Slots : pods[s].phase' = "running" => pods[s].by' \in Machines
    BY <1>1, <1>6, NoOrphanFrame DEF Held
  <1> QED
    BY <1>10, <1>11 DEF CleanupInv

\* After the secret's deletion was accepted neither is left, and only then the
\* finalizer is taken off the copy.
LEMMA DeleteSecretStep ==
  ASSUME TypeOK, CleanupInv, NEW m \in Machines, NEW r \in Replies, DeleteSecret(m, r)
  PROVE  CleanupInv'
  <1>1. /\ UNCHANGED <<km, watch, cache, before, dest, pods, hollow>>
        /\ pc[m] = "deleteSecret"
    BY DEF DeleteSecret, apiVars, capiVars
  <1>2. /\ \A n \in Machines \ {m} : pc[n]' = pc[n] /\ obj[n]' = obj[n]
        /\ pc[m]' = "patchSpec"
        /\ obj[m]' = IF r = "ok" THEN WithoutFinalizer(obj[m]) ELSE obj[m]
    BY DEF TypeOK, DeleteSecret, DeleteFails, Finish, Goto
  <1>3. LocalInv(m) /\ HostInv(m) /\ HistoryInv(m) /\ obj[m] \in Objects
    BY DEF CleanupInv, TypeOK
  <1>4. /\ obj[m].finalizers = before[m].finalizers \union {MachineFinalizer}
        /\ obj[m].phase = "deleting" /\ before[m].phase = "deleting"
    BY <1>1, <1>3 DEF LocalInv, DeleteSteps
  <1>5. Slot(m) = <<Home[m], NameOf[m]>> /\ Slot(m) \in Slots
    BY <1>1, OwnSlot DEF DeleteSteps
  <1>6. ASSUME NEW s \in Slots
        PROVE  /\ secrets[s]' \in {secrets[s], Nobody}
               /\ r = "ok" /\ s = Slot(m) => secrets[s]' = Nobody
    BY <1>5 DEF TypeOK, DeleteSecret
  <1>7. \A s \in Slots, n \in Machines : secrets[s]' = n => secrets[s] = n
    BY <1>6, MachineAssumption
  <1>8. HistoryInv(m)'
    BY <1>1, <1>2, <1>3, HistoryOnward
  <1>9. /\ obj[m]'.phase = "deleting"
        /\ obj[m]'.finalizers = IF r = "ok" THEN before[m].finalizers \ {MachineFinalizer}
                                            ELSE before[m].finalizers \union {MachineFinalizer}
    BY <1>2, <1>3, <1>4 DEF WithoutFinalizer, Objects
  <1>10. LocalInv(m)'
    BY <1>1, <1>2, <1>4, <1>9 DEF LocalInv, DeleteSteps, CreateSteps
  <1>11. HostInv(m)'
    <2>1. \A s \in Slots : pods[s].by = m => pods[s].phase # "running"
      BY <1>1, <1>3 DEF HostInv
    <2>2. MachineFinalizer \notin obj[m]'.finalizers => \A s \in Slots : secrets[s]' # m
      BY <1>3, <1>5, <1>6, <1>7, <1>9, MachineAssumption DEF HostInv
    <2>3. Resolve(m)' = Resolve(m)
      BY <1>1 DEF Resolve
    <2>4. \A s \in Slots : pods[s].by = m \/ secrets[s]' = m => s = <<Home[m], NameOf[m]>>
      BY <1>3, <1>7 DEF HostInv
    <2> QED
      BY <1>1, <1>2, <1>3, <2>1, <2>2, <2>3, <2>4 DEF HostInv
  <1>12. \A n \in Machines : HistoryInv(n)' /\ LocalInv(n)' /\ HostInv(n)'
    BY <1>1, <1>2, <1>7, <1>8, <1>10, <1>11, OtherMachines
  <1>13. NoOrphan' /\ \A s \in Slots : pods[s].phase' = "running" => pods[s].by' \in Machines
    BY <1>1, <1>6, NoOrphanFrame DEF Held
  <1> QED
    BY <1>12, <1>13 DEF CleanupInv

\* A reconcile that creates works on a held object.
LEMMA CreatorIsHeld ==
  ASSUME TypeOK, CleanupInv, NEW m \in Machines, pc[m] \in CreateSteps
  PROVE  Held(m)
  <1>1. LocalInv(m) /\ HistoryInv(m)
    BY DEF CleanupInv
  <1>2. before[m].phase = "live" /\ pc[m] \notin {"idle", "addFinalizer", "patchStatus"}
    BY <1>1 DEF LocalInv, CreateSteps
  <1>3. ~HeldDeleting(before[m])
    BY <1>2 DEF HeldDeleting
  <1> QED
    BY <1>1, <1>2, <1>3 DEF HistoryInv

\* The secret is created for a held object, in the machine's own slot.
LEMMA CreateSecretStep ==
  ASSUME TypeOK, CleanupInv, NEW m \in Machines, NEW r \in Replies, CreateSecret(m, r)
  PROVE  CleanupInv'
  <1>1. /\ UNCHANGED <<km, watch, cache, before, obj, dest, pods, hollow>>
        /\ pc[m] = "createSecret"
    BY DEF CreateSecret, apiVars, capiVars
  <1>2. /\ \A n \in Machines \ {m} : pc[n]' = pc[n]
        /\ pc[m]' \in {"createPod", "patchSpec"}
    BY DEF TypeOK, CreateSecret, Finish, Goto
  <1>3. LocalInv(m) /\ HostInv(m) /\ HistoryInv(m)
    BY DEF CleanupInv
  <1>4. MachineFinalizer \in obj[m].finalizers
    BY <1>1, <1>3 DEF LocalInv
  <1>5. Slot(m) = <<Home[m], NameOf[m]>> /\ Slot(m) \in Slots
    BY <1>1, OwnSlot DEF CreateSteps
  <1>6. \A s \in Slots : secrets[s]' = secrets[s] \/ (secrets[s]' = m /\ s = Slot(m))
    BY <1>5 DEF TypeOK, CreateSecret
  <1>7. HistoryInv(m)'
    BY <1>1, <1>2, <1>3, HistoryOnward
  <1>8. LocalInv(m)'
    BY <1>1, <1>2, <1>3 DEF LocalInv, DeleteSteps, CreateSteps
  <1>9. HostInv(m)'
    BY <1>1, <1>2, <1>3, <1>4, <1>5, <1>6 DEF HostInv, Resolve
  <1>10. \A n \in Machines : HistoryInv(n)' /\ LocalInv(n)' /\ HostInv(n)'
    BY <1>1, <1>2, <1>6, <1>7, <1>8, <1>9, OtherMachines
  <1>11. Held(m)
    BY <1>1, CreatorIsHeld DEF CreateSteps
  <1>12. \A n : Held(n)' = Held(n)
    BY <1>1 DEF Held
  <1>13. NoOrphan'
    BY <1>1, <1>6, <1>11, <1>12 DEF CleanupInv, NoOrphan
  <1> QED
    BY <1>1, <1>10, <1>13 DEF CleanupInv

\* So is the pod.
LEMMA CreatePodStep ==
  ASSUME TypeOK, CleanupInv, NEW m \in Machines, NEW r \in Replies, CreatePod(m, r)
  PROVE  CleanupInv'
  <1>1. /\ UNCHANGED <<km, watch, cache, before, dest, secrets, hollow>>
        /\ pc[m] = "createPod"
    BY DEF CreatePod, apiVars, capiVars
  <1>2. /\ \A n \in Machines \ {m} : pc[n]' = pc[n] /\ obj[n]' = obj[n]
        /\ pc[m]' \in {"patchMachine", "patchSpec"}
        /\ obj[m]' \in {obj[m], Provisioned(obj[m])}
    BY DEF TypeOK, CreatePod, Finish, Goto
  <1>3. LocalInv(m) /\ HostInv(m) /\ HistoryInv(m) /\ obj[m] \in Objects
    BY DEF CleanupInv, TypeOK
  <1>4. obj[m]'.finalizers = obj[m].finalizers /\ obj[m]'.phase = obj[m].phase
    BY <1>2, <1>3 DEF Provisioned, Objects
  <1>5. MachineFinalizer \in obj[m].finalizers
    BY <1>1, <1>3 DEF LocalInv
  <1>6. Slot(m) = <<Home[m], NameOf[m]>> /\ Slot(m) \in Slots
    BY <1>1, OwnSlot DEF CreateSteps
  <1>7. \A s \in Slots : pods[s]' = pods[s] \/ (pods[s].by' = m /\ s = Slot(m))
    BY <1>6 DEF TypeOK, CreatePod
  <1>8. HistoryInv(m)'
    BY <1>1, <1>2, <1>3, HistoryOnward
  <1>9. LocalInv(m)'
    BY <1>1, <1>2, <1>3, <1>4 DEF LocalInv, DeleteSteps, CreateSteps
  <1>10. HostInv(m)'
    BY <1>1, <1>2, <1>3, <1>4, <1>5, <1>6, <1>7 DEF HostInv, Resolve
  <1>11. \A n \in Machines : HistoryInv(n)' /\ LocalInv(n)' /\ HostInv(n)'
    BY <1>1, <1>2, <1>7, <1>8, <1>9, <1>10, OtherMachines
  <1>12. Held(m)
    BY <1>1, CreatorIsHeld DEF CreateSteps
  <1>13. \A n : Held(n)' = Held(n)
    BY <1>1 DEF Held
  <1>14. NoOrphan' /\ \A s \in Slots : pods[s].phase' = "running" => pods[s].by' \in Machines
    BY <1>1, <1>7, <1>12, <1>13 DEF CleanupInv, NoOrphan
  <1> QED
    BY <1>11, <1>14 DEF CleanupInv

\* A version without the finalizer may end a history that only falls.
LEMMA LooseAppend ==
  ASSUME NEW S \in Seq(Objects), NEW o \in Objects, Ordered(S), Len(S) >= 1, Falling(S), Loose(o)
  PROVE  Ordered(Append(S, o)) /\ Falling(Append(S, o))
  <1>1. Ordered(Append(S, o))
    <2>1. \A i \in 1..Len(S) : HeldLive(S[i]) => ~Loose(o)
      BY DEF Falling
    <2>2. ~HeldLive(o) /\ ~HeldDeleting(o)
      BY DEF Loose
    <2>3. \A i, j \in 1..Len(S) : i < j /\ Loose(S[i]) /\ HeldDeleting(S[j]) => HeldDeleting(o)
      BY DEF Falling
    <2> QED
      BY <2>1, <2>2, <2>3, OrderedAppend
  <1>2. Falling(Append(S, o))
    <2> DEFINE T == Append(S, o)
               n == Len(S)
    <2>1. n \in Nat /\ Len(T) = n + 1 /\ T[n + 1] = o /\ \A i \in 1..n : T[i] = S[i]
      BY AppendElements
    <2> HIDE DEF T
    <2>2. ASSUME NEW i \in 1..(n+1)
          PROVE  ~HeldLive(T[i])
      <3>1. CASE i \in 1..n
        BY <2>1, <3>1 DEF Falling
      <3>2. CASE i = n + 1
        BY <2>1, <3>2 DEF Loose
      <3> QED
        BY <2>1, <3>1, <3>2
    <2>3. ASSUME NEW i \in 1..(n+1), NEW j \in 1..(n+1), i < j, Loose(T[i])
          PROVE  ~HeldDeleting(T[j])
      <3>1. i \in 1..n /\ T[i] = S[i]
        BY <2>1, <2>3
      <3>2. CASE j \in 1..n
        BY <2>1, <2>3, <3>1, <3>2 DEF Falling
      <3>3. CASE j = n + 1
        BY <2>1, <3>3 DEF Loose
      <3> QED
        BY <2>1, <3>2, <3>3
    <2> QED
      BY <2>1, <2>2, <2>3 DEF Falling, T
  <1> QED
    BY <1>1, <1>2

\* The deferred patch of metadata and spec: it removes the finalizer only for
\* a reconcile that has deleted both objects, and in a history that ends there.
LEMMA PatchSpecStep ==
  ASSUME TypeOK, CleanupInv, TypeOK', NEW m \in Machines, NEW r \in Replies, PatchSpec(m, r)
  PROVE  CleanupInv'
  <1> DEFINE b == before[m]
             a == obj[m]
             o == SpecPatched(km[m], b, a)
             S == History(m)
             clean == \A s \in Slots : /\ pods[s].by = m => pods[s].phase # "running"
                                       /\ secrets[s] # m
  <1>1. /\ UNCHANGED <<cache, before, obj, dest, pods, secrets, hollow>>
        /\ pc[m] = "patchSpec"
    BY DEF PatchSpec, localVars, hostVars, capiVars
  <1>2. pc[m]' = "patchStatus" /\ \A n \in Machines \ {m} : pc[n]' = pc[n]
    BY DEF TypeOK, PatchSpec, Goto
  <1>3. LocalInv(m) /\ HostInv(m) /\ HistoryInv(m)
    BY DEF CleanupInv
  <1>4. km[m] \in Objects /\ a \in Objects /\ b \in Objects /\ o \in Objects
    BY SpecPatchedType DEF TypeOK
  <1>5. S \in Seq(Objects) /\ Len(S) >= 1 /\ S[Len(S)] = km[m] /\ Ordered(S)
    BY <1>3, HistoryType DEF HistoryInv
  <1>6. /\ o.phase = km[m].phase
        /\ o.finalizers = IF a.finalizers = b.finalizers THEN km[m].finalizers ELSE a.finalizers
    BY <1>4 DEF SpecPatched, Objects
  <1>7. HeldDeleting(b) => Falling(S)
    BY <1>3 DEF HistoryInv
  <1>8. \/ a.finalizers = b.finalizers \union {MachineFinalizer}
        \/ b.phase = "deleting" /\ a.finalizers = b.finalizers \ {MachineFinalizer}
    BY <1>1, <1>3 DEF LocalInv
  <1>9. MachineFinalizer \notin a.finalizers => clean
    BY <1>1, <1>3 DEF HostInv
  <1>10. \/ km[m].phase # "none" => Keeps(km[m], o)
         \/ Falling(S) /\ Loose(o) /\ clean
    <2>1. CASE a.finalizers = b.finalizers
      BY <1>4, <1>6, <2>1 DEF Keeps, Loose, HeldLive, HeldDeleting
    <2>2. CASE a.finalizers # b.finalizers /\ a.finalizers = b.finalizers \union {MachineFinalizer}
      <3>1. ~HeldDeleting(b)
        BY <2>2 DEF HeldDeleting
      <3>2. Held(m)
        BY <1>1, <1>3, <3>1 DEF HistoryInv
      <3>3. MachineFinalizer \in km[m].finalizers /\ MachineFinalizer \in o.finalizers
        BY <1>6, <2>2, <3>2 DEF Held
      <3> QED
        BY <1>6, <3>3 DEF Keeps, Loose, HeldLive, HeldDeleting
    <2>3. CASE /\ a.finalizers # b.finalizers
               /\ b.phase = "deleting" /\ a.finalizers = b.finalizers \ {MachineFinalizer}
      <3>1. HeldDeleting(b)
        BY <2>3 DEF HeldDeleting
      <3>2. Loose(o)
        BY <1>6, <2>3 DEF Loose, HeldLive, HeldDeleting
      <3> QED
        BY <1>7, <1>9, <2>3, <3>1, <3>2
    <2> QED
      BY <1>8, <2>1, <2>2, <2>3
  <1> HIDE DEF o, a, b, clean
  <1>11. /\ History(m)'[Len(History(m)')] = km[m]'
         /\ Ordered(History(m)')
         /\ Falling(S) => Falling(History(m)')
         /\ clean \/ (Held(m) => Held(m)')
         /\ \A n \in Machines \ {m} : km[n]' = km[n] /\ watch[n]' = watch[n]
    <2>1. CASE UNCHANGED apiVars
      BY <1>1, <1>5, <2>1 DEF apiVars, History, Held
    <2>2. CASE Admitted(km[m], o) /\ Store(m, Collected(o))
      <3> DEFINE w == Collected(o)
      <3>1. /\ w \in Objects
            /\ Loose(o) <=> Loose(w)
            /\ HeldDeleting(o) <=> HeldDeleting(w)
        BY <1>4, CollectedType, CollectedKeeps
      <3> HIDE DEF w
      <3>2. /\ km[m]' = w
            /\ History(m)' = IF w = km[m] THEN S ELSE Append(S, w)
            /\ \A n \in Machines \ {m} : km[n]' = km[n] /\ watch[n]' = watch[n]
        BY <1>1, <2>2, <3>1, StoreHistory DEF w
      <3>3. CASE Keeps(km[m], o)
        <4>1. Keeps(km[m], w)
          BY <3>1, <3>3 DEF Keeps
        <4>2. Held(m) => Held(m)'
          BY <1>4, <3>1, <3>2, <4>1, HeldIsNotLoose DEF Keeps, Held
        <4> QED
          BY <1>1, <1>5, <2>2, <3>1, <3>2, <4>1, <4>2, KeepStore DEF w
      <3>4. CASE Falling(S) /\ Loose(o) /\ clean
        <4>1. Ordered(Append(S, w)) /\ Falling(Append(S, w))
          BY <1>5, <3>1, <3>4, LooseAppend
        <4>2. History(m)'[Len(History(m)')] = km[m]'
          BY <1>5, <3>1, <3>2, AppendElements
        <4> QED
          BY <1>5, <3>2, <3>4, <4>1, <4>2
      <3> QED
        BY <1>10, <2>2, <3>3, <3>4 DEF Admitted
    <2> QED
      BY <2>1, <2>2 DEF PatchSpec, Write, o, a, b
  <1>12. HistoryInv(m)'
    BY <1>1, <1>2, <1>7, <1>11 DEF HistoryInv, b
  <1>13. LocalInv(m)'
    BY <1>1, <1>2, <1>3 DEF LocalInv, DeleteSteps, CreateSteps
  <1>14. HostInv(m)'
    BY <1>1, <1>2, <1>3 DEF HostInv, Resolve
  <1>15. \A n \in Machines : HistoryInv(n)' /\ LocalInv(n)' /\ HostInv(n)'
    BY <1>1, <1>2, <1>11, <1>12, <1>13, <1>14, OtherMachines
  <1>16. \A n \in Machines \ {m} : Held(n)' = Held(n)
    BY <1>11 DEF Held
  <1>17. NoOrphan'
    <2>1. ASSUME NEW s \in Slots, pods[s].phase = "running" PROVE Held(pods[s].by)'
      <3>1. pods[s].by \in Machines /\ Held(pods[s].by)
        BY <2>1 DEF CleanupInv, NoOrphan
      <3> QED
        BY <1>1, <1>11, <1>16, <2>1, <3>1 DEF clean
    <2>2. ASSUME NEW s \in Slots, secrets[s] # Nobody PROVE Held(secrets[s])'
      <3>1. secrets[s] \in Machines /\ Held(secrets[s])
        BY <2>2 DEF CleanupInv, NoOrphan, TypeOK
      <3> QED
        BY <1>1, <1>11, <1>16, <2>2, <3>1 DEF clean
    <2> QED
      BY <1>1, <2>1, <2>2 DEF NoOrphan
  <1> QED
    BY <1>1, <1>15, <1>17 DEF CleanupInv

\* The patch of the status leaves finalizers and phase alone.
LEMMA PatchStatusStep ==
  ASSUME TypeOK, CleanupInv, TypeOK', NEW m \in Machines, NEW r \in Replies, PatchStatus(m, r)
  PROVE  CleanupInv'
  <1> DEFINE o == StatusPatched(km[m], before[m], obj[m])
             S == History(m)
  <1>1. UNCHANGED <<cache, pods, secrets, hollow>> /\ Return(m, ret[m])
    BY DEF PatchStatus, hostVars, capiVars
  <1>2. km[m] \in Objects /\ o \in Objects
    BY StatusPatchedType DEF TypeOK
  <1>3. S \in Seq(Objects) /\ Len(S) >= 1 /\ S[Len(S)] = km[m] /\ Ordered(S)
    BY HistoryType DEF CleanupInv, HistoryInv
  <1>4. o.phase = km[m].phase /\ o.finalizers = km[m].finalizers
    BY <1>2 DEF StatusPatched, Objects
  <1>5. Keeps(km[m], o)
    BY <1>4 DEF Keeps, Loose, HeldLive, HeldDeleting
  <1>6. Collected(o) \in Objects /\ Keeps(km[m], Collected(o))
    BY <1>2, <1>5, CollectedType, CollectedKeeps DEF Keeps
  <1>7. /\ History(m)'[Len(History(m)')] = km[m]'
        /\ Ordered(History(m)')
        /\ Held(m) => Held(m)'
        /\ \A n \in Machines \ {m} : km[n]' = km[n] /\ watch[n]' = watch[n]
    <2>1. CASE UNCHANGED apiVars
      BY <1>1, <1>3, <2>1 DEF apiVars, History, Held
    <2>2. CASE Store(m, Collected(o))
      <3>1. /\ km[m]' = Collected(o)
            /\ \A n \in Machines \ {m} : km[n]' = km[n] /\ watch[n]' = watch[n]
        BY <1>1, <1>6, <2>2, StoreHistory
      <3>2. Held(m) => Held(m)'
        BY <1>2, <1>6, <3>1, HeldIsNotLoose DEF Keeps, Held
      <3> QED
        BY <1>1, <1>3, <1>6, <2>2, <3>1, <3>2, KeepStore
    <2> QED
      BY <2>1, <2>2 DEF PatchStatus, Write
  <1>8. HistoryInv(m)'
    BY <1>1, <1>7, ReturnLocal DEF HistoryInv
  <1>9. HostInv(m)'
    BY <1>1, ReturnLocal DEF CleanupInv, HostInv, Resolve
  <1>10. \A n \in Machines : HistoryInv(n)' /\ LocalInv(n)' /\ HostInv(n)'
    BY <1>1, <1>7, <1>8, <1>9, ReturnLocal, OtherMachines
  <1>11. NoOrphan' /\ \A s \in Slots : pods[s].phase' = "running" => pods[s].by' \in Machines
    BY <1>1, <1>7, NoOrphanFrame DEF Held
  <1> QED
    BY <1>10, <1>11 DEF CleanupInv

-----------------------------------------------------------------------------
(***************************************************************************)
(* The theorem.                                                            *)
(***************************************************************************)

\* Every step of the system keeps the invariant.
LEMMA CleanupNext ==
  ASSUME "retarget" \notin Disruptions
  PROVE  TypeOK /\ CleanupInv /\ [Next]_vars => CleanupInv'
  <1> SUFFICES ASSUME TypeOK, CleanupInv, [Next]_vars PROVE CleanupInv'
    OBVIOUS
  <1>0. TypeOK'
    BY NextType
  <1> USE DEF apiVars, localVars, workVars, hostVars, capiVars, boundVars
  <1>1. ASSUME NEW m \in Machines, Start(m) PROVE CleanupInv'
    <2>1. CASE FetchNothing(m)
      BY <2>1, QuietStep DEF FetchNothing
    <2>2. CASE FetchFails(m)
      BY <2>2, QuietStep DEF FetchFails, vars
    <2>3. CASE Fetch(m)
      BY <2>3, FetchStep
    <2> QED
      BY <1>1, <2>1, <2>2, <2>3 DEF Start
  <1>2. ASSUME NEW m \in Machines, Continue(m) PROVE CleanupInv'
    BY <1>0, <1>2, CheckPrerequisitesStep, AddFinalizerStep, GenerateClientStep, DeletePodStep,
       DeleteSecretStep, CreateSecretStep, CreatePodStep, PatchMachineStep, PatchSpecStep,
       PatchStatusStep DEF Continue
  <1>3. ASSUME NEW m \in Machines, Deliver(m) PROVE CleanupInv'
    BY <1>3, DeliverStep
  <1>4. ASSUME NEW m \in Machines, Resync(m) PROVE CleanupInv'
    BY <1>4, QuietStep DEF Resync
  <1>5. ASSUME NEW m \in Machines, Environment(m) PROVE CleanupInv'
    BY <1>0, <1>5, EnvironmentStep
  <1>6. ASSUME NEW s \in Slots, PodGone(s) PROVE CleanupInv'
    BY <1>6, PodGoneStep
  <1>7. CASE ClusterEvent
    BY <1>7, QuietStep DEF ClusterEvent
  <1>8. CASE ClusterSecretsReady
    BY <1>8, QuietStep DEF ClusterSecretsReady
  <1>9. CASE CrashRestart
    BY <1>9, CrashRestartStep
  <1>10. CASE UNCHANGED vars
    BY <1>10, QuietStep DEF vars
  <1> QED
    BY <1>1, <1>2, <1>3, <1>4, <1>5, <1>6, <1>7, <1>8, <1>9, <1>10 DEF Next

\* The system starts in it.
LEMMA CleanupInit == Init => CleanupInv
  <1> SUFFICES ASSUME Init PROVE CleanupInv
    OBVIOUS
  <1>1. \A s \in Slots : pods[s] = NoPod /\ secrets[s] = Nobody
    BY DEF Init
  <1>2. ASSUME NEW m \in Machines
        PROVE  HistoryInv(m) /\ LocalInv(m) /\ HostInv(m)
    <2>1. /\ cache[m] = NoObject /\ watch[m] = <<>> /\ km[m] = NoObject
          /\ pc[m] = "idle" /\ before[m] = NoObject
      BY DEF Init
    <2>2. History(m) = <<NoObject>>
      BY <2>1 DEF History
    <2>3. ~HeldDeleting(NoObject)
      BY DEF HeldDeleting, NoObject
    <2>4. Ordered(<<NoObject>>)
      BY DEF Ordered
    <2>5. HistoryInv(m)
      BY <2>1, <2>2, <2>3, <2>4 DEF HistoryInv
    <2>6. LocalInv(m)
      BY <2>1 DEF LocalInv, DeleteSteps, CreateSteps
    <2>7. Resolve(m) = Home[m]
      BY DEF Init
    <2>8. HostInv(m)
      BY <1>1, <2>1, <2>7, MachineAssumption DEF HostInv, NoPod
    <2> QED
      BY <2>5, <2>6, <2>8
  <1>3. NoOrphan /\ \A s \in Slots : pods[s].phase = "running" => pods[s].by \in Machines
    BY <1>1 DEF NoOrphan, NoPod
  <1> QED
    BY <1>2, <1>3 DEF CleanupInv

\* The inductive invariant holds in every behaviour in which the hollow-pod
\* cluster Secret, whenever it can be read, names the same host (Reconcile,
\* from AddFinalizer to the deferred patch; GenerateKubemarkClusterClient).
THEOREM CleanupInvariant ==
  ASSUME "retarget" \notin Disruptions
  PROVE  Spec => []CleanupInv
  <1>1. Init => TypeOK /\ CleanupInv
    BY InitType, CleanupInit
  <1>2. (TypeOK /\ CleanupInv) /\ [Next]_vars => (TypeOK /\ CleanupInv)'
    BY NextType, CleanupNext
  <1> QED
    BY <1>1, <1>2, PTL DEF Spec

\* No pod and no secret is orphaned, whatever calls fail or lose their reply,
\* however far the cache lags, however often the manager crashes and the
\* machine is created anew (MachineFinalizer in Reconcile).
THEOREM NothingIsOrphaned ==
  ASSUME "retarget" \notin Disruptions
  PROVE  Spec => []NoOrphan
  <1>1. CleanupInv => NoOrphan
    BY DEF CleanupInv
  <1> QED
    BY <1>1, CleanupInvariant, PTL

=============================================================================
