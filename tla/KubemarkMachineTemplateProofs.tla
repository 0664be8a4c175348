-------------------- MODULE KubemarkMachineTemplateProofs --------------------
(***************************************************************************)
(* Proofs about KubemarkMachineTemplate: the capacity it publishes is      *)
(* complete, and exact once the controller is at rest, for all resources,  *)
(* quantities and bounds.  The first part is about maps of resources, what *)
(* a JSON merge patch does to them in particular.                          *)
(***************************************************************************)
EXTENDS KubemarkMachineTemplate, SequenceTheorems, TLAPS

\* What it takes to be a map of resources.
LEMMA ListDef ==
    ASSUME NEW l
    PROVE  l \in ResourceLists <=>
               /\ l = [k \in DOMAIN l |-> l[k]]
               /\ DOMAIN l \subseteq ResourceNames
               /\ \A k \in DOMAIN l : l[k] \in Quantities
<1>1. ASSUME l \in ResourceLists
      PROVE  /\ l = [k \in DOMAIN l |-> l[k]]
             /\ DOMAIN l \subseteq ResourceNames
             /\ \A k \in DOMAIN l : l[k] \in Quantities
  <2>1. PICK N \in SUBSET ResourceNames : l \in [N -> Quantities]
    BY <1>1 DEF ResourceLists
  <2> QED
    BY <2>1
<1>2. ASSUME l = [k \in DOMAIN l |-> l[k]], DOMAIN l \subseteq ResourceNames,
             \A k \in DOMAIN l : l[k] \in Quantities
      PROVE  l \in ResourceLists
  <2>1. l \in [DOMAIN l -> Quantities] /\ DOMAIN l \in SUBSET ResourceNames
    BY <1>2
  <2> QED
    BY <2>1 DEF ResourceLists
<1> QED
  BY <1>1, <1>2

\* Two maps with the same entries are equal.
LEMMA SameList ==
    ASSUME NEW l \in ResourceLists, NEW m \in ResourceLists,
           DOMAIN l = DOMAIN m, \A k \in DOMAIN l : l[k] = m[k]
    PROVE  l = m
BY ListDef

\* The empty map is the one without entries.
LEMMA EmptyIsList ==
    /\ EmptyList \in ResourceLists /\ DOMAIN EmptyList = {}
    /\ \A l \in ResourceLists : DOMAIN l = {} => l = EmptyList
<1>1. EmptyList \in ResourceLists /\ DOMAIN EmptyList = {}
  BY ListDef DEF EmptyList
<1> QED
  BY <1>1, SameList

LEMMA OverlayList ==
    ASSUME NEW c \in ResourceLists, NEW d \in ResourceLists
    PROVE  /\ Overlay(c, d) \in ResourceLists
           /\ DOMAIN Overlay(c, d) = DOMAIN c \union DOMAIN d
           /\ \A k \in DOMAIN d : Overlay(c, d)[k] = d[k]
           /\ \A k \in DOMAIN c \ DOMAIN d : Overlay(c, d)[k] = c[k]
<1> DEFINE o == Overlay(c, d)
<1>1. /\ o = [k \in DOMAIN c \union DOMAIN d |-> IF k \in DOMAIN d THEN d[k] ELSE c[k]]
  BY DEF Overlay
<1> HIDE DEF o
<1>2. /\ DOMAIN o = DOMAIN c \union DOMAIN d
      /\ \A k \in DOMAIN d : o[k] = d[k]
      /\ \A k \in DOMAIN c \ DOMAIN d : o[k] = c[k]
      /\ o = [k \in DOMAIN o |-> o[k]]
  BY <1>1
<1>3. o \in ResourceLists
  BY <1>2, ListDef
<1> QED
  BY <1>2, <1>3 DEF o

\* Writing a map keeps its keys, and writing it twice changes nothing.
LEMMA EncodedList ==
    ASSUME NEW l \in ResourceLists
    PROVE  /\ Encoded(l) \in ResourceLists /\ DOMAIN Encoded(l) = DOMAIN l
           /\ \A k \in DOMAIN l : Encoded(l)[k] = Canonical[l[k]]
           /\ Encoded(Encoded(l)) = Encoded(l)
<1> DEFINE e == Encoded(l)
<1>1. e = [k \in DOMAIN l |-> Canonical[l[k]]] /\ Encoded(e) = [k \in DOMAIN e |-> Canonical[e[k]]]
  BY DEF Encoded
<1> HIDE DEF e
<1>2. \A k \in DOMAIN l : l[k] \in Quantities
  BY ListDef
<1>3. DOMAIN e = DOMAIN l /\ \A k \in DOMAIN l : e[k] = Canonical[l[k]]
  BY <1>1
<1>4. e \in ResourceLists
  <2>1. e = [k \in DOMAIN e |-> e[k]]
    BY <1>1
  <2>2. DOMAIN e \subseteq ResourceNames
    BY <1>3, ListDef
  <2>3. \A k \in DOMAIN e : e[k] \in Quantities
    BY <1>2, <1>3, ResourceAssumption
  <2> QED
    BY <2>1, <2>2, <2>3, ListDef
<1>5. \A k \in DOMAIN e : Canonical[e[k]] = e[k]
  BY <1>2, <1>3, ResourceAssumption
<1>6. Encoded(e) = e
  <2>1. e = [k \in DOMAIN e |-> e[k]]
    BY <1>1
  <2> QED
    BY <1>1, <1>5, <2>1
<1> QED
  BY <1>3, <1>4, <1>6 DEF e

LEMMA EncodedEmpty ==
    Encoded(EmptyList) = EmptyList
BY EmptyIsList, EncodedList

\* The capacity of a template is a map with at least cpu and memory.
LEMMA CapacityList ==
    ASSUME NEW t, t.options \in OptionValues
    PROVE  CapacityOf(t) \in ResourceLists /\ {"cpu", "memory"} \subseteq DOMAIN CapacityOf(t)
<1>1. t.options.list \in ResourceLists
  BY EmptyIsList DEF OptionValues
<1>2. Defaults \in ResourceLists /\ DOMAIN Defaults = {"cpu", "memory"}
  BY ListDef, ResourceAssumption DEF Defaults
<1> QED
  BY <1>1, <1>2, OverlayList DEF CapacityOf, getKubemarkExtendedResources

\* The entries of a that a merge patch from b to a carries.
Changed(b, a) == {k \in DOMAIN a : k \notin DOMAIN b \/ a[k] # b[k]}

\* What a merge patch from b to a makes of a stored map c.
Merges(m, c, b, a) ==
    /\ m \in ResourceLists
    /\ DOMAIN m = (DOMAIN c \union Changed(b, a)) \ (DOMAIN b \ DOMAIN a)
    /\ \A k \in DOMAIN m : m[k] = IF k \in Changed(b, a) THEN a[k] ELSE c[k]

LEMMA MergeList ==
    ASSUME NEW c \in ResourceLists, NEW b \in ResourceLists, NEW a \in ResourceLists
    PROVE  Merges(MergePatched(c, b, a), c, b, a)
<1> DEFINE changed == Changed(b, a)
           removed == DOMAIN b \ DOMAIN a
           d == [k \in changed |-> a[k]]
           merged == Overlay(c, d)
           m == MergePatched(c, b, a)
<1>1. d \in ResourceLists
  <2>1. DOMAIN d = changed /\ d = [k \in DOMAIN d |-> d[k]] /\ \A k \in changed : d[k] = a[k]
    OBVIOUS
  <2>2. changed \subseteq ResourceNames /\ \A k \in changed : a[k] \in Quantities
    BY ListDef DEF Changed
  <2> HIDE DEF d, changed
  <2> QED
    BY <2>1, <2>2, ListDef
<1>2. DOMAIN d = changed /\ \A k \in changed : d[k] = a[k]
  OBVIOUS
<1>3. m = [k \in DOMAIN merged \ removed |-> merged[k]]
  <2> DEFINE ch == {k \in DOMAIN a : k \notin DOMAIN b \/ a[k] # b[k]}
             dd == [k \in ch |-> a[k]]
             mm == Overlay(c, dd)
  <2>1. m = [k \in DOMAIN mm \ removed |-> mm[k]]
    BY DEF MergePatched
  <2>2. changed = ch
    BY DEF Changed
  <2> HIDE DEF ch
  <2>3. dd = d
    BY <2>2
  <2> HIDE DEF dd, d
  <2>4. mm = merged
    BY <2>3
  <2> HIDE DEF mm, merged
  <2> QED
    BY <2>1, <2>4
<1> HIDE DEF d, changed, removed, m
<1>4. /\ merged \in ResourceLists /\ DOMAIN merged = DOMAIN c \union changed
      /\ \A k \in changed : merged[k] = a[k]
      /\ \A k \in DOMAIN c \ changed : merged[k] = c[k]
  BY <1>1, <1>2, OverlayList
<1> HIDE DEF merged
<1>5. DOMAIN m = DOMAIN merged \ removed /\ m = [k \in DOMAIN m |-> m[k]]
      /\ \A k \in DOMAIN m : m[k] = merged[k]
  BY <1>3
<1>6. m \in ResourceLists
  BY <1>4, <1>5, ListDef
<1>7. DOMAIN m = (DOMAIN c \union changed) \ (DOMAIN b \ DOMAIN a)
  BY <1>4, <1>5 DEF removed
<1>8. \A k \in DOMAIN m : m[k] = IF k \in changed THEN a[k] ELSE c[k]
  BY <1>4, <1>5
<1>9. Merges(m, c, b, a)
  BY <1>6, <1>7, <1>8 DEF Merges, changed
<1> QED
  BY <1>9 DEF m

\* A patch computed from what is stored makes it what was wanted.
LEMMA MergeExact ==
    ASSUME NEW c \in ResourceLists, NEW a \in ResourceLists
    PROVE  MergePatched(c, c, a) = a
<1> DEFINE changed == Changed(c, a)
           m == MergePatched(c, c, a)
<1>1. /\ m \in ResourceLists
      /\ DOMAIN m = (DOMAIN c \union changed) \ (DOMAIN c \ DOMAIN a)
      /\ \A k \in DOMAIN m : m[k] = IF k \in changed THEN a[k] ELSE c[k]
  <2>1. Merges(m, c, c, a)
    BY MergeList
  <2> HIDE DEF m
  <2> QED
    BY <2>1 DEF Merges
<1> HIDE DEF m
<1>2. DOMAIN m = DOMAIN a
  BY <1>1 DEF Changed
<1>3. \A k \in DOMAIN m : m[k] = a[k]
  BY <1>1, <1>2 DEF Changed
<1>4. m = a
  BY <1>1, <1>2, <1>3, SameList
<1> QED
  BY <1>4 DEF m

\* A patch with written values keeps a written map written.
LEMMA MergeEncoded ==
    ASSUME NEW c \in ResourceLists, NEW b \in ResourceLists, NEW a \in ResourceLists,
           Encoded(c) = c, Encoded(a) = a
    PROVE  Encoded(MergePatched(c, b, a)) = MergePatched(c, b, a)
<1> DEFINE changed == Changed(b, a)
           m == MergePatched(c, b, a)
<1>1. /\ m \in ResourceLists
      /\ DOMAIN m = (DOMAIN c \union changed) \ (DOMAIN b \ DOMAIN a)
      /\ \A k \in DOMAIN m : m[k] = IF k \in changed THEN a[k] ELSE c[k]
  <2>1. Merges(m, c, b, a)
    BY MergeList
  <2> HIDE DEF m
  <2> QED
    BY <2>1 DEF Merges
<1>2. /\ \A k \in DOMAIN a : Canonical[a[k]] = a[k]
      /\ \A k \in DOMAIN c : Canonical[c[k]] = c[k]
  BY EncodedList
<1> HIDE DEF m
<1>3. \A k \in DOMAIN m : Canonical[m[k]] = m[k]
  BY <1>1, <1>2 DEF Changed
<1>4. Encoded(m) \in ResourceLists /\ DOMAIN Encoded(m) = DOMAIN m
      /\ \A k \in DOMAIN m : Encoded(m)[k] = Canonical[m[k]]
  BY <1>1, EncodedList
<1>5. Encoded(m) = m
  BY <1>1, <1>3, <1>4, SameList
<1> QED
  BY <1>5 DEF m

-----------------------------------------------------------------------------
LEMMA NoTemplateType ==
    NoTemplate \in Templates
<1>1. Unset \in OptionValues
  BY EmptyIsList DEF Unset, OptionValues
<1> QED
  BY <1>1, EmptyIsList DEF NoTemplate, Templates

\* The versions under way are elements of the set of templates.
LEMMA WatchElements ==
    ASSUME TypeOK
    PROVE  /\ Len(watch) \in Nat /\ DOMAIN watch = 1..Len(watch)
           /\ \A i \in DOMAIN watch : watch[i] \in Templates
           /\ watch # <<>> => Len(watch) \in DOMAIN watch
BY DEF TypeOK

\* What storing a version does to the versions under way.
LEMMA StoreStep ==
    ASSUME TypeOK, NEW t \in Templates, Store(t)
    PROVE  /\ stored' = t /\ watch' \in Seq(Templates)
           /\ t = stored => watch' = watch
           /\ t # stored => watch' # <<>> /\ watch'[Len(watch')] = t
           /\ \A i \in DOMAIN watch' : watch'[i] = t \/ \E j \in DOMAIN watch : watch'[i] = watch[j]
<1>1. watch \in Seq(Templates) /\ Len(watch) \in Nat /\ DOMAIN watch = 1..Len(watch)
  BY DEF TypeOK
<1>2. CASE t = stored
  BY <1>1, <1>2 DEF Store
<1>3. CASE t # stored
  <2>1. watch' = Append(watch, t) /\ stored' = t
    BY <1>3 DEF Store
  <2>2. /\ watch' \in Seq(Templates) /\ Len(watch') = Len(watch) + 1
        /\ DOMAIN watch' = 1..Len(watch) + 1
        /\ watch'[Len(watch) + 1] = t
        /\ \A i \in 1..Len(watch) : watch'[i] = watch[i]
    BY <1>1, <2>1
  <2>3. watch' # <<>>
    BY <1>1, <2>2
  <2> HIDE DEF Store
  <2>4. \A i \in DOMAIN watch' : watch'[i] = t \/ \E j \in DOMAIN watch : watch'[i] = watch[j]
    BY <1>1, <2>2
  <2> QED
    BY <1>3, <2>1, <2>2, <2>3, <2>4
<1> QED
  BY <1>2, <1>3

\* What a patch stores is a template; its capacity is the merged one.
LEMMA PatchedTemplate ==
    ASSUME TypeOK
    PROVE  LET t == [stored EXCEPT !.capacity = MergePatched(@, Encoded(before), Encoded(after))]
           IN  /\ t \in Templates
               /\ t.exists = stored.exists /\ t.ignored = stored.ignored /\ t.options = stored.options
               /\ t.capacity = MergePatched(stored.capacity, Encoded(before), Encoded(after))
<1> DEFINE m == MergePatched(stored.capacity, Encoded(before), Encoded(after))
<1>1. m \in ResourceLists
  <2>1. stored.capacity \in ResourceLists
    BY DEF TypeOK, Templates
  <2>2. Encoded(before) \in ResourceLists /\ Encoded(after) \in ResourceLists
    BY EncodedList DEF TypeOK
  <2> QED
    BY <2>1, <2>2, MergeList DEF Merges
<1> HIDE DEF m
<1>2. LET t == [stored EXCEPT !.capacity = m]
      IN  /\ t \in Templates
          /\ t.exists = stored.exists /\ t.ignored = stored.ignored /\ t.options = stored.options
          /\ t.capacity = m
  BY <1>1 DEF TypeOK, Templates
<1> QED
  BY <1>2 DEF m

\* What users store is a template.
LEMMA UserTemplates ==
    ASSUME TypeOK
    PROVE  /\ \A v \in Values, b \in BOOLEAN :
                 [NoTemplate EXCEPT !.exists = TRUE, !.ignored = b, !.options = v] \in Templates
           /\ \A v \in Values : [stored EXCEPT !.options = v] \in Templates
           /\ \A b \in BOOLEAN : [stored EXCEPT !.ignored = b] \in Templates
<1>1. \A v \in Values : v \in OptionValues
  BY TemplateAssumption
<1>2. \A v \in Values, b \in BOOLEAN :
        [NoTemplate EXCEPT !.exists = TRUE, !.ignored = b, !.options = v] \in Templates
  BY <1>1, NoTemplateType DEF Templates
<1>3. \A v \in Values : [stored EXCEPT !.options = v] \in Templates
  BY <1>1 DEF TypeOK, Templates
<1>4. \A b \in BOOLEAN : [stored EXCEPT !.ignored = b] \in Templates
  BY DEF TypeOK, Templates
<1> QED
  BY <1>2, <1>3, <1>4

\* One step preserves the type invariant.
LEMMA TypeStep ==
    TypeOK /\ [Next]_vars => TypeOK'
<1> SUFFICES ASSUME TypeOK, [Next]_vars PROVE TypeOK'
  OBVIOUS
<1> USE DEF localVars
<1>1. CASE ReconcileNothing
  BY <1>1 DEF ReconcileNothing, TypeOK
<1>2. CASE ReconcileCapacity
  <2>1. cache.capacity \in ResourceLists /\ CapacityOf(cache) \in ResourceLists
    BY CapacityList DEF TypeOK, Templates
  <2> QED
    BY <1>2, <2>1 DEF ReconcileCapacity, TypeOK
<1>3. CASE PatchEnds
  <2>1. PICK r \in {"ok", "refused", "lost"} : Patch(r)
    BY <1>3 DEF PatchEnds
  <2>2. stored' \in Templates /\ watch' \in Seq(Templates)
    <3> DEFINE t == [stored EXCEPT !.capacity = MergePatched(@, Encoded(before), Encoded(after))]
    <3>1. t \in Templates
      BY PatchedTemplate
    <3>2. Store(t) \/ UNCHANGED <<stored, watch>>
      BY <2>1 DEF Patch
    <3> HIDE DEF t
    <3> QED
      BY <3>1, <3>2, StoreStep DEF TypeOK
  <2>3. queued' \in BOOLEAN
    BY <2>1 DEF Patch, TypeOK
  <2>4. pc' = "idle" /\ before' \in ResourceLists /\ after' \in ResourceLists
    BY <2>1, EmptyIsList DEF Patch
  <2>5. faults' \in Nat /\ UNCHANGED <<cache, edits, creates, crashes, pauses>>
    BY <2>1 DEF Patch, TypeOK
  <2> QED
    BY <2>2, <2>3, <2>4, <2>5 DEF TypeOK
<1>4. CASE Deliver
  <2>1. cache' \in Templates /\ watch' \in Seq(Templates)
    BY <1>4 DEF Deliver, TypeOK
  <2>2. queued' \in BOOLEAN
    BY <1>4 DEF Deliver, TypeOK
  <2> QED
    BY <1>4, <2>1, <2>2 DEF Deliver, TypeOK
<1>5. CASE CrashRestart
  <2>1. cache' \in Templates /\ watch' \in Seq(Templates)
    <3>1. (cache' = stored /\ watch' = <<>>) \/ (cache' = cache /\ watch' = watch)
      BY <1>5 DEF CrashRestart
    <3>2. stored \in Templates /\ cache \in Templates /\ watch \in Seq(Templates)
      BY DEF TypeOK
    <3>3. <<>> \in Seq(Templates)
      OBVIOUS
    <3> QED
      BY <3>1, <3>2, <3>3
  <2>2. queued' \in BOOLEAN
    <3>1. queued' = (cache'.exists /\ ~cache'.ignored)
      BY <1>5 DEF CrashRestart
    <3>2. cache'.exists \in BOOLEAN /\ cache'.ignored \in BOOLEAN
      BY <2>1 DEF Templates
    <3> QED
      BY <3>1, <3>2
  <2>3. pc' = "idle" /\ before' \in ResourceLists /\ after' \in ResourceLists
    BY <1>5, EmptyIsList DEF CrashRestart
  <2>4. crashes' \in Nat /\ UNCHANGED <<stored, edits, creates, faults, pauses>>
    BY <1>5 DEF CrashRestart, TypeOK
  <2> QED
    BY <2>1, <2>2, <2>3, <2>4 DEF TypeOK
<1>6. CASE Create
  <2>1. PICK t \in Templates : Store(t)
    BY <1>6, UserTemplates DEF Create
  <2>2. pauses' \in Nat
    BY <1>6 DEF Create, Counted, TypeOK
  <2> QED
    BY <1>6, <2>1, <2>2, StoreStep DEF Create, TypeOK
<1>7. CASE Edit
  <2>1. PICK t \in Templates : Store(t)
    BY <1>7, UserTemplates DEF Edit
  <2> QED
    BY <1>7, <2>1, StoreStep DEF Edit, TypeOK
<1>8. CASE Delete
  BY <1>8, NoTemplateType, StoreStep DEF Delete, TypeOK
<1>9. CASE \E ignored \in BOOLEAN : SetIgnored(ignored)
  <2>1. PICK ignored \in BOOLEAN : SetIgnored(ignored)
    BY <1>9
  <2>2. [stored EXCEPT !.ignored = ignored] \in Templates
    BY UserTemplates
  <2>3. stored' \in Templates /\ watch' \in Seq(Templates)
    BY <2>1, <2>2, StoreStep DEF SetIgnored
  <2>4. pauses' \in Nat
    BY <2>1 DEF SetIgnored, Counted, TypeOK
  <2> QED
    BY <2>1, <2>3, <2>4 DEF SetIgnored, Counted, TypeOK
<1>10. CASE UNCHANGED vars
  BY <1>10 DEF vars, TypeOK
<1> QED
  BY <1>1, <1>2, <1>3, <1>4, <1>5, <1>6, <1>7, <1>8, <1>9, <1>10 DEF Next, Reconcile

LEMMA TypeInit ==
    Init => TypeOK
<1> SUFFICES ASSUME Init PROVE TypeOK
  OBVIOUS
<1>1. stored \in Templates /\ cache \in Templates /\ watch \in Seq(Templates)
  BY NoTemplateType DEF Init
<1>2. before \in ResourceLists /\ after \in ResourceLists
  BY EmptyIsList DEF Init
<1> QED
  BY <1>1, <1>2 DEF Init, TypeOK

\* Type correctness, for all bounds.
THEOREM TemplateTypeCorrect ==
    Spec => []TypeOK
BY TypeInit, TypeStep, PTL DEF Spec

-----------------------------------------------------------------------------
\* Delivering takes the oldest version under way.
LEMMA DeliverStep ==
    ASSUME TypeOK, Deliver
    PROVE  /\ cache' \in Copies
           /\ \A i \in DOMAIN watch' : \E j \in DOMAIN watch : watch'[i] = watch[j]
           /\ watch' = <<>> => Len(watch) = 1 /\ cache' = watch[Len(watch)]
           /\ watch' # <<>> => watch'[Len(watch')] = watch[Len(watch)]
<1>1. /\ watch \in Seq(Templates) /\ watch # <<>> /\ watch' = Tail(watch) /\ cache' = Head(watch)
  BY DEF TypeOK, Deliver
<1>2. /\ Len(watch) \in Nat \ {0} /\ DOMAIN watch = 1..Len(watch) /\ cache' = watch[1]
      /\ watch' \in Seq(Templates) /\ Len(watch') = Len(watch) - 1
      /\ \A i \in 1..Len(watch') : watch'[i] = watch[i + 1]
  BY <1>1
<1>3. cache' \in Copies
  BY <1>2 DEF Copies
<1>4. \A i \in DOMAIN watch' : \E j \in DOMAIN watch : watch'[i] = watch[j]
  <2> SUFFICES ASSUME NEW i \in DOMAIN watch' PROVE \E j \in DOMAIN watch : watch'[i] = watch[j]
    OBVIOUS
  <2>1. i \in 1..Len(watch') /\ i + 1 \in DOMAIN watch
    BY <1>2
  <2> QED
    BY <1>2, <2>1
<1>5. ASSUME watch' = <<>> PROVE Len(watch) = 1 /\ cache' = watch[Len(watch)]
  BY <1>2, <1>5
<1>6. ASSUME watch' # <<>> PROVE watch'[Len(watch')] = watch[Len(watch)]
  <2>1. Len(watch') \in 1..Len(watch') /\ Len(watch') + 1 = Len(watch)
    BY <1>2, <1>6
  <2> QED
    BY <1>2, <2>1
<1> QED
  BY <1>3, <1>4, <1>5, <1>6

\* Copies after a step that stores t, and after one that delivers or restarts.
LEMMA CopiesStep ==
    ASSUME TypeOK
    PROVE  /\ \A t \in Templates : Store(t) /\ cache' = cache => Copies' \subseteq Copies \union {t}
           /\ Deliver => Copies' \subseteq Copies
           /\ CrashRestart => Copies' \subseteq Versions
           /\ UNCHANGED <<watch, cache>> => Copies' = Copies
<1>1. ASSUME NEW t \in Templates, Store(t), cache' = cache PROVE Copies' \subseteq Copies \union {t}
  <2>1. \A i \in DOMAIN watch' : watch'[i] = t \/ \E j \in DOMAIN watch : watch'[i] = watch[j]
    BY <1>1, StoreStep
  <2> QED
    BY <1>1, <2>1 DEF Copies
<1>2. ASSUME Deliver PROVE Copies' \subseteq Copies
  <2>1. cache' \in Copies /\ \A i \in DOMAIN watch' : \E j \in DOMAIN watch : watch'[i] = watch[j]
    BY <1>2, DeliverStep
  <2> QED
    BY <2>1 DEF Copies
<1>3. ASSUME CrashRestart PROVE Copies' \subseteq Versions
  <2>1. CASE cache' = stored /\ watch' = <<>>
    BY <2>1 DEF Copies, Versions
  <2>2. CASE UNCHANGED <<cache, watch>>
    BY <2>2 DEF Copies, Versions
  <2> QED
    BY <1>3, <2>1, <2>2 DEF CrashRestart
<1>4. UNCHANGED <<watch, cache>> => Copies' = Copies
  BY DEF Copies
<1> QED
  BY <1>1, <1>2, <1>3, <1>4

-----------------------------------------------------------------------------
\* A step of a user that leaves existence and capacity alone.
LEMMA CompleteKept ==
    ASSUME TypeOK, CompleteInv, NEW t \in Templates, Store(t),
           t.exists = stored.exists, t.capacity = stored.capacity,
           UNCHANGED <<cache, creates, localVars>>
    PROVE  CompleteInv'
<1>1. stored' = t /\ Copies' \subseteq Copies \union {t}
  BY StoreStep, CopiesStep
<1>2. CapacityComplete'
  BY <1>1 DEF CompleteInv, CapacityComplete
<1> QED
  BY <1>1, <1>2 DEF CompleteInv, localVars

LEMMA CompletePatch ==
    ASSUME TypeOK, CompleteInv, NEW r, Patch(r)
    PROVE  CompleteInv'
<1> DEFINE t == [stored EXCEPT !.capacity = MergePatched(@, Encoded(before), Encoded(after))]
           m == MergePatched(stored.capacity, Encoded(before), Encoded(after))
<1>1. t \in Templates /\ t.exists = stored.exists /\ t.capacity = m
  BY PatchedTemplate
<1>2. pc' = "idle" /\ before' = EmptyList /\ UNCHANGED <<cache, creates>>
  BY DEF Patch
<1>3. (Store(t) /\ stored.exists) \/ UNCHANGED <<stored, watch>>
  BY DEF Patch
<1> HIDE DEF t
<1>4. CASE UNCHANGED <<stored, watch>>
  <2>1. Copies' = Copies
    BY <1>2, <1>4, CopiesStep
  <2> QED
    BY <1>2, <1>4, <2>1 DEF CompleteInv, CapacityComplete
<1>5. CASE Store(t) /\ stored.exists
  <2>1. stored' = t /\ Copies' \subseteq Copies \union {t}
    BY <1>1, <1>2, <1>5, StoreStep, CopiesStep
  <2>2. pc = "patch" /\ {"cpu", "memory"} \subseteq DOMAIN after
    BY DEF Patch, CompleteInv
  <2>3. ASSUME creates <= 1 PROVE {"cpu", "memory"} \subseteq DOMAIN m
    <3> DEFINE b == Encoded(before)
               a == Encoded(after)
    <3>1. /\ stored.capacity \in ResourceLists /\ b \in ResourceLists /\ a \in ResourceLists
          /\ DOMAIN a = DOMAIN after
      BY EncodedList DEF TypeOK, Templates
    <3>2. DOMAIN m = (DOMAIN stored.capacity \union Changed(b, a)) \ (DOMAIN b \ DOMAIN a)
      <4> HIDE DEF a, b
      <4>1. Merges(MergePatched(stored.capacity, b, a), stored.capacity, b, a)
        BY <3>1, MergeList
      <4> QED
        BY <4>1 DEF Merges, a, b
    <3>3. CASE stored.capacity # EmptyList
      <4>1. {"cpu", "memory"} \subseteq DOMAIN stored.capacity
        BY <2>3, <3>3 DEF CompleteInv, CapacityComplete
      <4> HIDE DEF m, a, b
      <4> QED
        BY <4>1, <3>1, <3>2, <2>2
    <3>4. CASE stored.capacity = EmptyList
      <4>1. before = EmptyList
        BY <1>5, <2>3, <3>4 DEF CompleteInv
      <4>2. DOMAIN b = {}
        BY <4>1, EncodedEmpty, EmptyIsList
      <4>3. DOMAIN a \subseteq Changed(b, a)
        <5> HIDE DEF a, b
        <5> QED
          BY <4>2 DEF Changed
      <4> HIDE DEF m, a, b
      <4> QED
        BY <4>2, <4>3, <3>1, <3>2, <2>2
    <3> QED
      BY <3>3, <3>4
  <2>4. creates <= 1 => stored'.capacity # EmptyList
    <3>1. \A l : {"cpu", "memory"} \subseteq DOMAIN l => l # EmptyList
      BY EmptyIsList
    <3> QED
      BY <1>1, <2>1, <2>3, <3>1
  <2>5. CapacityComplete'
    BY <1>1, <1>2, <2>1, <2>3 DEF CapacityComplete
  <2>6. stored'.exists /\ creates' >= 1
    BY <1>1, <1>2, <1>5, <2>1 DEF CompleteInv
  <2> QED
    BY <1>2, <2>4, <2>5, <2>6 DEF CompleteInv
<1> QED
  BY <1>3, <1>4, <1>5

\* One step preserves CompleteInv.
LEMMA CompleteStep ==
    TypeOK /\ CompleteInv /\ [Next]_vars => CompleteInv'
<1> SUFFICES ASSUME TypeOK, CompleteInv, [Next]_vars PROVE CompleteInv'
  OBVIOUS
<1> USE DEF localVars
<1>1. CASE ReconcileNothing \/ UNCHANGED vars
  <2>1. Copies' = Copies
    BY <1>1, CopiesStep DEF ReconcileNothing, vars
  <2> QED
    BY <1>1, <2>1 DEF ReconcileNothing, vars, CompleteInv, CapacityComplete
<1>2. CASE ReconcileCapacity
  <2>1. Copies' = Copies
    BY <1>2, CopiesStep DEF ReconcileCapacity
  <2>2. {"cpu", "memory"} \subseteq DOMAIN after'
    BY <1>2, CapacityList DEF ReconcileCapacity, TypeOK, Templates
  <2>3. before' = cache.capacity /\ cache \in Copies /\ UNCHANGED <<stored, creates>>
    BY <1>2 DEF ReconcileCapacity, Copies
  <2> QED
    BY <2>1, <2>2, <2>3 DEF CompleteInv, CapacityComplete
<1>3. CASE PatchEnds
  BY <1>3, CompletePatch DEF PatchEnds
<1>4. CASE Deliver
  <2>1. Copies' \subseteq Copies
    BY <1>4, CopiesStep
  <2> QED
    BY <1>4, <2>1 DEF Deliver, CompleteInv, CapacityComplete
<1>5. CASE CrashRestart
  <2>1. Copies' \subseteq Copies \union {stored}
    BY <1>5, CopiesStep DEF Versions
  <2>2. pc' = "idle" /\ before' = EmptyList /\ UNCHANGED <<stored, creates>>
    BY <1>5 DEF CrashRestart
  <2> QED
    BY <2>1, <2>2 DEF CompleteInv, CapacityComplete
<1>6. CASE Create
  <2>1. PICK v \in Values, b \in BOOLEAN :
                Store([NoTemplate EXCEPT !.exists = TRUE, !.ignored = b, !.options = v])
    BY <1>6 DEF Create
  <2> DEFINE t == [NoTemplate EXCEPT !.exists = TRUE, !.ignored = b, !.options = v]
  <2>2. t \in Templates /\ t.exists /\ t.capacity = EmptyList
    BY UserTemplates DEF NoTemplate
  <2> HIDE DEF t
  <2>3. stored' = t /\ Copies' \subseteq Copies \union {t}
    BY <1>6, <2>1, <2>2, StoreStep, CopiesStep DEF Create, t
  <2>4. ~stored.exists /\ creates' = creates + 1 /\ creates \in Nat /\ UNCHANGED <<pc, before, after>>
    BY <1>6 DEF Create, TypeOK
  <2>5. creates' <= 1 => creates = 0 /\ stored.capacity = EmptyList
    BY <2>4 DEF CompleteInv
  <2>6. creates' <= 1 => before' = EmptyList /\ \A u \in Copies' : u.capacity = EmptyList
    BY <2>2, <2>3, <2>4, <2>5 DEF CompleteInv
  <2> QED
    BY <2>2, <2>3, <2>4, <2>6 DEF CompleteInv, CapacityComplete
<1>7. CASE Edit
  <2>1. PICK v \in Values : Store([stored EXCEPT !.options = v])
    BY <1>7 DEF Edit
  <2> DEFINE t == [stored EXCEPT !.options = v]
  <2>2. t \in Templates /\ t.exists = stored.exists /\ t.capacity = stored.capacity
    BY UserTemplates DEF TypeOK, Templates
  <2> HIDE DEF t
  <2> QED
    BY <1>7, <2>1, <2>2, CompleteKept DEF Edit, t
<1>8. CASE Delete
  <2>1. stored' = NoTemplate /\ creates >= 1 /\ UNCHANGED <<pc, after, creates>>
    BY <1>8, NoTemplateType, StoreStep DEF Delete, CompleteInv
  <2>2. ~stored'.exists /\ stored'.capacity = EmptyList
    BY <2>1 DEF NoTemplate
  <2>3. creates' # 0
    BY <2>1 DEF TypeOK
  <2> QED
    BY <2>1, <2>2, <2>3 DEF CompleteInv, CapacityComplete
<1>9. CASE \E ignored \in BOOLEAN : SetIgnored(ignored)
  <2>1. PICK ignored \in BOOLEAN : SetIgnored(ignored)
    BY <1>9
  <2> DEFINE t == [stored EXCEPT !.ignored = ignored]
  <2>2. t \in Templates /\ t.exists = stored.exists /\ t.capacity = stored.capacity
    BY UserTemplates DEF TypeOK, Templates
  <2> HIDE DEF t
  <2> QED
    BY <2>1, <2>2, CompleteKept DEF SetIgnored, t
<1> QED
  BY <1>1, <1>2, <1>3, <1>4, <1>5, <1>6, <1>7, <1>8, <1>9 DEF Next, Reconcile

-----------------------------------------------------------------------------
\* A version that is stored has been through JSON, and its options are some
\* that users write.
Storable(t) == Encoded(t.capacity) = t.capacity /\ (t.exists => t.options \in Values)

\* Storing such a version keeps the informer on the way to what is stored.
LEMMA WatchKept ==
    ASSUME TypeOK, WatchInv, NEW t \in Templates, Store(t), Storable(t), cache' = cache
    PROVE  WatchInv'
<1>1. /\ stored' = t
      /\ t = stored => watch' = watch
      /\ t # stored => watch' # <<>> /\ watch'[Len(watch')] = t
  BY StoreStep
<1>2. Copies' \subseteq Copies \union {t}
  BY CopiesStep
<1>3. stored' = IF watch' = <<>> THEN cache' ELSE watch'[Len(watch')]
  BY <1>1 DEF WatchInv
<1>4. \A u \in Versions' : Encoded(u.capacity) = u.capacity
  BY <1>1, <1>2 DEF WatchInv, Versions, Storable
<1> QED
  BY <1>1, <1>3, <1>4 DEF WatchInv, Storable

\* The patched template is one of them.
LEMMA PatchedStorable ==
    ASSUME TypeOK, WatchInv, NEW t \in Templates, t.exists = stored.exists, t.options = stored.options,
           t.capacity = MergePatched(stored.capacity, Encoded(before), Encoded(after))
    PROVE  Storable(t)
<1>1. stored.capacity \in ResourceLists /\ Encoded(stored.capacity) = stored.capacity
  BY DEF TypeOK, Templates, WatchInv, Versions
<1>2. /\ Encoded(before) \in ResourceLists /\ Encoded(after) \in ResourceLists
      /\ Encoded(Encoded(after)) = Encoded(after)
  BY EncodedList DEF TypeOK
<1>3. Encoded(t.capacity) = t.capacity
  BY <1>1, <1>2, MergeEncoded
<1> QED
  BY <1>3 DEF Storable, WatchInv

\* One step preserves WatchInv.
LEMMA WatchStep ==
    TypeOK /\ WatchInv /\ [Next]_vars => WatchInv'
<1> SUFFICES ASSUME TypeOK, WatchInv, [Next]_vars PROVE WatchInv'
  OBVIOUS
<1>0. Storable(stored)
  BY DEF WatchInv, Versions, Storable
<1>1. CASE UNCHANGED <<stored, watch, cache>>
  BY <1>1 DEF WatchInv, Versions, Copies
<1>2. CASE PatchEnds
  <2>1. PICK r : Patch(r)
    BY <1>2 DEF PatchEnds
  <2> DEFINE t == [stored EXCEPT !.capacity = MergePatched(@, Encoded(before), Encoded(after))]
  <2>2. /\ t \in Templates /\ t.exists = stored.exists /\ t.options = stored.options
        /\ t.capacity = MergePatched(stored.capacity, Encoded(before), Encoded(after))
    BY PatchedTemplate
  <2>3. (Store(t) \/ UNCHANGED <<stored, watch>>) /\ cache' = cache
    BY <2>1 DEF Patch
  <2> HIDE DEF t
  <2>4. Storable(t)
    BY <2>2, PatchedStorable
  <2> QED
    BY <1>1, <2>2, <2>3, <2>4, WatchKept
<1>3. CASE Deliver
  <2>1. /\ Copies' \subseteq Copies /\ watch # <<>> /\ stored' = stored
        /\ watch' = <<>> => cache' = watch[Len(watch)]
        /\ watch' # <<>> => watch'[Len(watch')] = watch[Len(watch)]
    BY <1>3, DeliverStep, CopiesStep DEF Deliver
  <2>2. stored' = IF watch' = <<>> THEN cache' ELSE watch'[Len(watch')]
    BY <2>1 DEF WatchInv
  <2> QED
    BY <2>1, <2>2 DEF WatchInv, Versions
<1>4. CASE CrashRestart
  <2>1. /\ Copies' \subseteq Versions /\ stored' = stored
        /\ (cache' = stored /\ watch' = <<>>) \/ UNCHANGED <<cache, watch>>
    BY <1>4, CopiesStep DEF CrashRestart
  <2>2. stored' = IF watch' = <<>> THEN cache' ELSE watch'[Len(watch')]
    BY <2>1 DEF WatchInv
  <2> QED
    BY <2>1, <2>2 DEF WatchInv, Versions
<1>5. CASE Create
  <2>1. PICK v \in Values, b \in BOOLEAN :
                Store([NoTemplate EXCEPT !.exists = TRUE, !.ignored = b, !.options = v])
    BY <1>5 DEF Create
  <2> DEFINE t == [NoTemplate EXCEPT !.exists = TRUE, !.ignored = b, !.options = v]
  <2>2. t \in Templates /\ t.options = v /\ t.capacity = EmptyList
    BY UserTemplates DEF NoTemplate
  <2> HIDE DEF t
  <2>3. Storable(t)
    BY <2>2, EncodedEmpty DEF Storable
  <2> QED
    BY <1>5, <2>1, <2>2, <2>3, WatchKept DEF Create, t
<1>6. CASE Edit
  <2>1. PICK v \in Values : Store([stored EXCEPT !.options = v])
    BY <1>6 DEF Edit
  <2> DEFINE t == [stored EXCEPT !.options = v]
  <2>2. t \in Templates /\ t.options = v /\ t.capacity = stored.capacity
    BY UserTemplates DEF TypeOK, Templates
  <2> HIDE DEF t
  <2>3. Storable(t)
    BY <1>0, <2>2 DEF Storable
  <2> QED
    BY <1>6, <2>1, <2>2, <2>3, WatchKept DEF Edit, t
<1>7. CASE Delete
  <2>1. Storable(NoTemplate)
    BY EncodedEmpty DEF Storable, NoTemplate
  <2> QED
    BY <1>7, <2>1, NoTemplateType, WatchKept DEF Delete
<1>8. CASE \E ignored \in BOOLEAN : SetIgnored(ignored)
  <2>1. PICK ignored \in BOOLEAN : SetIgnored(ignored)
    BY <1>8
  <2> DEFINE t == [stored EXCEPT !.ignored = ignored]
  <2>2. t \in Templates /\ t.options = stored.options /\ t.capacity = stored.capacity
        /\ t.exists = stored.exists
    BY UserTemplates DEF TypeOK, Templates
  <2> HIDE DEF t
  <2>3. Storable(t)
    BY <1>0, <2>2 DEF Storable
  <2> QED
    BY <2>1, <2>2, <2>3, WatchKept DEF SetIgnored, t
<1>9. (Reconcile \/ UNCHANGED vars) => UNCHANGED <<stored, watch, cache>>
  BY DEF Reconcile, ReconcileNothing, ReconcileCapacity, vars
<1> QED
  BY <1>1, <1>2, <1>3, <1>4, <1>5, <1>6, <1>7, <1>8, <1>9 DEF Next

-----------------------------------------------------------------------------
\* A user's step and a template at rest: either nothing changes or there is
\* something to deliver.
LEMMA RestKept ==
    ASSUME TypeOK, PatchInv, CapacityAtRest, NEW t \in Templates, Store(t),
           UNCHANGED <<cache, queued, localVars>>
    PROVE  PatchInv' /\ CapacityAtRest'
<1>1. stored' = t /\ (t = stored => watch' = watch) /\ (t # stored => watch' # <<>>)
  BY StoreStep
<1>2. PatchInv'
  BY DEF PatchInv, localVars, CapacityOf
<1>3. CapacityAtRest'
  BY <1>1 DEF CapacityAtRest, localVars, CapacityOf
<1> QED
  BY <1>2, <1>3

\* One step preserves PatchInv and CapacityAtRest.
LEMMA RestStep ==
    TypeOK /\ WatchInv /\ PatchInv /\ CapacityAtRest /\ [Next]_vars => PatchInv' /\ CapacityAtRest'
<1> SUFFICES ASSUME TypeOK, WatchInv, PatchInv, CapacityAtRest, [Next]_vars
             PROVE  PatchInv' /\ CapacityAtRest'
  OBVIOUS
<1> USE DEF localVars
<1>1. CASE UNCHANGED vars
  BY <1>1 DEF vars, PatchInv, CapacityAtRest, CapacityOf
<1>2. CASE ReconcileNothing
  <2>1. PatchInv'
    BY <1>2 DEF ReconcileNothing, PatchInv
  <2>2. ASSUME stored.exists, watch = <<>>, stored.options.set
        PROVE  stored.capacity = Encoded(CapacityOf(stored))
    <3>1. cache = stored /\ Encoded(stored.capacity) = stored.capacity
      BY <2>2 DEF WatchInv, Versions
    <3>2. stored.capacity = CapacityOf(stored)
      BY <1>2, <2>2, <3>1 DEF ReconcileNothing, UpdateRequired
    <3> QED
      BY <3>1, <3>2
  <2> QED
    BY <1>2, <2>1, <2>2 DEF ReconcileNothing, CapacityAtRest, CapacityOf
<1>3. CASE ReconcileCapacity
  BY <1>3 DEF ReconcileCapacity, PatchInv, CapacityAtRest, CapacityOf
<1>4. CASE PatchEnds
  <2>1. PICK r \in {"ok", "refused", "lost"} : Patch(r)
    BY <1>4 DEF PatchEnds
  <2>2. PatchInv'
    BY <2>1 DEF Patch, PatchInv
  <2>3. ASSUME stored'.exists, ~stored'.ignored, ~queued', watch' = <<>>, stored'.options.set
        PROVE  stored'.capacity = Encoded(CapacityOf(stored))'
    <3> DEFINE t == [stored EXCEPT !.capacity = MergePatched(@, Encoded(before), Encoded(after))]
    <3>1. /\ t \in Templates /\ t.exists = stored.exists
          /\ t.capacity = MergePatched(stored.capacity, Encoded(before), Encoded(after))
      BY PatchedTemplate
    <3>2. r = "ok" /\ ~queued /\ pc = "patch"
      BY <2>1, <2>3 DEF Patch, Requeues
    <3>3. IF stored.exists THEN Store(t) ELSE UNCHANGED <<stored, watch>>
      BY <2>1, <3>2 DEF Patch
    <3> HIDE DEF t
    <3>4. stored.exists /\ Store(t)
      BY <3>3, <2>3
    <3>5. t = stored /\ stored' = stored /\ watch = <<>>
      BY <2>3, <3>1, <3>4, StoreStep
    <3>6. cache = stored /\ Encoded(stored.capacity) = stored.capacity
      BY <3>5 DEF WatchInv, Versions
    <3>7. before = stored.capacity /\ after = CapacityOf(stored)
      BY <2>3, <3>2, <3>5, <3>6 DEF PatchInv
    <3>8. stored.capacity \in ResourceLists /\ Encoded(after) \in ResourceLists
      BY EncodedList DEF TypeOK, Templates
    <3>9. stored.capacity = Encoded(after)
      BY <3>1, <3>5, <3>6, <3>7, <3>8, MergeExact
    <3> QED
      BY <3>5, <3>7, <3>9 DEF CapacityOf
  <2>4. CapacityAtRest'
    BY <2>3 DEF CapacityAtRest
  <2> QED
    BY <2>2, <2>4
<1>5. CASE Deliver
  <2>1. queued' = (queued \/ EventFilter(cache, cache')) /\ UNCHANGED <<stored, pc, before, after>>
    BY <1>5 DEF Deliver
  <2>2. cache'.exists /\ ~cache'.ignored => EventFilter(cache, cache')
    BY DEF EventFilter
  <2>3. PatchInv'
    BY <2>1, <2>2 DEF PatchInv
  <2>4. watch' = <<>> => cache' = stored'
    BY <1>5, WatchStep DEF WatchInv, Next
  <2> QED
    BY <2>1, <2>2, <2>3, <2>4 DEF CapacityAtRest
<1>6. CASE CrashRestart
  <2>1. pc' = "idle" /\ queued' = (cache'.exists /\ ~cache'.ignored)
    BY <1>6 DEF CrashRestart
  <2>2. watch' = <<>> => cache' = stored'
    BY <1>6, WatchStep DEF WatchInv, Next
  <2> QED
    BY <2>1, <2>2 DEF PatchInv, CapacityAtRest
<1>7. CASE Create
  <2>1. PICK t \in Templates : Store(t)
    BY <1>7, UserTemplates DEF Create
  <2> QED
    BY <1>7, <2>1, RestKept DEF Create
<1>8. CASE Edit
  <2>1. PICK t \in Templates : Store(t)
    BY <1>8, UserTemplates DEF Edit
  <2> QED
    BY <1>8, <2>1, RestKept DEF Edit
<1>9. CASE Delete
  BY <1>9, NoTemplateType, RestKept DEF Delete
<1>10. CASE \E ignored \in BOOLEAN : SetIgnored(ignored)
  <2>1. PICK ignored \in BOOLEAN : SetIgnored(ignored)
    BY <1>10
  <2>2. [stored EXCEPT !.ignored = ignored] \in Templates
    BY UserTemplates
  <2> QED
    BY <2>1, <2>2, RestKept DEF SetIgnored
<1> QED
  BY <1>1, <1>2, <1>3, <1>4, <1>5, <1>6, <1>7, <1>8, <1>9, <1>10 DEF Next, Reconcile

-----------------------------------------------------------------------------
LEMMA TemplateInit ==
    Init => TemplateInv
<1> SUFFICES ASSUME Init PROVE TemplateInv
  OBVIOUS
<1>1. /\ ~stored.exists /\ stored.capacity = EmptyList /\ cache = stored
      /\ watch = <<>> /\ pc = "idle" /\ before = EmptyList
  BY DEF Init, NoTemplate
<1>2. Copies = {stored}
  BY <1>1 DEF Copies
<1>3. CompleteInv /\ PatchInv /\ CapacityAtRest
  BY <1>1, <1>2 DEF CompleteInv, PatchInv, CapacityAtRest, CapacityComplete
<1>4. WatchInv
  BY <1>1, <1>2, EncodedEmpty DEF WatchInv, Versions
<1> QED
  BY <1>3, <1>4 DEF TemplateInv

\* The inductive invariant of the template controller, whatever options users
\* write and however often they edit, delete and create the template
\* (KubemarkMachineTemplateReconciler.Reconcile).
THEOREM TemplateInvariant ==
    Spec => [](TypeOK /\ TemplateInv)
<1>1. TypeOK /\ TemplateInv /\ [Next]_vars => (TypeOK /\ TemplateInv)'
  BY TypeStep, CompleteStep, WatchStep, RestStep DEF TemplateInv
<1> QED
  BY <1>1, TypeInit, TemplateInit, PTL DEF Spec

\* A published capacity is never partial: the patches of the reconciles of the
\* first template of a name write cpu and memory together, or not at all.
THEOREM CapacityIsComplete ==
    Spec => []CapacityComplete
<1>1. TemplateInv => CapacityComplete
  BY DEF TemplateInv, CompleteInv
<1> QED
  BY <1>1, TemplateInvariant, PTL

\* A template at rest whose options are set shows exactly the capacity its
\* machines get, whatever the history of edits, pauses, lost patches and
\* restarts (Reconcile, helper.Patch).
THEOREM CapacityIsExactAtRest ==
    Spec => []CapacityAtRest
<1>1. TemplateInv => CapacityAtRest
  BY DEF TemplateInv
<1> QED
  BY <1>1, TemplateInvariant, PTL
=============================================================================
