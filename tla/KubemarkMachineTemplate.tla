----------------------- MODULE KubemarkMachineTemplate -----------------------
(***************************************************************************)
(* The KubemarkMachineTemplate controller                                  *)
(* (controllers/kubemarkmachinetemplate_controller.go), which publishes in *)
(* the status of a template the capacity its machines will have.  It works *)
(* on a cached copy and writes a JSON merge patch computed from that copy, *)
(* so what it stores depends on what is stored already.  One template;     *)
(* templates do not interact.                                              *)
(***************************************************************************)
EXTENDS Naturals, Sequences, ExtendedResources

CONSTANTS Values,      \* values of ExtendedResources users may write
          MaxEdits,    \* bound: edits of the specification
          MaxCreates,  \* bound: creations of the template
          MaxFaults,   \* bound: calls of the API that fail
          MaxCrashes,  \* bound: crashes of the manager
          MaxPauses    \* bound: times the template comes to be ignored

ASSUME TemplateAssumption ==
    /\ Values \subseteq OptionValues
    /\ {MaxEdits, MaxCreates, MaxFaults, MaxCrashes, MaxPauses} \subseteq Nat

VARIABLES
    stored,   \* the template in the API server
    watch,    \* versions not yet delivered to the informer
    cache,    \* the informer's copy
    queued,   \* is the template in the work queue?
    pc,       \* "idle", or "patch": a status patch is about to be sent
    before,   \* Status.Capacity of the copy the reconcile fetched
    after,    \* the capacity it computed
    edits, creates, faults, crashes, pauses

localVars == <<pc, before, after>>
vars == <<stored, watch, cache, queued, localVars, edits, creates, faults, crashes, pauses>>

\* ignored: the pause annotation is set, or the label of --watch-filter missing.
Templates == [exists : BOOLEAN, ignored : BOOLEAN, options : OptionValues, capacity : ResourceLists]

NoTemplate == [exists |-> FALSE, ignored |-> FALSE, options |-> Unset, capacity |-> EmptyList]

TypeOK ==
    /\ stored \in Templates
    /\ watch \in Seq(Templates)
    /\ cache \in Templates
    /\ queued \in BOOLEAN
    /\ pc \in {"idle", "patch"}
    /\ before \in ResourceLists
    /\ after \in ResourceLists
    /\ edits \in Nat /\ creates \in Nat /\ faults \in Nat /\ crashes \in Nat
    /\ pauses \in Nat

Init ==
    /\ stored = NoTemplate /\ cache = NoTemplate
    /\ watch = <<>>
    /\ queued = FALSE
    /\ pc = "idle" /\ before = EmptyList /\ after = EmptyList
    /\ edits = 0 /\ creates = 0 /\ faults = 0 /\ crashes = 0 /\ pauses = 0

\* A new version is stored and under way to the informer.
Store(t) ==
    /\ stored' = t
    /\ watch' = IF t = stored THEN watch ELSE Append(watch, t)

(***************************************************************************)
(* JSON merge patch: the entries of a that are new or differ from b are    *)
(* put over the stored map c, the keys of b that a lacks are removed.      *)
(***************************************************************************)
MergePatched(c, b, a) ==
    LET changed == {k \in DOMAIN a : k \notin DOMAIN b \/ a[k] # b[k]}
        removed == DOMAIN b \ DOMAIN a
        merged  == Overlay(c, [k \in changed |-> a[k]])
    IN  [k \in DOMAIN merged \ removed |-> merged[k]]

-----------------------------------------------------------------------------
\* The capacity of the machines of a template.
CapacityOf(t) == getKubemarkExtendedResources(t.options)

\* Only a template whose options are set gets a capacity, and only when it
\* differs from the published one.  DeepEqual tells quantities apart that are
\* written alike: 4000M never equals the 4G that is read back from the status.
UpdateRequired(t) == t.options.set /\ t.capacity # CapacityOf(t)

\* Variant with a defect: NotFound is returned as an error.
ReconcileNothingOrNotFound ==
    /\ queued /\ pc = "idle"
    /\ ~cache.exists \/ ~UpdateRequired(cache)
    /\ queued' = ~cache.exists
    /\ UNCHANGED <<stored, watch, cache, localVars, edits, creates, faults, crashes, pauses>>

\* A reconcile that has nothing to write: NotFound, or no update required.
ReconcileNothing ==
    /\ queued /\ pc = "idle"
    /\ ~cache.exists \/ ~UpdateRequired(cache)
    /\ queued' = FALSE
    /\ UNCHANGED <<stored, watch, cache, localVars, edits, creates, faults, crashes, pauses>>

\* A reconcile that has computed a new capacity from its copy.
ReconcileCapacity ==
    /\ queued /\ pc = "idle"
    /\ cache.exists /\ UpdateRequired(cache)
    /\ queued' = FALSE
    /\ pc' = "patch"
    /\ before' = cache.capacity
    /\ after' = CapacityOf(cache)
    /\ UNCHANGED <<stored, watch, cache, edits, creates, faults, crashes, pauses>>

\* The result of Reconcile: an error queues the key again.
Requeues(r) == r # "ok"

\* helper.Patch: NotFound is ignored, any other error is returned and the key
\* queued again.
Patch(r) ==
    /\ pc = "patch"
    /\ r # "ok" => faults < MaxFaults
    /\ faults' = IF r = "ok" THEN faults ELSE faults + 1
    /\ IF stored.exists /\ r # "refused"
       THEN Store([stored EXCEPT !.capacity = MergePatched(@, Encoded(before), Encoded(after))])
       ELSE UNCHANGED <<stored, watch>>
    /\ queued' = (queued \/ Requeues(r))
    /\ pc' = "idle" /\ before' = EmptyList /\ after' = EmptyList
    /\ UNCHANGED <<cache, edits, creates, crashes, pauses>>

-----------------------------------------------------------------------------
\* Variant with a defect: an update is judged by the template it replaces.
EventFilterOld(old, new) == ~old.ignored

\* The event that turns old into new is not one of an ignored template
\* (ResourceNotPausedAndHasFilterLabel).
EventFilter(old, new) == ~(IF new.exists THEN new ELSE old).ignored

Deliver ==
    /\ watch # <<>>
    /\ cache' = Head(watch)
    /\ watch' = Tail(watch)
    /\ queued' = (queued \/ EventFilter(cache, Head(watch)))
    /\ UNCHANGED <<stored, localVars, edits, creates, faults, crashes, pauses>>

\* The manager dies and is started again, its first list being up to date or
\* as old as the cache it had.
CrashRestart ==
    /\ crashes < MaxCrashes
    /\ crashes' = crashes + 1
    /\ \/ cache' = stored /\ watch' = <<>>
       \/ UNCHANGED <<cache, watch>>
    /\ queued' = (cache'.exists /\ ~cache'.ignored)
    /\ pc' = "idle" /\ before' = EmptyList /\ after' = EmptyList
    /\ UNCHANGED <<stored, edits, creates, faults, pauses>>

\* The bound on the times a template comes to be ignored.
Counted(ignored) ==
    /\ ignored => pauses < MaxPauses
    /\ pauses' = IF ignored THEN pauses + 1 ELSE pauses

\* A template may be created with the annotation, or without the label.
Create ==
    /\ ~stored.exists /\ creates < MaxCreates
    /\ creates' = creates + 1
    /\ \E v \in Values, ignored \in BOOLEAN :
         /\ Counted(ignored)
         /\ Store([NoTemplate EXCEPT !.exists = TRUE, !.ignored = ignored, !.options = v])
    /\ UNCHANGED <<cache, queued, localVars, edits, faults, crashes>>

\* Nothing in the repository makes the specification of a template immutable.
Edit ==
    /\ stored.exists /\ edits < MaxEdits
    /\ edits' = edits + 1
    /\ \E v \in Values : Store([stored EXCEPT !.options = v])
    /\ UNCHANGED <<cache, queued, localVars, creates, faults, crashes, pauses>>

Delete ==
    /\ stored.exists
    /\ Store(NoTemplate)
    /\ UNCHANGED <<cache, queued, localVars, edits, creates, faults, crashes, pauses>>

\* The pause annotation is set or removed, the label taken away or given.
SetIgnored(ignored) ==
    /\ stored.exists /\ stored.ignored # ignored
    /\ Counted(ignored)
    /\ Store([stored EXCEPT !.ignored = ignored])
    /\ UNCHANGED <<cache, queued, localVars, edits, creates, faults, crashes>>

Reconcile == ReconcileNothing \/ ReconcileCapacity

PatchEnds == \E r \in {"ok", "refused", "lost"} : Patch(r)

Next ==
    \/ Reconcile \/ PatchEnds
    \/ Deliver \/ CrashRestart
    \/ Create \/ Edit \/ Delete
    \/ \E ignored \in BOOLEAN : SetIgnored(ignored)

Spec == Init /\ [][Next]_vars

\* The manager keeps working; no resync is needed.
FairSpec == Spec /\ WF_vars(Reconcile) /\ WF_vars(PatchEnds) /\ WF_vars(Deliver)

-----------------------------------------------------------------------------
\* The controller does not feed on its own events: once users leave the
\* template alone it comes to rest, although the comparison that decides
\* about a write may never be satisfied (DeepEqual, helper.Patch).
Settles == <>[](pc = "idle" /\ ~queued /\ watch = <<>>)

\* The published capacity ends up being the one the machines of the template
\* get, although every patch is computed from an old copy; at the latest when
\* the template is no longer ignored.
CapacityConverges ==
    <>[](stored.exists /\ stored.options.set /\ ~stored.ignored =>
            stored.capacity = Encoded(CapacityOf(stored)))

\* A published capacity is never partial: autoscaling from zero always finds
\* both cpu and memory, also between two patches (Reconcile, defaults of
\* getKubemarkExtendedResources).  This is said of the first template of a
\* name: a patch computed for it may reach the next one.
CapacityComplete ==
    creates <= 1 /\ stored.capacity # EmptyList =>
        {"cpu", "memory"} \subseteq DOMAIN stored.capacity

\* A template at rest has the capacity its machines get, or none: the status
\* field "defines the resource capacity for this machine".
CapacityHonest ==
    stored.exists /\ ~stored.ignored /\ pc = "idle" /\ ~queued /\ watch = <<>> =>
        stored.capacity \in {EmptyList, Encoded(CapacityOf(stored))}

-----------------------------------------------------------------------------
\* The template and the copies of it, old ones included.
Copies == {cache} \union {watch[i] : i \in DOMAIN watch}
Versions == {stored} \union Copies

\* Why a capacity is never partial: as long as the one template of a name has
\* none, no copy and no patch under way is based on one, so the first patch
\* writes all of it; later patches never take cpu or memory away.
CompleteInv ==
    /\ IF stored.exists THEN creates >= 1 ELSE stored.capacity = EmptyList
    /\ pc = "patch" => {"cpu", "memory"} \subseteq DOMAIN after
    /\ (stored.exists \/ creates = 0) /\ creates <= 1 /\ stored.capacity = EmptyList =>
         before = EmptyList /\ \A t \in Copies : t.capacity = EmptyList
    /\ CapacityComplete

\* The informer ends up with what is stored, and what is stored has been
\* through JSON.
WatchInv ==
    /\ stored = IF watch = <<>> THEN cache ELSE watch[Len(watch)]
    /\ \A t \in Versions : Encoded(t.capacity) = t.capacity
    /\ stored.exists => stored.options \in Values

\* A patch is based on the cached copy unless another reconcile is due.
PatchInv ==
    pc = "patch" /\ ~queued /\ cache.exists /\ ~cache.ignored =>
        before = cache.capacity /\ after = CapacityOf(cache)

\* A template at rest whose options are set has exactly the capacity its
\* machines get, although DeepEqual may never be satisfied and every patch is
\* computed from an old copy (Reconcile, helper.Patch).
CapacityAtRest ==
    stored.exists /\ ~stored.ignored /\ pc = "idle" /\ ~queued /\ watch = <<>>
        /\ stored.options.set => stored.capacity = Encoded(CapacityOf(stored))

\* The inductive invariant of the template controller: what it has under way
\* is always enough to make what is published right (Reconcile, helper.Patch).
TemplateInv == CompleteInv /\ WatchInv /\ PatchInv /\ CapacityAtRest
=============================================================================
