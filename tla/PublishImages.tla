---------------------------- MODULE PublishImages ----------------------------
(***************************************************************************)
(* The image publisher (hack/tools/publish-kubemark-images.go): for every  *)
(* Kubernetes release it checks the tag out, builds kubemark, links the    *)
(* binary into the docker context, builds an image and pushes it.  The     *)
(* checkout, the build output, the link and the local images are on disk   *)
(* and outlive a run that fails or is killed; the next run starts from     *)
(* what it finds.                                                          *)
(***************************************************************************)
EXTENDS Naturals, Sequences

CONSTANTS Tags,        \* release tags
          TagList,     \* the order in which the registry lists them
          ClassOf,     \* does a tag parse, and does it meet StartingVersion?
          None,        \* not a tag
          MaxRuns      \* bound: runs of the tool

ASSUME PublishAssumption ==
    /\ TagList \in Seq(Tags)
    /\ ClassOf \in [Tags -> {"unparsable", "below", "eligible"}]
    /\ None \notin Tags
    /\ MaxRuns \in Nat

VARIABLES
    pc,        \* the step the tool is at
    pos,       \* the position in TagList
    checkout,  \* the tag checked out in KubeDir
    binary,    \* the tag _output/bin/kubemark was built from
    link,      \* the tag the linked binary in the docker context was built from
    images,    \* [Tags -> the tag the local image was built from]
    registry,  \* [Tags -> the tag the pushed image was built from]
    built,     \* did the docker build succeed?
    push,      \* the --push flag of this run
    runs,      \* runs started
    spoiled    \* has a run been killed, or has the link not been removed?

vars == <<pc, pos, checkout, binary, link, images, registry, built, push, runs, spoiled>>

Steps == {"stopped", "loop", "exists", "checkout", "make", "link",
          "docker", "unlink", "push", "done"}

TypeOK ==
    /\ pc \in Steps
    /\ pos \in 1..(Len(TagList) + 1)
    /\ {checkout, binary, link} \subseteq Tags \union {None}
    /\ images \in [Tags -> Tags \union {None}]
    /\ registry \in [Tags -> Tags \union {None}]
    /\ built \in BOOLEAN /\ push \in BOOLEAN /\ spoiled \in BOOLEAN
    /\ runs \in 0..MaxRuns

Init ==
    /\ pc = "stopped" /\ pos = 1
    /\ checkout = None /\ binary = None /\ link = None
    /\ images = [t \in Tags |-> None]
    /\ registry = [t \in Tags |-> None]
    /\ built = FALSE /\ push = FALSE /\ runs = 0 /\ spoiled = FALSE

Tag == TagList[pos]

-----------------------------------------------------------------------------
\* Variant with a defect: an error is logged and the loop goes on.
FatalGoesOn == pc' = "loop" /\ pos' = pos + 1

\* log.Fatalf: the process exits.
Fatal == pc' = "stopped" /\ pos' = 1

\* The tool is started; the tags have been fetched and listed.
Main ==
    /\ pc \in {"stopped", "done"} /\ runs < MaxRuns
    /\ runs' = runs + 1
    /\ push' \in BOOLEAN
    /\ pc' = "loop" /\ pos' = 1
    /\ UNCHANGED <<checkout, binary, link, images, registry, built, spoiled>>

\* Variant with a defect: a tag that is skipped takes the next one with it.
NextTagTwice ==
    /\ pc = "loop"
    /\ IF pos > Len(TagList) THEN pc' = "done" /\ UNCHANGED pos
       ELSE IF ClassOf[Tag] = "eligible" THEN pc' = "exists" /\ UNCHANGED pos
       ELSE pos' = pos + 2 /\ UNCHANGED pc
    /\ UNCHANGED <<checkout, binary, link, images, registry, built, push, runs, spoiled>>

\* The next tag is skipped when it does not parse or is too old.
NextTag ==
    /\ pc = "loop"
    /\ IF pos > Len(TagList) THEN pc' = "done" /\ UNCHANGED pos
       ELSE IF ClassOf[Tag] = "eligible" THEN pc' = "exists" /\ UNCHANGED pos
       ELSE pos' = pos + 1 /\ UNCHANGED pc
    /\ UNCHANGED <<checkout, binary, link, images, registry, built, push, runs, spoiled>>

\* An image that is found is not built again, but it is pushed.  The exit codes
\* 1 and 125 of docker mean "no image" whatever the cause, so an image that
\* exists may be built once more; any other error ends the run.
imageExists ==
    /\ pc = "exists"
    /\ \/ images[Tag] # None /\ pc' = "push" /\ UNCHANGED pos
       \/ pc' = "checkout" /\ UNCHANGED pos
       \/ Fatal
    /\ UNCHANGED <<checkout, binary, link, images, registry, built, push, runs, spoiled>>

\* git fetch and git checkout.
Checkout ==
    /\ pc = "checkout"
    /\ \/ checkout' = Tag /\ pc' = "make" /\ UNCHANGED pos
       \/ Fatal /\ UNCHANGED checkout
    /\ UNCHANGED <<binary, link, images, registry, built, push, runs, spoiled>>

\* make clean all: when it fails the old binary may be gone, or be
\* replaced.
Make ==
    /\ pc = "make"
    /\ \/ binary' = checkout /\ pc' = "link" /\ UNCHANGED pos
       \/ binary' \in {binary, None, checkout} /\ Fatal
    /\ UNCHANGED <<checkout, link, images, registry, built, push, runs, spoiled>>

\* Variant with a defect: a link that exists is good enough.
LinkAny ==
    /\ pc = "link"
    /\ link' = IF link = None THEN binary ELSE link
    /\ pc' = "docker"
    /\ UNCHANGED <<pos, checkout, binary, images, registry, built, push, runs, spoiled>>

\* A hard link: it keeps the binary it was made for when a later build puts
\* a new one in its place, and it cannot be made where there is one already.
Link ==
    /\ pc = "link"
    /\ \/ link = None /\ link' = binary /\ pc' = "docker" /\ UNCHANGED pos
       \/ Fatal /\ UNCHANGED link
    /\ UNCHANGED <<checkout, binary, images, registry, built, push, runs, spoiled>>

\* The image gets the binary that is linked into the context.
DockerBuild ==
    /\ pc = "docker"
    /\ \/ images' = [images EXCEPT ![Tag] = link] /\ built' = TRUE
       \/ built' = FALSE /\ UNCHANGED images
    /\ pc' = "unlink"
    /\ UNCHANGED <<pos, checkout, binary, link, registry, push, runs, spoiled>>

\* Variant with a defect: the link is only removed after a good build.
UnlinkGood ==
    /\ pc = "unlink"
    /\ \/ link' = (IF built THEN None ELSE link) /\ UNCHANGED spoiled
       \/ spoiled' = TRUE /\ UNCHANGED link
    /\ IF built THEN pc' = "push" /\ UNCHANGED pos ELSE Fatal
    /\ UNCHANGED <<checkout, binary, images, registry, built, push, runs>>

\* The deferred removal, whose error nobody looks at; then dockerBuild returns.
Unlink ==
    /\ pc = "unlink"
    /\ \/ link' = None /\ UNCHANGED spoiled
       \/ spoiled' = TRUE /\ UNCHANGED link
    /\ IF built THEN pc' = "push" /\ UNCHANGED pos ELSE Fatal
    /\ UNCHANGED <<checkout, binary, images, registry, built, push, runs>>

\* The image may have been removed from the local store since.
dockerPush ==
    /\ pc = "push"
    /\ \/ ~push /\ pc' = "loop" /\ pos' = pos + 1 /\ UNCHANGED registry
       \/ /\ push /\ images[Tag] # None
          /\ registry' = [registry EXCEPT ![Tag] = images[Tag]]
          /\ pc' = "loop" /\ pos' = pos + 1
       \/ push /\ Fatal /\ UNCHANGED registry
    /\ UNCHANGED <<checkout, binary, link, images, built, push, runs, spoiled>>

-----------------------------------------------------------------------------
\* The process is killed; what is on disk stays.
Kill ==
    /\ pc \notin {"stopped", "done"}
    /\ pc' = "stopped" /\ pos' = 1
    /\ spoiled' = TRUE
    /\ UNCHANGED <<checkout, binary, link, images, registry, built, push, runs>>

\* Somebody removes a local image.
RemoveImage(t) ==
    /\ images[t] # None
    /\ images' = [images EXCEPT ![t] = None]
    /\ UNCHANGED <<pc, pos, checkout, binary, link, registry, built, push, runs, spoiled>>

dockerBuild == Checkout \/ Make \/ Link \/ DockerBuild \/ Unlink

Next ==
    \/ Main \/ NextTag \/ imageExists \/ dockerBuild \/ dockerPush
    \/ Kill \/ \E t \in Tags : RemoveImage(t)

Spec == Init /\ [][Next]_vars

-----------------------------------------------------------------------------
\* An image is made of the release its tag names, however many runs have been
\* killed half-way and left their checkout, binary or link behind (dockerBuild).
ImagesMatchTags ==
    \A t \in Tags : images[t] \in {None, t} /\ registry[t] \in {None, t}

\* A run that gets to its end has pushed every eligible release (main: any
\* error of a release ends the run).
DoneIsComplete ==
    pc = "done" /\ push =>
        \A i \in 1..Len(TagList) :
            ClassOf[TagList[i]] = "eligible" => registry[TagList[i]] # None

\* Unless a run was killed or the link could not be removed, nothing is in the
\* way of the next build, whether the last one succeeded or not (the deferred
\* os.Remove in dockerBuild).
NoStaleLink ==
    ~spoiled /\ link # None => pc \in {"docker", "unlink"}

-----------------------------------------------------------------------------
(***************************************************************************)
(* Why these hold: what one step of a build leaves on disk is what the     *)
(* next one needs, and a run has dealt with all the tags it is past.       *)
(***************************************************************************)
Working == pc \notin {"stopped", "loop", "done"}

BuildInv ==
    /\ Working => pos <= Len(TagList) /\ ClassOf[Tag] = "eligible"
    /\ pc = "make" => checkout = Tag
    /\ pc = "link" => binary = Tag
    /\ pc = "docker" => link = Tag

\* The releases before the position of a run that pushes are in the registry.
PushInv ==
    /\ push /\ pc # "stopped" =>
         \A i \in 1..(pos - 1) :
            ClassOf[TagList[i]] = "eligible" => registry[TagList[i]] # None
    /\ pc = "done" => pos = Len(TagList) + 1

\* The inductive invariant (main, dockerBuild and dockerPush).
PublishInv == BuildInv /\ PushInv /\ ImagesMatchTags /\ NoStaleLink
=============================================================================
