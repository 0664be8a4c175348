------------------------- MODULE PublishImagesProofs -------------------------
(***************************************************************************)
(* Proofs about PublishImages, for any list of releases and any number of  *)
(* runs, failures and kills.                                               *)
(***************************************************************************)
EXTENDS PublishImages, SequenceTheorems, TLAPS

\* A position before the end of the list is a tag.
LEMMA TagType ==
  ASSUME TypeOK, pos <= Len(TagList)
  PROVE  Tag \in Tags /\ pos \in 1..Len(TagList) /\ pos + 1 \in 1..(Len(TagList) + 1)
  BY PublishAssumption DEF TypeOK, Tag

\* Every step keeps the types.
LEMMA TypeNext ==
  ASSUME TypeOK, BuildInv, [Next]_vars
  PROVE  TypeOK'
  <1>0. 1 \in 1..(Len(TagList) + 1) /\ Len(TagList) \in Nat
    BY PublishAssumption
  <1>1. CASE Main
    BY <1>0, <1>1, PublishAssumption DEF TypeOK, Main, Steps
  <1>2. CASE NextTag
    BY <1>0, <1>2, TagType DEF TypeOK, NextTag, Steps
  <1>3. CASE imageExists
    BY <1>0, <1>3 DEF TypeOK, imageExists, Fatal, Steps
  <1>4. CASE Checkout
    BY <1>0, <1>4, TagType DEF TypeOK, Checkout, Fatal, Steps, BuildInv, Working
  <1>5. CASE Make
    BY <1>0, <1>5 DEF TypeOK, Make, Fatal, Steps
  <1>6. CASE Link
    BY <1>0, <1>6 DEF TypeOK, Link, Fatal, Steps
  <1>7. CASE DockerBuild
    BY <1>0, <1>7, TagType DEF TypeOK, DockerBuild, Steps, BuildInv, Working
  <1>8. CASE Unlink
    BY <1>0, <1>8 DEF TypeOK, Unlink, Fatal, Steps
  <1>9. CASE dockerPush
    BY <1>0, <1>9, TagType DEF TypeOK, dockerPush, Fatal, Steps, BuildInv, Working
  <1>10. CASE Kill
    BY <1>0, <1>10 DEF TypeOK, Kill, Steps
  <1>11. ASSUME NEW t \in Tags, RemoveImage(t) PROVE TypeOK'
    BY <1>11 DEF TypeOK, RemoveImage, Steps
  <1>12. CASE UNCHANGED vars
    BY <1>12 DEF TypeOK, vars, Steps
  <1> QED
    BY <1>1, <1>2, <1>3, <1>4, <1>5, <1>6, <1>7, <1>8, <1>9, <1>10, <1>11, <1>12
    DEF Next, dockerBuild

\* The steps of a build hand the release on from one to the next.
LEMMA BuildNext ==
  ASSUME TypeOK, BuildInv, [Next]_vars
  PROVE  BuildInv'
  <1> USE DEF BuildInv, Working, Tag
  <1>1. CASE Main
    BY <1>1 DEF Main
  <1>2. CASE NextTag
    BY <1>2, PublishAssumption DEF NextTag, TypeOK
  <1>3. CASE imageExists
    BY <1>3 DEF imageExists, Fatal
  <1>4. CASE Checkout
    BY <1>4 DEF Checkout, Fatal
  <1>5. CASE Make
    BY <1>5 DEF Make, Fatal
  <1>6. CASE Link
    BY <1>6 DEF Link, Fatal
  <1>7. CASE DockerBuild
    BY <1>7 DEF DockerBuild
  <1>8. CASE Unlink
    BY <1>8 DEF Unlink, Fatal
  <1>9. CASE dockerPush
    BY <1>9 DEF dockerPush, Fatal
  <1>10. CASE Kill
    BY <1>10 DEF Kill
  <1>11. ASSUME NEW t \in Tags, RemoveImage(t) PROVE BuildInv'
    BY <1>11 DEF RemoveImage
  <1>12. CASE UNCHANGED vars
    BY <1>12 DEF vars
  <1> QED
    BY <1>1, <1>2, <1>3, <1>4, <1>5, <1>6, <1>7, <1>8, <1>9, <1>10, <1>11, <1>12
    DEF Next, dockerBuild

\* Images are only made of the linked binary, and only pushed as they are.
LEMMA ImagesNext ==
  ASSUME TypeOK, BuildInv, ImagesMatchTags, [Next]_vars
  PROVE  ImagesMatchTags'
  <1> USE DEF ImagesMatchTags
  <1>1. CASE UNCHANGED <<images, registry>>
    BY <1>1
  <1>2. CASE DockerBuild
    <2>1. Tag \in Tags /\ link = Tag /\ registry' = registry
      BY <1>2, TagType DEF BuildInv, Working, DockerBuild
    <2>2. images' = images \/ images' = [images EXCEPT ![Tag] = Tag]
      BY <1>2, <2>1 DEF DockerBuild
    <2> QED
      BY <2>1, <2>2 DEF TypeOK
  <1>3. CASE dockerPush
    <2>1. Tag \in Tags /\ images' = images
      BY <1>3, TagType DEF BuildInv, Working, dockerPush
    <2>2. registry' = registry \/ registry' = [registry EXCEPT ![Tag] = images[Tag]]
      BY <1>3 DEF dockerPush
    <2> QED
      BY <2>1, <2>2 DEF TypeOK
  <1>4. ASSUME NEW t \in Tags, RemoveImage(t) PROVE ImagesMatchTags'
    BY <1>4 DEF RemoveImage, TypeOK
  <1>5. CASE \/ Main \/ NextTag \/ imageExists \/ Checkout \/ Make \/ Link \/ Unlink \/ Kill
             \/ UNCHANGED vars
    BY <1>1, <1>5 DEF Main, NextTag, imageExists, Checkout, Make, Link, Unlink, Kill, vars
  <1> QED
    BY <1>2, <1>3, <1>4, <1>5 DEF Next, dockerBuild

\* A link outlives its build only when a run is killed or the removal fails.
LEMMA LinkNext ==
  ASSUME TypeOK, NoStaleLink, [Next]_vars
  PROVE  NoStaleLink'
  <1> USE DEF NoStaleLink
  <1>1. CASE Main \/ NextTag \/ imageExists \/ Checkout \/ Make \/ dockerPush
    BY <1>1 DEF Main, NextTag, imageExists, Checkout, Make, dockerPush, Fatal
  <1>2. CASE Link \/ DockerBuild \/ Unlink
    BY <1>2 DEF Link, DockerBuild, Unlink, Fatal
  <1>3. CASE Kill
    BY <1>3 DEF Kill
  <1>4. ASSUME NEW t \in Tags, RemoveImage(t) PROVE NoStaleLink'
    BY <1>4 DEF RemoveImage
  <1>5. CASE UNCHANGED vars
    BY <1>5 DEF vars
  <1> QED
    BY <1>1, <1>2, <1>3, <1>4, <1>5 DEF Next, dockerBuild

\* A run moves on from a release when it has pushed it, or skipped it.
LEMMA PushNext ==
  ASSUME TypeOK, BuildInv, PushInv, [Next]_vars
  PROVE  PushInv'
  <1> DEFINE pushed(r, n) == \A i \in 1..n :
                 ClassOf[TagList[i]] = "eligible" => r[TagList[i]] # None
  <1>0. Len(TagList) \in Nat /\ pos \in 1..(Len(TagList) + 1)
    BY PublishAssumption DEF TypeOK
  <1>1. CASE Main
    BY <1>1 DEF Main, PushInv
  <1>2. CASE NextTag
    <2>1. push' = push /\ registry' = registry /\ pc = "loop"
      BY <1>2 DEF NextTag
    <2>2. CASE pos' = pos
      <3>1. pc' = "done" => pos = Len(TagList) + 1
        BY <1>0, <1>2, <2>2 DEF NextTag
      <3> QED
        BY <2>1, <2>2, <3>1 DEF PushInv
    <2>3. CASE pos' = pos + 1 /\ ClassOf[Tag] # "eligible" /\ pc' = pc
      <3>1. \A i \in 1..(pos' - 1) : i \in 1..(pos - 1) \/ i = pos
        BY <1>0, <2>3
      <3> QED
        BY <2>1, <2>3, <3>1 DEF PushInv, Tag
    <2> QED
      BY <1>0, <1>2, <2>2, <2>3 DEF NextTag
  <1>3. CASE imageExists \/ Checkout \/ Make \/ Link \/ Unlink
    BY <1>3 DEF imageExists, Checkout, Make, Link, Unlink, Fatal, PushInv
  <1>4. CASE DockerBuild
    BY <1>4 DEF DockerBuild, PushInv
  <1>5. CASE dockerPush
    <2>1. push' = push /\ pc = "push" /\ pc' # "done" /\ Tag \in Tags
      BY <1>5, TagType DEF dockerPush, Fatal, BuildInv, Working
    <2>2. CASE ~push \/ pc' = "stopped"
      BY <2>1, <2>2 DEF PushInv
    <2>3. CASE /\ push /\ images[Tag] # None /\ pos' = pos + 1
               /\ registry' = [registry EXCEPT ![Tag] = images[Tag]]
      <3>1. \A t \in Tags : registry[t] # None \/ t = Tag => registry'[t] # None
        BY <2>1, <2>3 DEF TypeOK
      <3>2. \A i \in 1..(pos' - 1) : i \in 1..(pos - 1) \/ i = pos
        BY <1>0, <2>3
      <3>3. \A i \in 1..(pos' - 1) : TagList[i] \in Tags
        <4>1. pos <= Len(TagList)
          BY <2>1 DEF BuildInv, Working
        <4>2. \A i \in 1..(pos' - 1) : i \in 1..Len(TagList)
          BY <1>0, <2>3, <4>1
        <4> QED
          BY <4>2, PublishAssumption
      <3>4. pushed(registry, pos - 1)
        BY <2>1, <2>3 DEF PushInv
      <3>5. \A i \in 1..(pos' - 1) :
              ClassOf[TagList[i]] = "eligible" => registry'[TagList[i]] # None
        BY <3>1, <3>2, <3>3, <3>4 DEF Tag
      <3> QED
        BY <2>1, <3>5 DEF PushInv
    <2> QED
      BY <1>5, <2>2, <2>3 DEF dockerPush, Fatal
  <1>6. CASE Kill
    BY <1>6 DEF Kill, PushInv
  <1>7. ASSUME NEW t \in Tags, RemoveImage(t) PROVE PushInv'
    BY <1>7 DEF RemoveImage, PushInv
  <1>8. CASE UNCHANGED vars
    BY <1>8 DEF vars, PushInv
  <1> QED
    BY <1>1, <1>2, <1>3, <1>4, <1>5, <1>6, <1>7, <1>8 DEF Next, dockerBuild

\* At first there is nothing, and the tool is not running.
LEMMA PublishInit == Init => TypeOK /\ PublishInv
  <1> SUFFICES ASSUME Init PROVE TypeOK /\ PublishInv
    OBVIOUS
  <1>1. TypeOK
    <2>1. 1 \in 1..(Len(TagList) + 1) /\ 0 \in 0..MaxRuns
      BY PublishAssumption
    <2> QED
      BY <2>1 DEF Init, TypeOK, Steps
  <1>2. BuildInv /\ PushInv /\ NoStaleLink
    BY DEF Init, BuildInv, Working, PushInv, NoStaleLink
  <1>3. ImagesMatchTags
    BY DEF Init, ImagesMatchTags
  <1> QED
    BY <1>1, <1>2, <1>3 DEF PublishInv

\* The inductive invariant, with the types.
THEOREM PublishInvariant == Spec => [](TypeOK /\ PublishInv)
  <1>1. TypeOK /\ PublishInv /\ [Next]_vars => (TypeOK /\ PublishInv)'
    BY TypeNext, BuildNext, ImagesNext, LinkNext, PushNext DEF PublishInv
  <1> QED
    BY <1>1, PublishInit, PTL DEF Spec

\* The publisher's state is well typed: in particular it never looks past the
\* end of the list of tags (the loop in main).
THEOREM PublishTypeCorrect == Spec => []TypeOK
  BY PublishInvariant, PTL

\* An image is made of the release its tag names, in the local store and in
\* the registry, whatever runs were killed or failed before (dockerBuild).
THEOREM ImagesAreRight == Spec => []ImagesMatchTags
  <1>1. PublishInv => ImagesMatchTags
    BY DEF PublishInv
  <1> QED
    BY <1>1, PublishInvariant, PTL

\* A link in the way of the next build is left by a kill or by a failed
\* removal only (the deferred os.Remove in dockerBuild).
THEOREM LinksAreRemoved == Spec => []NoStaleLink
  <1>1. PublishInv => NoStaleLink
    BY DEF PublishInv
  <1> QED
    BY <1>1, PublishInvariant, PTL

\* A run with --push that gets to its end has pushed every eligible release
\* (main: an error of any release ends the run).
THEOREM DoneRunsAreComplete == Spec => []DoneIsComplete
  <1>1. TypeOK /\ PublishInv => DoneIsComplete
    <2> SUFFICES ASSUME TypeOK, PublishInv, pc = "done", push
                 PROVE  \A i \in 1..Len(TagList) :
                          ClassOf[TagList[i]] = "eligible" => registry[TagList[i]] # None
      BY DEF DoneIsComplete
    <2>1. pos - 1 = Len(TagList)
      BY PublishAssumption DEF PublishInv, PushInv
    <2> QED
      BY <2>1 DEF PublishInv, PushInv
  <1> QED
    BY <1>1, PublishInvariant, PTL

=============================================================================
