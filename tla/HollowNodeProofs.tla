-------------------------- MODULE HollowNodeProofs ---------------------------
(***************************************************************************)
(* Proofs about HollowNode: whatever the number of extra mounts and the    *)
(* resources a machine asks for, a node that is started finds its mounts,  *)
(* its capacity and, unless a mount hides them, its credentials.           *)
(***************************************************************************)
EXTENDS HollowNode, SequenceTheorems, TLAPS

\* What Append does to a sequence that is given as a function.
LEMMA AppendToFunction ==
    ASSUME NEW n \in Nat, NEW F(_)
    PROVE  Append([i \in 1..n |-> F(i)], F(n + 1)) = [i \in 1..n + 1 |-> F(i)]
<1> DEFINE S == {F(i) : i \in 1..n + 1}
           f == [i \in 1..n |-> F(i)]
<1>1. f \in Seq(S) /\ Len(f) = n
  <2>1. \A i \in 1..n : F(i) \in S
    OBVIOUS
  <2>2. f \in [1..n -> S]
    BY <2>1
  <2> QED
    BY <2>2, SeqDef, LenProperties, SMT
<1>2. F(n + 1) \in S
  OBVIOUS
<1> QED
  BY <1>1, <1>2, SMT

\* Mounted appends to both parts of a pod.
LEMMA MountedRecord ==
    ASSUME NEW a, NEW b, NEW w
    PROVE  Mounted([mounts |-> a, volumes |-> b], w) =
               [mounts  |-> Append(a, [path |-> w.containerPath, name |-> w.name]),
                volumes |-> Append(b, [name |-> w.name, source |-> w.hostPath])]
<1> DEFINE c == Append(a, [path |-> w.containerPath, name |-> w.name])
           d == Append(b, [name |-> w.name, source |-> w.hostPath])
           p == [mounts |-> a, volumes |-> b]
<1>1. Mounted(p, w) = [p EXCEPT !.mounts = c, !.volumes = d]
  <2>1. p.mounts = a /\ p.volumes = b
    OBVIOUS
  <2> HIDE DEF p
  <2> QED
    BY <2>1 DEF Mounted
<1> HIDE DEF c, d
<1>2. [p EXCEPT !.mounts = c, !.volumes = d] = [mounts |-> c, volumes |-> d]
  <2>1. DOMAIN p = {"mounts", "volumes"}
    OBVIOUS
  <2> HIDE DEF p
  <2> DEFINE q == [p EXCEPT !.mounts = c, !.volumes = d]
             r == [mounts |-> c, volumes |-> d]
  <2>2. q = [x \in DOMAIN p |-> q[x]] /\ r = [x \in {"mounts", "volumes"} |-> r[x]]
    BY <2>1
  <2>3. q["mounts"] = c /\ q["volumes"] = d
    BY <2>1
  <2>4. r["mounts"] = c /\ r["volumes"] = d
    OBVIOUS
  <2> HIDE DEF q, r
  <2>5. \A x \in {"mounts", "volumes"} : q[x] = r[x]
    BY <2>3, <2>4
  <2>6. q = r
    BY <2>1, <2>2, <2>5
  <2> QED
    BY <2>6 DEF q, r
<1> QED
  BY <1>1, <1>2 DEF c, d

\* The loop's step: one more extra mount.
LEMMA MountedPod ==
    ASSUME NEW n \in Nat
    PROVE  Mounted(PodWith(n), input.extraMounts[n + 1]) = PodWith(n + 1)
<1> DEFINE v == input.extraMounts
           M(i) == IF i = 1 THEN [path |-> "/kubeconfig", name |-> "kubeconfig"]
                   ELSE [path |-> v[i - 1].containerPath, name |-> v[i - 1].name]
           V(i) == IF i = 1 THEN SecretVolume
                   ELSE [name |-> v[i - 1].name, source |-> v[i - 1].hostPath]
<1>1. Append([i \in 1..n + 1 |-> M(i)], M(n + 2)) = [i \in 1..n + 2 |-> M(i)]
  <2> HIDE DEF M
  <2>1. n + 1 \in Nat /\ (n + 1) + 1 = n + 2
    OBVIOUS
  <2>2. Append([i \in 1..n + 1 |-> M(i)], M((n + 1) + 1)) = [i \in 1..(n + 1) + 1 |-> M(i)]
    BY <2>1, AppendToFunction
  <2> QED
    BY <2>1, <2>2
<1>2. Append([i \in 1..n + 1 |-> V(i)], V(n + 2)) = [i \in 1..n + 2 |-> V(i)]
  <2> HIDE DEF V
  <2>1. n + 1 \in Nat /\ (n + 1) + 1 = n + 2
    OBVIOUS
  <2>2. Append([i \in 1..n + 1 |-> V(i)], V((n + 1) + 1)) = [i \in 1..(n + 1) + 1 |-> V(i)]
    BY <2>1, AppendToFunction
  <2> QED
    BY <2>1, <2>2
<1>3. /\ M(n + 2) = [path |-> v[n + 1].containerPath, name |-> v[n + 1].name]
      /\ V(n + 2) = [name |-> v[n + 1].name, source |-> v[n + 1].hostPath]
  OBVIOUS
<1>4. PodWith(n) = [mounts |-> [i \in 1..n + 1 |-> M(i)], volumes |-> [i \in 1..n + 1 |-> V(i)]]
  BY DEF PodWith
<1>5. PodWith(n + 1) = [mounts |-> [i \in 1..n + 2 |-> M(i)], volumes |-> [i \in 1..n + 2 |-> V(i)]]
  BY (n + 1) + 1 = n + 2 DEF PodWith
<1> DEFINE a == [i \in 1..n + 1 |-> M(i)]
           b == [i \in 1..n + 1 |-> V(i)]
<1>6. Mounted(PodWith(n), v[n + 1]) = [mounts |-> Append(a, M(n + 2)), volumes |-> Append(b, V(n + 2))]
  <2> HIDE DEF a, b, M, V, v
  <2>1. PodWith(n) = [mounts |-> a, volumes |-> b]
    BY <1>4 DEF a, b
  <2>2. Mounted([mounts |-> a, volumes |-> b], v[n + 1]) =
            [mounts |-> Append(a, [path |-> v[n + 1].containerPath, name |-> v[n + 1].name]),
             volumes |-> Append(b, [name |-> v[n + 1].name, source |-> v[n + 1].hostPath])]
    BY MountedRecord
  <2> QED
    BY <2>1, <2>2, <1>3
<1> HIDE DEF M, V
<1> QED
  BY <1>1, <1>2, <1>5, <1>6

\* The mounts and volumes of a pod, position by position.
LEMMA PodParts ==
    ASSUME NEW n \in Nat
    PROVE  /\ DOMAIN PodWith(n).mounts = 1..n + 1 /\ DOMAIN PodWith(n).volumes = 1..n + 1
           /\ Len(PodWith(n).volumes) = n + 1
           /\ PodWith(n).mounts[1] = [path |-> "/kubeconfig", name |-> "kubeconfig"]
           /\ PodWith(n).volumes[1] = SecretVolume
           /\ \A i \in 1..n :
                /\ PodWith(n).mounts[i + 1] = [path |-> input.extraMounts[i].containerPath,
                                               name |-> input.extraMounts[i].name]
                /\ PodWith(n).volumes[i + 1] = [name |-> input.extraMounts[i].name,
                                                source |-> input.extraMounts[i].hostPath]
BY DEF PodWith

\* What a directory holds at the end of a path that leads there.
LEMMA PlaceBelow ==
    ASSUME NEW S, NEW c \in Seq(S), NEW x \in S
    PROVE  /\ Append(c, x) \in Seq(S) /\ Covers(c, Append(c, x))
           /\ SubSeq(Append(c, x), Len(c) + 1, Len(Append(c, x))) = <<x>>
<1> DEFINE d == Append(c, x)
           n == Len(c)
<1>1. /\ d \in Seq(S) /\ Len(d) = n + 1 /\ n \in Nat
      /\ \A i \in 1..n : d[i] = c[i]
      /\ d[n + 1] = x
  OBVIOUS
<1>2. Covers(c, d)
  BY <1>1 DEF Covers
<1> DEFINE s == SubSeq(d, n + 1, n + 1)
<1>3. s \in Seq(S) /\ Len(s) = 1 /\ s[1] = x
  <2> HIDE DEF d, n
  <2>1. n + 1 \in 1..Len(d) + 1 /\ n + 1 \in n..Len(d) /\ (n + 1) - (n + 1) + 1 = 1
    BY <1>1
  <2> QED
    BY <1>1, <2>1, SubSeqProperties
<1>4. s = <<x>>
  <2> HIDE DEF s
  <2> QED
    BY <1>3
<1> QED
  BY <1>1, <1>2, <1>4

\* Paths are covered by themselves, and nothing is left to go then.
LEMMA PlaceItself ==
    ASSUME NEW S, NEW c \in Seq(S)
    PROVE  Covers(c, c) /\ SubSeq(c, Len(c) + 1, Len(c)) = <<>>
BY DEF Covers

\* Two directories that hold one file lie one above the other.
LEMMA CoversLine ==
    ASSUME NEW S, NEW c \in Seq(S), NEW e \in Seq(S), NEW d \in Seq(S),
           Covers(c, d), Covers(e, d), Len(c) <= Len(e)
    PROVE  Covers(c, e) /\ (Len(c) = Len(e) => c = e)
<1>1. \A i \in 1..Len(c) : c[i] = e[i]
  BY DEF Covers
<1> QED
  BY <1>1 DEF Covers

\* In a pod the API server accepts, a path that one mount covers more closely
\* than all others is served from the volume at that mount's own position.
LEMMA ServedAt ==
    ASSUME NEW p, DOMAIN p.mounts = DOMAIN p.volumes, Accepted(p),
           \A j \in DOMAIN p.mounts : /\ p.mounts[j].name = p.volumes[j].name
                                      /\ Clean[p.mounts[j].path] \in Seq(FileNames),
           NEW d, NEW i \in DOMAIN p.mounts, Covers(Clean[p.mounts[i].path], d),
           \A j \in DOMAIN p.mounts \ {i} :
               Covers(Clean[p.mounts[j].path], d) =>
                   Len(Clean[p.mounts[j].path]) < Len(Clean[p.mounts[i].path])
    PROVE  Served(p, d) = {[source |-> p.volumes[i].source,
                            place  |-> SubSeq(d, Len(Clean[p.mounts[i].path]) + 1, Len(d))]}
<1> DEFINE mt == p.mounts[i]
           vol == p.volumes[i]
<1>1. vol \in Range(p.volumes) /\ mt \in Range(p.mounts)
  BY DEF Range
<1>2. \A o \in Range(p.mounts) : Len(Clean[o.path]) \in Nat
  BY DEF Range
<1>3. ASSUME NEW o \in Range(p.mounts), Covers(Clean[o.path], d)
      PROVE  o = mt \/ Len(Clean[o.path]) < Len(Clean[mt.path])
  <2>1. PICK j \in DOMAIN p.mounts : o = p.mounts[j]
    BY DEF Range
  <2> QED
    BY <1>3, <2>1
<1>4. Serving(p, d) = {mt}
  <2> DEFINE covering == {o \in Range(p.mounts) : Covers(Clean[o.path], d)}
  <2>1. mt \in covering /\ \A o \in covering : Len(Clean[o.path]) <= Len(Clean[mt.path])
    BY <1>1, <1>2, <1>3
  <2>2. ASSUME NEW o \in covering, \A q \in covering : Len(Clean[q.path]) <= Len(Clean[o.path])
        PROVE  o = mt
    BY <1>1, <1>2, <1>3, <2>1, <2>2
  <2> QED
    BY <2>1, <2>2 DEF Serving
<1>5. ASSUME NEW w \in Range(p.volumes), mt.name = w.name
      PROVE  w = vol
  <2>1. PICK k \in DOMAIN p.volumes : w = p.volumes[k]
    BY DEF Range
  <2> QED
    BY <1>5, <2>1 DEF Accepted
<1>6. {y \in {mt} \X Range(p.volumes) : y[1].name = y[2].name} = {<<mt, vol>>}
  <2> HIDE DEF mt, vol
  <2>1. mt.name = vol.name
    BY DEF mt, vol
  <2> QED
    BY <1>1, <1>5, <2>1
<1> HIDE DEF mt, vol
<1>7. Served(p, d) = {[source |-> x[2].source, place |-> SubSeq(d, Len(Clean[x[1].path]) + 1, Len(d))] :
                        x \in {<<mt, vol>>}}
  BY <1>4, <1>6 DEF Served
<1>8. <<mt, vol>>[1] = mt /\ <<mt, vol>>[2] = vol
  OBVIOUS
<1> QED
  BY <1>7, <1>8 DEF mt, vol

-----------------------------------------------------------------------------
\* Nothing is put together yet: the first step.
LEMMA RenderInit ==
    Init => RenderInv
<1> SUFFICES ASSUME Init PROVE RenderInv
  OBVIOUS
<1>1. input.options \in OptionValues
  BY RenderAssumption DEF Init
<1>2. input.extraMounts \in Seq(Mounts) /\ Len(input.extraMounts) \in Nat
  <2>1. PICK n \in 0..MaxMounts : input.extraMounts \in [1..n -> Mounts]
    BY DEF Init
  <2>2. n \in Nat
    BY RenderAssumption
  <2> QED
    BY <2>1, <2>2, SMT
<1>3. pod = PodWith(0)
  BY DEF Init, BarePod, PodWith
<1>4. PodInv
  BY <1>2, <1>3 DEF PodInv, Init
<1>5. SecretMade /\ FlagInv
  BY DEF Init, SecretMade, FlagInv
<1> QED
  BY <1>1, <1>2, <1>4, <1>5 DEF RenderInv, Init

\* PodWith only depends on the input, which no step changes.
LEMMA PodKept ==
    ASSUME RenderInv, UNCHANGED <<input, pod>>,
           step' \in {"version", "flag", "mounts", "failed"},
           step \in {"secret", "version", "flag"}
    PROVE  PodInv'
BY DEF RenderInv, PodInv, PodWith

LEMMA GenerateSecretInv ==
    RenderInv /\ GenerateSecret => RenderInv'
<1> SUFFICES ASSUME RenderInv, GenerateSecret PROVE RenderInv'
  OBVIOUS
<1>1. PodInv'
  BY PodKept DEF GenerateSecret
<1>2. SecretMade'
  BY DEF GenerateSecret, SecretMade
<1>3. FlagInv'
  BY DEF GenerateSecret, FlagInv, RenderInv
<1> QED
  BY <1>1, <1>2, <1>3 DEF GenerateSecret, RenderInv

LEMMA CheckVersionInv ==
    RenderInv /\ CheckVersion => RenderInv'
<1> SUFFICES ASSUME RenderInv, CheckVersion PROVE RenderInv'
  OBVIOUS
<1>1. PodInv'
  BY PodKept DEF CheckVersion
<1>2. SecretMade'
  BY DEF CheckVersion, SecretMade, RenderInv
<1>3. FlagInv'
  <2>1. flag = <<>> /\ {e[1] : e \in Range(flag)} = {}
    BY DEF CheckVersion, FlagInv, RenderInv, Range
  <2>2. input' = input /\ flag' = flag
    BY DEF CheckVersion
  <2>3. \/ step' = "flag" /\ todo' = DOMAIN getKubemarkExtendedResources(input.options)
           /\ Supported(input.release)
        \/ step' = "mounts" /\ ~Supported(input.release) /\ ~input.options.set
        \/ step' = "failed"
    BY DEF CheckVersion
  <2> DEFINE want == getKubemarkExtendedResources(input.options)
             S == {<<k, Encoded(want)[k]>> : k \in DOMAIN want}
             done == {e[1] : e \in Range(flag)}
  <2>4. done' = {} /\ want' = want /\ S' = S /\ Supported(input.release)' = Supported(input.release)
    BY <2>1, <2>2 DEF Supported
  <2>5. /\ FlagInv' <=> LET w == want' IN
             /\ flag' \in Seq(S')
             /\ step' \in {"secret", "version"} => flag' = <<>>
             /\ step' = "flag" => Supported(input.release)' /\ DOMAIN w = todo' \union done'
             /\ step' \in {"mounts", "created", "refused"} =>
                  IF Supported(input.release)' THEN DOMAIN w \subseteq done' ELSE ~input'.options.set /\ flag' = <<>>
    BY DEF FlagInv
  <2>6. flag' \in Seq(S)
    BY <2>1, <2>2
  <2> HIDE DEF want, S, done
  <2> QED
    BY <2>1, <2>2, <2>3, <2>4, <2>5, <2>6 DEF want
<1> QED
  BY <1>1, <1>2, <1>3 DEF CheckVersion, RenderInv

\* Appending adds one element to the range of a sequence.
LEMMA RangeOfAppend ==
    ASSUME NEW S, NEW s \in Seq(S), NEW e \in S
    PROVE  /\ Append(s, e) \in Seq(S)
           /\ Range(Append(s, e)) = Range(s) \union {e}
<1>1. Append(s, e) \in Seq(S) /\ Len(Append(s, e)) = Len(s) + 1
  OBVIOUS
<1>2. \A i \in 1..Len(s) : Append(s, e)[i] = s[i]
  OBVIOUS
<1>3. Append(s, e)[Len(s) + 1] = e
  OBVIOUS
<1>4. Len(s) \in Nat /\ DOMAIN s = 1..Len(s) /\ DOMAIN Append(s, e) = 1..Len(s) + 1
  BY <1>1
<1> HIDE DEF Range
<1> QED
  BY <1>1, <1>2, <1>3, <1>4 DEF Range

LEMMA FlagStepInv ==
    RenderInv /\ getKubemarkExtendedResourcesFlag => RenderInv'
<1> SUFFICES ASSUME RenderInv, getKubemarkExtendedResourcesFlag PROVE RenderInv'
  OBVIOUS
<1>1. PodInv'
  BY PodKept DEF getKubemarkExtendedResourcesFlag
<1>2. SecretMade'
  BY DEF getKubemarkExtendedResourcesFlag, SecretMade, RenderInv
<1> DEFINE want == getKubemarkExtendedResources(input.options)
           S == {<<k, Encoded(want)[k]>> : k \in DOMAIN want}
           done == {e[1] : e \in Range(flag)}
<1>3. FlagInv'
  <2>1. PICK k \in todo : /\ flag' = Append(flag, <<k, Encoded(want)[k]>>)
                          /\ todo' = todo \ {k}
    BY DEF getKubemarkExtendedResourcesFlag
  <2>2. want' = want /\ S' = S
    BY DEF getKubemarkExtendedResourcesFlag
  <2>3. flag \in Seq(S) /\ DOMAIN want = todo \union done /\ k \in DOMAIN want
    BY DEF getKubemarkExtendedResourcesFlag, RenderInv, FlagInv
  <2> HIDE DEF want
  <2>4. <<k, Encoded(want)[k]>> \in S
    BY <2>3
  <2>5. flag' \in Seq(S) /\ Range(flag') = Range(flag) \union {<<k, Encoded(want)[k]>>}
    BY <2>1, <2>3, <2>4, RangeOfAppend
  <2>6. done' = done \union {k}
    <3>1. <<k, Encoded(want)[k]>>[1] = k
      OBVIOUS
    <3> QED
      BY <2>5, <3>1
  <2>7. DOMAIN want = todo' \union done'
    BY <2>1, <2>3, <2>6
  <2>8. step' = "flag" \/ (step' = "mounts" /\ todo' = {} /\ Supported(input.release))
    BY DEF getKubemarkExtendedResourcesFlag, RenderInv, FlagInv
  <2>9. input' = input /\ (step = "flag" => Supported(input.release)) /\ step = "flag"
    BY DEF getKubemarkExtendedResourcesFlag, RenderInv, FlagInv
  <2>10. /\ FlagInv' <=> LET w == want' IN
             /\ flag' \in Seq(S')
             /\ step' \in {"secret", "version"} => flag' = <<>>
             /\ step' = "flag" => Supported(input.release)' /\ DOMAIN w = todo' \union done'
             /\ step' \in {"mounts", "created", "refused"} =>
                  IF Supported(input.release)' THEN DOMAIN w \subseteq done' ELSE ~input'.options.set /\ flag' = <<>>
    BY DEF FlagInv, want
  <2>11. Supported(input.release)' = Supported(input.release)
    BY <2>9 DEF Supported
  <2> HIDE DEF S, done
  <2> QED
    BY <2>2, <2>5, <2>7, <2>8, <2>9, <2>10, <2>11
<1> QED
  BY <1>1, <1>2, <1>3 DEF getKubemarkExtendedResourcesFlag, RenderInv

LEMMA MountNextInv ==
    RenderInv /\ MountNext => RenderInv'
<1> SUFFICES ASSUME RenderInv, MountNext PROVE RenderInv'
  OBVIOUS
<1>1. PICK n \in 0..Len(input.extraMounts) : pod = PodWith(n)
  BY DEF RenderInv, PodInv
<1>2. Len(input.extraMounts) \in Nat /\ n \in Nat
  BY DEF RenderInv
<1>3. Len(pod.volumes) = n + 1
  BY <1>1, <1>2, PodParts
<1>4. n + 1 \in 0..Len(input.extraMounts) /\ pod' = PodWith(n + 1)
  <2>1. n + 1 \in 0..Len(input.extraMounts)
    BY <1>2, <1>3 DEF MountNext
  <2>2. pod' = Mounted(PodWith(n), input.extraMounts[n + 1])
    BY <1>1, <1>3 DEF MountNext
  <2>3. Mounted(PodWith(n), input.extraMounts[n + 1]) = PodWith(n + 1)
    BY <1>2, MountedPod
  <2> QED
    BY <2>1, <2>2, <2>3
<1>5. PodWith(n + 1)' = PodWith(n + 1)
  BY DEF MountNext, PodWith
<1>6. PodInv'
  BY <1>4, <1>5 DEF MountNext, PodInv
<1>7. SecretMade'
  BY DEF MountNext, SecretMade, RenderInv
<1>8. FlagInv'
  BY DEF MountNext, FlagInv, RenderInv
<1> QED
  BY <1>6, <1>7, <1>8 DEF MountNext, RenderInv

LEMMA CreatePodInv ==
    RenderInv /\ CreatePod => RenderInv'
<1> SUFFICES ASSUME RenderInv, CreatePod PROVE RenderInv'
  OBVIOUS
<1>1. PICK n \in 0..Len(input.extraMounts) : pod = PodWith(n)
  BY DEF RenderInv, PodInv
<1>2. Len(input.extraMounts) \in Nat /\ n \in Nat
  BY DEF RenderInv
<1>3. Len(pod.volumes) = n + 1
  BY <1>1, <1>2, PodParts
<1>4. n = Len(input.extraMounts)
  BY <1>2, <1>3 DEF CreatePod
<1>5. PodWith(n)' = PodWith(n)
  BY DEF CreatePod, PodWith
<1>6. PodInv'
  BY <1>1, <1>2, <1>4, <1>5 DEF CreatePod, PodInv
<1>7. SecretMade'
  BY DEF CreatePod, SecretMade, RenderInv, Accepted
<1>8. FlagInv'
  BY DEF CreatePod, FlagInv, RenderInv
<1> QED
  BY <1>6, <1>7, <1>8 DEF CreatePod, RenderInv
\* The inductive invariant of HollowNode: pod, secret and flag are always the
\* part of what the machine asks for that the reconcile has got to
\* (reconcileNormal, createPod).
THEOREM RenderInvariant ==
    Spec => []RenderInv
<1>1. RenderInv /\ [Next]_vars => RenderInv'
  <2>1. RenderInv /\ UNCHANGED vars => RenderInv'
    BY DEF vars, RenderInv, PodInv, PodWith, SecretMade, FlagInv, Accepted
  <2> QED
    BY <2>1, GenerateSecretInv, CheckVersionInv, FlagStepInv, MountNextInv, CreatePodInv DEF Next
<1> QED
  BY <1>1, RenderInit, PTL DEF Spec

\* In a created pod every position has a mount and a volume of one name, the
\* first is the controller's own, and the others are the machine's.
LEMMA CreatedPod ==
    ASSUME RenderInv, step = "created"
    PROVE  /\ Len(input.extraMounts) \in Nat
           /\ DOMAIN pod.mounts = 1..Len(input.extraMounts) + 1 /\ DOMAIN pod.volumes = DOMAIN pod.mounts
           /\ Accepted(pod)
           /\ pod.mounts[1].path = "/kubeconfig" /\ pod.volumes[1].source = "secret"
           /\ \A i \in DOMAIN input.extraMounts :
                /\ i + 1 \in DOMAIN pod.mounts /\ input.extraMounts[i] \in Mounts
                /\ pod.mounts[i + 1].path = input.extraMounts[i].containerPath
                /\ pod.volumes[i + 1].source = input.extraMounts[i].hostPath
           /\ \A j \in DOMAIN pod.mounts :
                /\ pod.mounts[j].name = pod.volumes[j].name
                /\ Clean[pod.mounts[j].path] \in Seq(FileNames)
                /\ j # 1 => \E i \in DOMAIN input.extraMounts : j = i + 1
<1> DEFINE n == Len(input.extraMounts)
<1>1. n \in Nat /\ DOMAIN input.extraMounts = 1..n
  BY DEF RenderInv
<1>2. pod = PodWith(n) /\ Accepted(pod)
  BY DEF RenderInv, PodInv, SecretMade
<1> HIDE DEF n
<1>3. /\ DOMAIN pod.mounts = 1..n + 1 /\ DOMAIN pod.volumes = 1..n + 1
      /\ pod.mounts[1] = [path |-> "/kubeconfig", name |-> "kubeconfig"]
      /\ pod.volumes[1] = SecretVolume
      /\ \A i \in 1..n :
           /\ pod.mounts[i + 1] = [path |-> input.extraMounts[i].containerPath,
                                   name |-> input.extraMounts[i].name]
           /\ pod.volumes[i + 1] = [name |-> input.extraMounts[i].name,
                                    source |-> input.extraMounts[i].hostPath]
  BY <1>1, <1>2, PodParts
<1>4. ASSUME NEW i \in 1..n
      PROVE  /\ pod.mounts[i + 1].path = input.extraMounts[i].containerPath
             /\ pod.mounts[i + 1].name = pod.volumes[i + 1].name
             /\ pod.volumes[i + 1].source = input.extraMounts[i].hostPath
             /\ input.extraMounts[i] \in Mounts
             /\ Clean[pod.mounts[i + 1].path] \in Seq(FileNames)
  <2> DEFINE mt == pod.mounts[i + 1]
             vol == pod.volumes[i + 1]
             e == input.extraMounts[i]
  <2>1. mt = [path |-> e.containerPath, name |-> e.name] /\ vol = [name |-> e.name, source |-> e.hostPath]
    BY <1>3
  <2>2. e \in Mounts
    BY <1>1 DEF RenderInv
  <2> HIDE DEF mt, vol, e
  <2>3. mt.path = e.containerPath /\ mt.name = vol.name /\ vol.source = e.hostPath
    BY <2>1
  <2>4. Clean[e.containerPath] \in Seq(FileNames)
    BY <2>2, RenderAssumption
  <2> QED
    BY <2>2, <2>3, <2>4 DEF mt, vol, e
<1>5. /\ pod.mounts[1].path = "/kubeconfig" /\ pod.mounts[1].name = pod.volumes[1].name
      /\ pod.volumes[1].source = "secret" /\ Clean[pod.mounts[1].path] \in Seq(FileNames)
  BY <1>3, RenderAssumption DEF SecretVolume
<1>6. ASSUME NEW j \in 1..n + 1, j # 1
      PROVE  \E i \in 1..n : j = i + 1
  <2>1. j - 1 \in 1..n /\ j = (j - 1) + 1
    BY <1>1, <1>6
  <2> QED
    BY <2>1
<1>7. ASSUME NEW j \in 1..n + 1
      PROVE  pod.mounts[j].name = pod.volumes[j].name /\ Clean[pod.mounts[j].path] \in Seq(FileNames)
  BY <1>4, <1>5, <1>6
<1>8. \A i \in 1..n : i + 1 \in 1..n + 1
  BY <1>1
<1>9. \A i \in DOMAIN input.extraMounts :
        /\ i + 1 \in DOMAIN pod.mounts /\ input.extraMounts[i] \in Mounts
        /\ pod.mounts[i + 1].path = input.extraMounts[i].containerPath
        /\ pod.volumes[i + 1].source = input.extraMounts[i].hostPath
  BY <1>1, <1>3, <1>4, <1>8
<1>10. \A j \in DOMAIN pod.mounts :
         /\ pod.mounts[j].name = pod.volumes[j].name
         /\ Clean[pod.mounts[j].path] \in Seq(FileNames)
         /\ j # 1 => \E i \in DOMAIN input.extraMounts : j = i + 1
  BY <1>1, <1>3, <1>6, <1>7
<1> QED
  BY <1>1, <1>2, <1>3, <1>5, <1>9, <1>10 DEF n

\* A file that no extra mount hides is served from the secret.
LEMMA SecretServed ==
    ASSUME RenderInv, step = "created",
           \A v \in Range(input.extraMounts) : ~Hides(v, PemFile)
    PROVE  Served(pod, FileAt(PemFile)) = {[source |-> "secret", place |-> <<"cert.pem">>]}
<1> DEFINE c == Clean["/kubeconfig"]
           d == FileAt(PemFile)
<1>1. c \in Seq(FileNames)
  BY RenderAssumption
<1>2. d = Append(c, "cert.pem")
  BY DEF FileAt, PemFile
<1>3. d \in Seq(FileNames) /\ Covers(c, d) /\ SubSeq(d, Len(c) + 1, Len(d)) = <<"cert.pem">>
  <2>1. "cert.pem" \in FileNames
    BY RenderAssumption
  <2> HIDE DEF c, d
  <2> QED
    BY <1>1, <1>2, <2>1, PlaceBelow
<1>4. ASSUME NEW j \in DOMAIN pod.mounts \ {1}, Covers(Clean[pod.mounts[j].path], d)
      PROVE  Len(Clean[pod.mounts[j].path]) < Len(c)
  <2>1. PICK i \in DOMAIN input.extraMounts : j = i + 1
    BY <1>4, CreatedPod
  <2> DEFINE v == input.extraMounts[i]
             e == Clean[v.containerPath]
  <2>2. pod.mounts[j].path = v.containerPath /\ e \in Seq(FileNames)
    BY <2>1, CreatedPod
  <2>3. v \in Range(input.extraMounts)
    BY DEF Range
  <2>4. ~Covers(c, e)
    BY <1>4, <2>2, <2>3 DEF Hides, PemFile
  <2> HIDE DEF c, d, e
  <2>5. ~(Len(c) <= Len(e))
    BY <1>1, <1>3, <1>4, <2>2, <2>4, CoversLine DEF e
  <2> QED
    BY <1>1, <2>2, <2>5 DEF e
<1>5. /\ 1 \in DOMAIN pod.mounts /\ Clean[pod.mounts[1].path] = c /\ pod.volumes[1].source = "secret"
      /\ DOMAIN pod.mounts = DOMAIN pod.volumes /\ Accepted(pod)
      /\ \A j \in DOMAIN pod.mounts : /\ pod.mounts[j].name = pod.volumes[j].name
                                      /\ Clean[pod.mounts[j].path] \in Seq(FileNames)
  BY CreatedPod
<1> HIDE DEF c, d
<1>6. Served(pod, d) = {[source |-> pod.volumes[1].source,
                         place  |-> SubSeq(d, Len(Clean[pod.mounts[1].path]) + 1, Len(d))]}
  BY <1>3, <1>4, <1>5, ServedAt
<1> QED
  BY <1>3, <1>5, <1>6 DEF d

\* A node that is started finds its credentials in its own secret, for any
\* number of extra mounts that do not hide them (createPod,
\* generateCertificateKubeconfig).
THEOREM CredentialsAreFound ==
    Spec => []FindsCredentials
<1>1. RenderInv => FindsCredentials
  <2> SUFFICES ASSUME RenderInv, step = "created"
               PROVE  FindsCredentials
    BY DEF FindsCredentials
  <2>1. kubeconfig = generateCertificateKubeconfig(input.remote, PemFile)
    BY DEF RenderInv, SecretMade
  <2>2. /\ kubeconfig.clientCertificate = PemFile /\ kubeconfig.clientKey = PemFile
        /\ kubeconfig.caData = IF input.remote.caFile = "" THEN input.remote.caData ELSE ""
    BY <2>1 DEF generateCertificateKubeconfig
  <2>3. PemFile.name = "cert.pem" /\ PemFile.name \in SecretKeys
    BY DEF PemFile, SecretKeys
  <2>4. (\A v \in Range(input.extraMounts) : ~Hides(v, PemFile)) =>
            /\ Served(pod, FileAt(PemFile)) = {[source |-> "secret", place |-> <<PemFile.name>>]}
            /\ PemFile.name \in SecretKeys
    BY <2>3, SecretServed
  <2> HIDE DEF PemFile
  <2> QED
    BY <2>2, <2>4 DEF FindsCredentials
<1> QED
  BY <1>1, RenderInvariant, PTL

\* An extra mount that has its place for itself is served from its host path.
LEMMA MountServed ==
    ASSUME RenderInv, step = "created", NEW v \in Range(input.extraMounts),
           \A mt \in Range(pod.mounts) :
               Clean[mt.path] = Clean[v.containerPath] => mt.path = v.containerPath
    PROVE  Served(pod, Clean[v.containerPath]) = {[source |-> v.hostPath, place |-> <<>>]}
<1> DEFINE d == Clean[v.containerPath]
<1>1. PICK i \in DOMAIN input.extraMounts : v = input.extraMounts[i]
  BY DEF Range
<1>2. /\ i + 1 \in DOMAIN pod.mounts /\ pod.mounts[i + 1].path = v.containerPath
      /\ pod.volumes[i + 1].source = v.hostPath
      /\ DOMAIN pod.mounts = DOMAIN pod.volumes /\ Accepted(pod)
      /\ \A j \in DOMAIN pod.mounts : /\ pod.mounts[j].name = pod.volumes[j].name
                                      /\ Clean[pod.mounts[j].path] \in Seq(FileNames)
  BY <1>1, CreatedPod
<1>3. d \in Seq(FileNames)
  <2>1. Clean[pod.mounts[i + 1].path] \in Seq(FileNames)
    BY <1>2
  <2> QED
    BY <1>2, <2>1
<1>4. ASSUME NEW j \in DOMAIN pod.mounts \ {i + 1}, Covers(Clean[pod.mounts[j].path], d)
      PROVE  Len(Clean[pod.mounts[j].path]) < Len(d)
  <2> DEFINE e == Clean[pod.mounts[j].path]
  <2>1. e \in Seq(FileNames) /\ pod.mounts[j] \in Range(pod.mounts)
    BY <1>2 DEF Range
  <2>2. e # d
    BY <1>2, <2>1 DEF Accepted
  <2> HIDE DEF d, e
  <2>3. Covers(e, d) /\ Covers(d, d)
    BY <1>3, <1>4, PlaceItself DEF e
  <2>4. Len(e) <= Len(d) /\ (Len(e) = Len(d) => e = d)
    BY <1>3, <2>1, <2>3, CoversLine DEF Covers
  <2>5. Len(e) < Len(d)
    BY <1>3, <2>1, <2>2, <2>4
  <2> QED
    BY <2>5 DEF e
<1>5. Covers(d, d) /\ SubSeq(d, Len(d) + 1, Len(d)) = <<>>
  BY <1>3, PlaceItself
<1>6. PICK k \in DOMAIN pod.mounts :
        /\ Clean[pod.mounts[k].path] = d /\ Covers(Clean[pod.mounts[k].path], d)
        /\ pod.volumes[k].source = v.hostPath
        /\ \A j \in DOMAIN pod.mounts \ {k} :
             Covers(Clean[pod.mounts[j].path], d) =>
                 Len(Clean[pod.mounts[j].path]) < Len(Clean[pod.mounts[k].path])
  BY <1>2, <1>4, <1>5
<1>7. /\ DOMAIN pod.mounts = DOMAIN pod.volumes /\ Accepted(pod)
      /\ \A j \in DOMAIN pod.mounts : /\ pod.mounts[j].name = pod.volumes[j].name
                                      /\ Clean[pod.mounts[j].path] \in Seq(FileNames)
      /\ Covers(Clean[pod.mounts[k].path], d)
      /\ \A j \in DOMAIN pod.mounts \ {k} :
             Covers(Clean[pod.mounts[j].path], d) =>
                 Len(Clean[pod.mounts[j].path]) < Len(Clean[pod.mounts[k].path])
  BY <1>2, <1>6
<1> HIDE DEF d
<1>8. Served(pod, d) = {[source |-> pod.volumes[k].source,
                         place  |-> SubSeq(d, Len(Clean[pod.mounts[k].path]) + 1, Len(d))]}
  BY <1>7, k \in DOMAIN pod.mounts, ServedAt
<1> QED
  BY <1>5, <1>6, <1>8 DEF d

\* Every extra mount of a started node that has its place for itself is served
\* from its host path, for any number of extra mounts (createPod).
THEOREM MountsAreServed ==
    Spec => []MountsServed
<1>1. RenderInv => MountsServed
  BY MountServed DEF MountsServed
<1> QED
  BY <1>1, RenderInvariant, PTL

\* A node is never started with another capacity than its machine asks for,
\* whatever the names and quantities of the resources and whatever the order
\* in which the flag is written (getKubemarkExtendedResourcesFlag).
THEOREM CapacityIsAdvertised ==
    Spec => []AdvertisesCapacity
<1>1. RenderInv => AdvertisesCapacity
  <2> SUFFICES ASSUME RenderInv, step = "created" PROVE AdvertisesCapacity
    BY DEF AdvertisesCapacity
  <2>4. /\ ~(Before122(input.release) \/ input.release.prerelease) => Supported(input.release)
        /\ Before122(input.release) => ~Supported(input.release)
    <3>1. input.release \in Releases
      BY DEF RenderInv
    <3>2. input.release.minor \in Nat
      BY <3>1, RenderAssumption
    <3> QED
      BY <3>2 DEF Before122, Supported
  <2> DEFINE want == getKubemarkExtendedResources(input.options)
             S == {<<k, Encoded(want)[k]>> : k \in DOMAIN want}
  <2>1. /\ flag \in Seq(S)
        /\ IF Supported(input.release) THEN DOMAIN want \subseteq {e[1] : e \in Range(flag)}
                                       ELSE ~input.options.set /\ flag = <<>>
    BY DEF RenderInv, FlagInv
  <2>2. CASE ~Supported(input.release)
    <3>1. ~input.options.set /\ input.options \in OptionValues /\ flag = <<>>
      BY <2>1, <2>2 DEF RenderInv
    <3>2. input.options.list = EmptyList
      BY <3>1 DEF OptionValues
    <3>3. DOMAIN input.options.list = {}
      BY <3>2 DEF EmptyList
    <3> QED
      BY <2>2, <2>4, <3>1, <3>3 DEF AdvertisesCapacity
  <2>3. CASE Supported(input.release)
    <3>1. /\ DOMAIN want = {"cpu", "memory"} \union DOMAIN input.options.list
          /\ \A k \in DOMAIN input.options.list : want[k] = input.options.list[k]
      BY DEF getKubemarkExtendedResources, Overlay, Defaults
    <3> HIDE DEF want
    <3>2. DOMAIN want \subseteq DOMAIN Advertised
      BY <2>1, <2>3 DEF Advertised
    <3>3. \A e \in Range(flag) : e[1] \in DOMAIN want /\ e[2] = Canonical[want[e[1]]]
      <4>1. Range(flag) \subseteq S
        BY <2>1 DEF Range
      <4>2. \A k \in DOMAIN want : Encoded(want)[k] = Canonical[want[k]]
        BY DEF Encoded
      <4> QED
        BY <4>1, <4>2
    <3>4. ASSUME NEW k \in DOMAIN want PROVE Advertised[k] = Canonical[want[k]]
      <4>1. \E e \in Range(flag) : e[1] = k
        BY <2>1, <2>3
      <4>2. LET c == CHOOSE e \in Range(flag) : e[1] = k IN c \in Range(flag) /\ c[1] = k
        BY <4>1
      <4>3. Advertised[k] = (CHOOSE e \in Range(flag) : e[1] = k)[2]
        BY <4>1 DEF Advertised
      <4> QED
        BY <4>2, <4>3, <3>3
    <3> QED
      BY <2>3, <2>4, <3>1, <3>2, <3>4 DEF AdvertisesCapacity
  <2> QED
    BY <2>2, <2>3
<1> QED
  BY <1>1, RenderInvariant, PTL
=============================================================================
