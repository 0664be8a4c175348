----------------------------- MODULE HollowNode ------------------------------
(***************************************************************************)
(* How one reconcile puts a hollow node together                           *)
(* (controllers/kubemarkmachine_controller.go): the kubeconfig and the     *)
(* certificate in its secret, the --extended-resources flag, and the pod   *)
(* with the extra mounts of the machine.  KubemarkMachine only knows that  *)
(* the secret and the pod exist; this module is about whether the node in  *)
(* the pod can find and read what was prepared for it.                     *)
(***************************************************************************)
EXTENDS Naturals, Sequences, Functions, ExtendedResources

CONSTANTS Releases,     \* Machine.spec.version: [minor : Nat, prerelease : BOOLEAN]
          Values,       \* values of KubemarkOptions.ExtendedResources
          Remotes,      \* rest.Configs of the workload cluster: [caFile, caData]
          Paths,        \* spellings of absolute paths in the container
          FileNames,    \* names of files and directories
          Clean,        \* [Paths -> the names on the way to what the path denotes]
          Mounts,       \* extra mounts: [name, containerPath, hostPath]
          MaxMounts     \* bound: extra mounts of a machine

\* "/kubeconfig/" and "/kubeconfig" are spellings of one directory.
ASSUME RenderAssumption ==
    /\ Values \subseteq OptionValues
    /\ \A r \in Releases : r.minor \in Nat
    /\ Clean \in [Paths -> Seq(FileNames)]
    /\ "/kubeconfig" \in Paths /\ "cert.pem" \in FileNames
    /\ \A v \in Mounts : v.containerPath \in Paths
    /\ MaxMounts \in Nat

VARIABLES input,       \* what the reconcile starts from
          step,        \* the part that is put together next
          kubeconfig,  \* the "kubeconfig" entry of the secret
          flag,        \* the entries of --extended-resources; <<>>: no flag
          todo,        \* resources the flag does not have yet
          pod

vars == <<input, step, kubeconfig, flag, todo, pod>>

\* A file is a directory and a name in it; PemFile is where the kubelet looks
\* for its certificate and for its key.
PemFile == [dir |-> "/kubeconfig", name |-> "cert.pem"]
SecretKeys == {"kubeconfig", "cert.pem"}

\* The CA is copied, unless the config names a file with it.
generateCertificateKubeconfig(remote, pemFile) ==
    [caFile            |-> remote.caFile,
     caData            |-> IF remote.caFile = "" THEN remote.caData ELSE "",
     clientCertificate |-> pemFile,
     clientKey         |-> pemFile]

NoKubeconfig == [caFile |-> "", caData |-> "", clientCertificate |-> PemFile, clientKey |-> PemFile]

\* Volumes hold the secret of the machine or a directory of the host.
SecretVolume == [name |-> "kubeconfig", source |-> "secret"]

\* Variant with a defect: the volume is mounted elsewhere.
BarePodElsewhere == [mounts |-> <<[path |-> "/etc/kubeconfig", name |-> "kubeconfig"]>>,
                     volumes |-> <<SecretVolume>>]

BarePod == [mounts |-> <<[path |-> "/kubeconfig", name |-> "kubeconfig"]>>,
            volumes |-> <<SecretVolume>>]

Init ==
    /\ input \in [release : Releases, options : Values, remote : Remotes,
                  extraMounts : UNION {[1..n -> Mounts] : n \in 0..MaxMounts}]
    /\ step = "secret"
    /\ kubeconfig = NoKubeconfig
    /\ flag = <<>> /\ todo = {}
    /\ pod = BarePod

GenerateSecret ==
    /\ step = "secret"
    /\ kubeconfig' = generateCertificateKubeconfig(input.remote, PemFile)
    /\ step' = "version"
    /\ UNCHANGED <<input, flag, todo, pod>>

\* The constraint ">= 1.22.0"; a pre-release never satisfies it.
Supported(release) == release.minor >= 22 /\ ~release.prerelease

\* Variant with a defect: options an old version cannot honour are ignored.
CheckVersionLenient ==
    /\ step = "version"
    /\ IF Supported(input.release)
       THEN step' = "flag" /\ todo' = DOMAIN getKubemarkExtendedResources(input.options)
       ELSE step' = "mounts" /\ UNCHANGED todo
    /\ UNCHANGED <<input, kubeconfig, flag, pod>>

\* Only a supported version gets the flag; options that would need it are an
\* error on any other.
CheckVersion ==
    /\ step = "version"
    /\ \/ /\ Supported(input.release)
          /\ step' = "flag"
          /\ todo' = DOMAIN getKubemarkExtendedResources(input.options)
       \/ /\ ~Supported(input.release) /\ ~input.options.set
          /\ step' = "mounts" /\ UNCHANGED todo
       \/ /\ ~Supported(input.release) /\ input.options.set
          /\ step' = "failed" /\ UNCHANGED todo
    /\ UNCHANGED <<input, kubeconfig, flag, pod>>

\* The entries of the flag, in the order in which Go walks through the map:
\* any order.
getKubemarkExtendedResourcesFlag ==
    /\ step = "flag"
    /\ \E k \in todo :
         /\ flag' = Append(flag, <<k, Encoded(getKubemarkExtendedResources(input.options))[k]>>)
         /\ todo' = todo \ {k}
    /\ step' = IF todo' = {} THEN "mounts" ELSE step
    /\ UNCHANGED <<input, kubeconfig, pod>>

\* Variant with a defect: each mount is added to the container as it was
\* before the loop.
MountedOnce(p, v) ==
    [p EXCEPT !.mounts = Append(BarePod.mounts, [path |-> v.containerPath, name |-> v.name]),
              !.volumes = Append(@, [name |-> v.name, source |-> v.hostPath])]

Mounted(p, v) ==
    [p EXCEPT !.mounts = Append(@, [path |-> v.containerPath, name |-> v.name]),
              !.volumes = Append(@, [name |-> v.name, source |-> v.hostPath])]

\* The loop over ExtraMounts: one mount of the container and one volume each,
\* next to the volume of the secret.
MountNext ==
    /\ step = "mounts"
    /\ Len(pod.volumes) <= Len(input.extraMounts)
    /\ pod' = Mounted(pod, input.extraMounts[Len(pod.volumes)])
    /\ UNCHANGED <<input, step, kubeconfig, flag, todo>>

\* The API server takes a pod whose volumes and mount points are distinct; it
\* compares mount points as they are spelt.
Accepted(p) ==
    /\ \A i, j \in DOMAIN p.volumes : p.volumes[i].name = p.volumes[j].name => i = j
    /\ \A i, j \in DOMAIN p.mounts : p.mounts[i].path = p.mounts[j].path => i = j

CreatePod ==
    /\ step = "mounts"
    /\ Len(pod.volumes) > Len(input.extraMounts)
    /\ step' = IF Accepted(pod) THEN "created" ELSE "refused"
    /\ UNCHANGED <<input, kubeconfig, flag, todo, pod>>

Next ==
    \/ GenerateSecret \/ CheckVersion \/ getKubemarkExtendedResourcesFlag
    \/ MountNext \/ CreatePod

Spec == Init /\ [][Next]_vars

-----------------------------------------------------------------------------
\* The directory at c holds what is at d, at any depth, or is the same.
Covers(c, d) == Len(c) <= Len(d) /\ \A i \in 1..Len(c) : c[i] = d[i]

\* The mounts through which the container sees what is at d: the deepest ones
\* that cover it.
Serving(p, d) ==
    LET covering == {mt \in Range(p.mounts) : Covers(Clean[mt.path], d)}
    IN  {mt \in covering : \A o \in covering : Len(Clean[o.path]) <= Len(Clean[mt.path])}

\* What that is: a place in a volume.
Served(p, d) ==
    {[source |-> x[2].source, place |-> SubSeq(d, Len(Clean[x[1].path]) + 1, Len(d))] :
        x \in {y \in Serving(p, d) \X Range(p.volumes) : y[1].name = y[2].name}}

\* The place of a file, and the extra mounts that hide it: those that cover it
\* and are not above the directory it is in.
FileAt(f) == Append(Clean[f.dir], f.name)
Hides(v, f) == Covers(Clean[f.dir], Clean[v.containerPath]) /\ Covers(Clean[v.containerPath], FileAt(f))

\* What the kubemark process reads from its flag.
Advertised == [k \in {e[1] : e \in Range(flag)} |->
                  (CHOOSE e \in Range(flag) : e[1] = k)[2]]

\* A node that is started finds its credentials: following the path in its
\* kubeconfig through the mounts and volumes of the pod ends at an entry of
\* its own secret, whatever extra mounts were added, above it or elsewhere,
\* that do not take the place of /kubeconfig or of the file itself (neither the
\* code nor the API server refuses those, unless they are spelt the same); and
\* it has the CA of the cluster, unless the manager's config only names a file
\* (Reconcile, generateCertificateKubeconfig).
FindsCredentials ==
    step = "created" =>
        /\ \A f \in {kubeconfig.clientCertificate, kubeconfig.clientKey} :
             (\A v \in Range(input.extraMounts) : ~Hides(v, f)) =>
                 /\ Served(pod, FileAt(f)) = {[source |-> "secret", place |-> <<f.name>>]}
                 /\ f.name \in SecretKeys
        /\ input.remote.caFile = "" => kubeconfig.caData = input.remote.caData

\* Every extra mount of the machine, and not only the last, is served from
\* its host path, unless another mount takes the same place under another
\* spelling (the nested loop over ExtraMounts and containers).
MountsServed ==
    step = "created" =>
        \A v \in Range(input.extraMounts) :
            LET d == Clean[v.containerPath] IN
            (\A mt \in Range(pod.mounts) : Clean[mt.path] = d => mt.path = v.containerPath) =>
                Served(pod, d) = {[source |-> v.hostPath, place |-> <<>>]}

\* The order of versions: a pre-release comes before its release.
Before122(release) == release.minor < 22 \/ (release.minor = 22 /\ release.prerelease)

\* A node is never started with another capacity than its machine asks for,
\* nor with a flag that kubemark did not have before 1.22.0: every resource of
\* the options has its quantity in the flag whatever the version, and cpu and
\* memory are there by default from 1.22.0 on.  Pre-releases of later versions
\* are left out: without options they are started without the flag, although
\* "all nodes will report 1 CPU, and 4G memory" (README; the constraint,
\* getKubemarkExtendedResourcesFlag).
AdvertisesCapacity ==
    step = "created" =>
        /\ \A k \in DOMAIN input.options.list :
             k \in DOMAIN Advertised /\ Advertised[k] = Canonical[input.options.list[k]]
        /\ input.options.set \/ ~(Before122(input.release) \/ input.release.prerelease) =>
             {"cpu", "memory"} \subseteq DOMAIN Advertised
        /\ Before122(input.release) => flag = <<>>

-----------------------------------------------------------------------------
\* The pod with the first n extra mounts of the machine.
PodWith(n) ==
    [mounts  |-> [i \in 1..n + 1 |-> IF i = 1 THEN [path |-> "/kubeconfig", name |-> "kubeconfig"]
                                    ELSE [path |-> input.extraMounts[i - 1].containerPath,
                                          name |-> input.extraMounts[i - 1].name]],
     volumes |-> [i \in 1..n + 1 |-> IF i = 1 THEN SecretVolume
                                    ELSE [name   |-> input.extraMounts[i - 1].name,
                                          source |-> input.extraMounts[i - 1].hostPath]]]

\* The loop has added the extra mounts one after the other, and all of them
\* once the pod is sent.
PodInv ==
    \E n \in 0..Len(input.extraMounts) :
        /\ pod = PodWith(n)
        /\ step \in {"secret", "version", "flag"} => n = 0
        /\ step \in {"created", "refused"} => n = Len(input.extraMounts)

\* The secret is made first, and a pod that is created has passed the checks
\* of the API server.
SecretMade ==
    /\ step # "secret" => kubeconfig = generateCertificateKubeconfig(input.remote, PemFile)
    /\ step = "created" => Accepted(pod)

\* Between them the flag and what is left to do have every resource; what is
\* in the flag is written as it should be.
FlagInv ==
    LET want == getKubemarkExtendedResources(input.options)
    IN  /\ flag \in Seq({<<k, Encoded(want)[k]>> : k \in DOMAIN want})
        /\ step \in {"secret", "version"} => flag = <<>>
        /\ step = "flag" =>
             Supported(input.release) /\ DOMAIN want = todo \union {e[1] : e \in Range(flag)}
        /\ step \in {"mounts", "created", "refused"} =>
             IF Supported(input.release) THEN DOMAIN want \subseteq {e[1] : e \in Range(flag)}
                                         ELSE ~input.options.set /\ flag = <<>>

\* The inductive invariant behind the three properties: at every point of the
\* reconcile the pod, the secret and the flag are the prefix of what the
\* machine asks for that the code has got to.
RenderInv ==
    /\ input.release \in Releases /\ input.options \in OptionValues
    /\ input.extraMounts \in Seq(Mounts)
    /\ PodInv /\ SecretMade /\ FlagInv
=============================================================================
