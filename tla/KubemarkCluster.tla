--------------------------- MODULE KubemarkCluster ---------------------------
(***************************************************************************)
(* Where the hollow-node pods of a KubemarkMachine live.  A machine either *)
(* has no KubemarkHollowPodClusterSecretRef, and then its pod and secret   *)
(* are created in the management cluster, in the machine's own namespace;  *)
(* or the reference names a Secret holding the kubeconfig of another       *)
(* cluster and, optionally, a namespace of it.  The Secret is read again   *)
(* on every reconcile (controllers/kubemarkcluster.go).                    *)
(***************************************************************************)

CONSTANTS Clusters,           \* clusters that can host hollow pods
          Namespaces,         \* namespaces in those clusters
          RawNamespaces,      \* byte strings a secret may hold under "namespace"
          TrimSpace,          \* strings.TrimSpace on them
          ManagementCluster,  \* the cluster the manager's own client talks to
          DefaultNamespace    \* the namespace named "default"

ASSUME ClusterAssumption ==
    /\ ManagementCluster \in Clusters
    /\ DefaultNamespace \in Namespaces
    /\ TrimSpace \in [RawNamespaces -> Namespaces]

\* A client and a namespace: what GenerateKubemarkClusterClient hands back.
Hosts == Clusters \X Namespaces

\* No client: GenerateKubemarkClusterClient returned an error.
NoHost == <<>>

(***************************************************************************)
(* The reference of a machine together with what it points at.  ref is     *)
(* FALSE for a nil KubemarkHollowPodClusterSecretRef; found tells whether  *)
(* the Secret exists; "absent" stands for a missing key, "malformed" for   *)
(* bytes that are no kubeconfig.                                           *)
(***************************************************************************)
HollowRefs == [ref        : BOOLEAN,
               found      : BOOLEAN,
               kubeconfig : Clusters \union {"absent", "malformed"},
               namespace  : RawNamespaces \union {"absent"}]

GenerateKubemarkClusterClient(h, ownerNamespace) ==
    CASE ~h.ref                                      -> <<ManagementCluster, ownerNamespace>>
      [] h.ref /\ ~h.found                           -> NoHost
      [] h.ref /\ h.found /\ h.kubeconfig \notin Clusters -> NoHost
      [] OTHER -> <<h.kubeconfig,
                    IF h.namespace = "absent" THEN DefaultNamespace
                                              ELSE TrimSpace[h.namespace]>>
=============================================================================
