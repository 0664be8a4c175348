-------------------------- MODULE MCKubemarkMachine --------------------------
(***************************************************************************)
(* Small instances of KubemarkMachine for TLC: one machine, the management *)
(* cluster and one external cluster for hollow pods.                       *)
(***************************************************************************)
EXTENDS KubemarkMachine, TLC

CONSTANTS m1, mgmt, external, team, other, padded, alpha

\* padded is the namespace `other` with white space around it.
MCTrimSpace == (padded :> other) @@ (other :> other)

\* Contents of the hollow-pod cluster Secret.
Readable(c, ns) == [ref |-> TRUE, found |-> TRUE, kubeconfig |-> c, namespace |-> ns]
Missing == [Readable("absent", "absent") EXCEPT !.found = FALSE]
NoRef == [Missing EXCEPT !.ref = FALSE]

\* One machine with a secret reference: the secret may vanish, or get a
\* kubeconfig that cannot be parsed, and be restored.
OneName == m1 :> alpha
OneNamespace == m1 :> team
OneHome == m1 :> <<external, other>>
VanishingHollow == {Readable(external, padded), Missing}
BrokenHollow == {Readable(external, padded), Readable("malformed", padded)}
FixedHollow == {Readable(external, padded)}

\* The secret may also come to name another namespace of the cluster.
MovingHollow == VanishingHollow \union {Readable(external, "absent")}

\* A machine without a reference: its pod is in the management cluster, in the
\* namespace of the machine.
ManagementHome == m1 :> <<mgmt, team>>
ManagementHollow == {NoRef}
=============================================================================
