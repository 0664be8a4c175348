---------------------------- MODULE MCHollowNode -----------------------------
(***************************************************************************)
(* Small instances of HollowNode for TLC: up to two extra mounts, some of  *)
(* which collide with the controller's own volume or mount point, in the   *)
(* same or in another spelling, lie above or below it, or hide its files.  *)
(***************************************************************************)
EXTENDS HollowNode, TLC

MCReleases == [minor : {21, 22, 23}, prerelease : BOOLEAN]

Given(list) == [set |-> TRUE, list |-> list]

MCValues == {Unset, Given(EmptyList), Given("gpu" :> "2"),
             Given(("gpu" :> "2") @@ ("memory" :> "4000M"))}

MCCanonical == [q \in Quantities |-> IF q = "4000M" THEN "4G" ELSE q]

MCRemotes == {[caFile |-> "", caData |-> "ca"], [caFile |-> "/ca.crt", caData |-> ""]}

MCPaths == {"/", "/kubeconfig", "/kubeconfig/", "/kubeconfig/cert.pem", "/data", "/data/",
            "/data/logs", "/etc/kubeconfig"}

MCClean == [p \in MCPaths |->
    CASE p = "/" -> <<>>
      [] p \in {"/kubeconfig", "/kubeconfig/"} -> <<"kubeconfig">>
      [] p = "/kubeconfig/cert.pem" -> <<"kubeconfig", "cert.pem">>
      [] p \in {"/data", "/data/"} -> <<"data">>
      [] p = "/data/logs" -> <<"data", "logs">>
      [] p = "/etc/kubeconfig" -> <<"etc", "kubeconfig">>]

At(name, path) == [name |-> name, containerPath |-> path, hostPath |-> "/var/data"]

MCMounts == {At("kubeconfig", "/data"), At("data", "/kubeconfig"), At("data", "/kubeconfig/"),
             At("data", "/kubeconfig/cert.pem"), At("data", "/"), At("data", "/data"),
             At("more", "/data/"),
             [At("logs", "/data/logs") EXCEPT !.hostPath = "/var/log"]}
=============================================================================
