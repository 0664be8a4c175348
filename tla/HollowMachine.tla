---------------------------- MODULE HollowMachine ----------------------------
(***************************************************************************)
(* What the KubemarkMachine controller promises of a hollow machine, with  *)
(* no API server, cache, queue or retry in sight.  A machine is held while *)
(* its finalizer is set, doomed once it is also being deleted, and free    *)
(* otherwise.  A held machine gets its secret, then its pod; a doomed one  *)
(* loses its pod, then its secret, and only then becomes free.  A deletion *)
(* may overtake the creation: a doomed machine can still be equipped.      *)
(***************************************************************************)
CONSTANT Machines

VARIABLES life,    \* the phase of each machine
          secret,  \* the machines with a secret
          pod      \* the machines with a running pod

absVars == <<life, secret, pod>>

Init ==
    /\ life = [m \in Machines |-> "free"]
    /\ secret = {}
    /\ pod = {}

Becomes(m, phase) == life' = [life EXCEPT ![m] = phase]

Hold(m) == life[m] = "free" /\ Becomes(m, "held") /\ UNCHANGED <<secret, pod>>

Doom(m) == life[m] = "held" /\ Becomes(m, "doomed") /\ UNCHANGED <<secret, pod>>

Equip(m) ==
    /\ life[m] # "free"
    /\ secret' = secret \union {m}
    /\ UNCHANGED <<life, pod>>

Launch(m) ==
    /\ life[m] # "free" /\ m \in secret
    /\ pod' = pod \union {m}
    /\ UNCHANGED <<life, secret>>

Stop(m) ==
    /\ life[m] = "doomed"
    /\ pod' = pod \ {m}
    /\ UNCHANGED <<life, secret>>

Strip(m) ==
    /\ life[m] = "doomed" /\ m \notin pod
    /\ secret' = secret \ {m}
    /\ UNCHANGED <<life, pod>>

Release(m) ==
    /\ life[m] = "doomed" /\ m \notin pod \union secret
    /\ Becomes(m, "free")
    /\ UNCHANGED <<secret, pod>>

Next ==
    \E m \in Machines :
        Hold(m) \/ Doom(m) \/ Equip(m) \/ Launch(m) \/ Stop(m) \/ Strip(m) \/ Release(m)

Spec == Init /\ [][Next]_absVars
=============================================================================
