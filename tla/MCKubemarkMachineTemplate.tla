---------------------- MODULE MCKubemarkMachineTemplate ----------------------
(***************************************************************************)
(* Small instances of KubemarkMachineTemplate for TLC.                     *)
(***************************************************************************)
EXTENDS KubemarkMachineTemplate, TLC

Given(list) == [set |-> TRUE, list |-> list]

MCCanonical == [q \in Quantities |-> IF q = "4000M" THEN "4G" ELSE q]

\* Nothing but the defaults, a third resource, the same with the default
\* memory spelt out in another unit, and another quantity of the third.
SetValues == {Given(EmptyList), Given("gpu" :> "2"),
              Given(("gpu" :> "2") @@ ("memory" :> "4000M")), Given("gpu" :> "1")}

\* Options may also be absent, and be taken away again.
AnyValues == {Unset, Given("gpu" :> "2")}
=============================================================================
