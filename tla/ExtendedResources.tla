-------------------------- MODULE ExtendedResources --------------------------
(***************************************************************************)
(* The extended resources of a hollow node (controllers/util.go): a map    *)
(* from resource names to quantities.  A Go map is a function on the set   *)
(* of its keys; nil and the empty map are told apart.                      *)
(***************************************************************************)

CONSTANTS ResourceNames,       \* names of resources, "cpu" and "memory" among them
          Quantities,          \* quantities
          DefaultCPUResource,  \* the quantity "1"
          DefaultMemResource,  \* the quantity "4G"
          Canonical            \* the text a quantity is written as: 4000M gives 4G

ASSUME ResourceAssumption ==
    /\ {"cpu", "memory"} \subseteq ResourceNames
    /\ {DefaultCPUResource, DefaultMemResource} \subseteq Quantities
    /\ Canonical \in [Quantities -> Quantities]
    /\ \A q \in Quantities : Canonical[Canonical[q]] = Canonical[q]

\* All maps; the empty one is the function on {}.
ResourceLists == UNION {[N -> Quantities] : N \in SUBSET ResourceNames}

EmptyList == [k \in {} |-> DefaultCPUResource]

\* KubemarkOptions.ExtendedResources: nil, or a map.
OptionValues == [set : {FALSE}, list : {EmptyList}] \union [set : {TRUE}, list : ResourceLists]

Unset == [set |-> FALSE, list |-> EmptyList]

\* Variant with a defect: a misspelt resource name.
DefaultsMisspelt == [k \in {"cpu", "mem"} |->
                        IF k = "cpu" THEN DefaultCPUResource ELSE DefaultMemResource]

Defaults == [k \in {"cpu", "memory"} |->
                IF k = "cpu" THEN DefaultCPUResource ELSE DefaultMemResource]

\* The map c with the entries of d put over it.
Overlay(c, d) == [k \in DOMAIN c \union DOMAIN d |-> IF k \in DOMAIN d THEN d[k] ELSE c[k]]

\* Variant with a defect: the defaults are only used when nothing is given.
ExtendedResourcesAsGiven(options) ==
    IF options.list = EmptyList THEN Defaults ELSE options.list

\* A map as it is written to JSON or to a command line.
Encoded(list) == [k \in DOMAIN list |-> Canonical[list[k]]]

getKubemarkExtendedResources(options) == Overlay(Defaults, options.list)
=============================================================================
