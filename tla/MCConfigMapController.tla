------------------------ MODULE MCConfigMapController ------------------------
(* Instances of ConfigMapController for TLC. *)
EXTENDS ConfigMapController

(* The post-processors of cmd/main.go with and without Dependency Track. *)
CoreOnly    == <<"core">>
DefaultOnly == <<"default">>
CoreAndDT   == <<"core", "default">>
AllThree    == <<"core", "default", "custom">>
NobodyFilters == [p \in Processors |-> FALSE]
AllFilter     == [p \in Processors |-> TRUE]

Sbom == [override |-> "none", insightsLabel |-> "sbom-gz", coreEnabled |-> TRUE,
         endpoint |-> TRUE, prod |-> TRUE]
Inspect == [Sbom EXCEPT !.insightsLabel = "image-gz"]
Unknown == [Sbom EXCEPT !.insightsLabel = "other"]

OneSbom    == {Sbom}
(* The first panics without a parent template. *)
Neighbours == {Sbom, Unknown, [Sbom EXCEPT !.prod = FALSE]}
EveryKind  == {Sbom, [Sbom EXCEPT !.prod = FALSE, !.coreEnabled = FALSE],
               [Sbom EXCEPT !.endpoint = FALSE], Inspect, Unknown,
               [Unknown EXCEPT !.override = "inspect"],
               [Sbom EXCEPT !.override = "other"]}
=============================================================================
