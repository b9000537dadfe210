---------------------- MODULE MCDependencyTrackProjects ----------------------
(* Instances of DependencyTrackProjects for TLC. *)
EXTENDS DependencyTrackProjects

CONSTANTS shop, dev, eu, blog, draft

Prod(project, environment) ==
  [values |-> [ProjectName |-> project, EnvironmentName |-> environment, ServiceName |-> <<"nginx">>],
   labelled |-> TRUE, prod |-> TRUE, gzip |-> TRUE]

(* The second environment, dev of project shop, is called shop-dev by the  *)
(* default templates, and so is the project of the third.                  *)
Environments ==
  [m \in SBOM |->
     CASE m = shop  -> Prod(<<"shop">>, <<"main">>)
       [] m = dev   -> Prod(<<"shop">>, <<"dev">>)
       [] m = eu    -> [Prod(<<"shop", "dev">>, <<"eu">>) EXCEPT !.gzip = FALSE]
       [] m = blog  -> [Prod(<<"blog">>, <<"main">>) EXCEPT !.prod = FALSE]
       [] m = draft -> [Prod(<<"draft">>, <<"main">>) EXCEPT !.labelled = FALSE]]

LookAlikes == [Environments EXCEPT ![eu].gzip = TRUE]

(* The defaults of cmd/main.go, and none for the parent projects. *)
Default == [root    |-> <<"ProjectName">>,
            parent  |-> <<"ProjectName", "EnvironmentName">>,
            project |-> <<"ProjectName", "EnvironmentName", "ServiceName">>]
NoParents == [Default EXCEPT !.parent = <<>>]

DefaultOnly  == {Default}
WithAndWithout == {Default, NoParents}
=============================================================================
