----------------------- MODULE DependencyTrackProjects -----------------------
(***************************************************************************)
(* How an SBOM gets its place in Dependency Track.  postProcess walks down *)
(* the parent projects that the templates name, making the ones that are   *)
(* missing, uploads the SBOM under the last of them and waits until        *)
(* Dependency Track has processed it.  Every call to the server is a step  *)
(* of its own: several workers, and the default and the custom             *)
(* post-processor, do this against the same server, and each only acts on  *)
(* what it read before.                                                    *)
(*                                                                         *)
(* A push that fails is tried again by the ConfigMap reconciler, which     *)
(* ConfigMapController models; here it is simply started again.            *)
(***************************************************************************)
EXTENDS Naturals, Sequences, SequencesExt

CONSTANTS
  Worker,            \* workers of the ConfigMap controller
  SBOM,              \* the messages to be pushed
  Message,           \* [SBOM -> what is in it]
  Templates,         \* the configurations the process may be started with
  PushProdOnly,      \* the effective push-prod-only
  RefusesDuplicates, \* the server refuses a second project of a name
  MaxFaults          \* bound: failing calls, timeouts and crashes

VARIABLES
  templates,         \* the configuration
  projects,          \* the server's projects; the UUID of one is its index
  boms,              \* SBOMs taken by the server, with the project each landed in
  job,               \* [Worker -> the postProcess call in progress]
  done,              \* SBOMs for which postProcess has returned no error
  faults             \* faults so far

vars == <<templates, projects, boms, job, done, faults>>

-----------------------------------------------------------------------------
(* Names are sequences of words, read with hyphens between them, and a     *)
(* template is a sequence of variables, so that rendering one joins the    *)
(* values: the words of two values and of one longer value look the same.  *)
Variable == {"ProjectName", "EnvironmentName", "ServiceName"}

ASSUME PushAssumption ==
  /\ SBOM # {}
  /\ \A m \in SBOM :
       /\ Message[m].labelled \in BOOLEAN /\ Message[m].prod \in BOOLEAN /\ Message[m].gzip \in BOOLEAN
  /\ \A t \in Templates : \A level \in {"root", "parent", "project"} : t[level] \in Seq(Variable)
  /\ PushProdOnly \in BOOLEAN /\ RefusesDuplicates \in BOOLEAN /\ MaxFaults \in Nat

(* Without a template for the parent there is no root either. *)
newTemplate(t) ==
  IF t.parent = <<>> THEN <<>>
  ELSE IF t.root = <<>> THEN <<t.parent>>
       ELSE <<t.root, t.parent>>

processTemplate(template, m) ==
  FlattenSeq([i \in DOMAIN template |-> Message[m].values[template[i]]])

getWriteInfo ==
  [t \in Templates |-> [m \in SBOM |->
    [parents |-> [k \in DOMAIN newTemplate(t) |-> processTemplate(newTemplate(t)[k], m)],
     project |-> processTemplate(t.project, m)]]]

ParentProjectNames(m) == getWriteInfo[templates][m].parents
ProjectName(m) == getWriteInfo[templates][m].project

Filtered(m) == PushProdOnly /\ ~Message[m].prod
Pushed(m) == Message[m].labelled /\ ~Filtered(m)

NoParent == 0
Project(name, parent, leaf) == [name |-> name, parent |-> parent, leaf |-> leaf]

(* path holds the projects found or made so far, the root first: only the  *)
(* last one is the code's project.                                         *)
Idle == [at |-> "idle", sbom |-> CHOOSE m \in SBOM : TRUE, path |-> <<>>, found |-> {}]
Busy(w) == job[w].at # "idle"

ParentRef(path) == IF path = <<>> THEN NoParent ELSE path[Len(path)]

-----------------------------------------------------------------------------
Init ==
  /\ templates \in Templates
  /\ projects = <<>>
  /\ boms = {}
  /\ job = [w \in Worker |-> Idle]
  /\ done = {}
  /\ faults = 0

Fault == faults < MaxFaults /\ faults' = faults + 1

Succeeds(w) ==
  /\ job' = [job EXCEPT ![w] = Idle]
  /\ done' = done \cup {job[w].sbom}

(* Mutant of Fails: the error is logged, and nil returned. *)
Fails_Swallowed(w) == Succeeds(w)

Fails(w) ==
  /\ job' = [job EXCEPT ![w] = Idle]
  /\ UNCHANGED done

Goto(w, at, path, found) ==
  job' = [job EXCEPT ![w] = [at |-> at, sbom |-> job[w].sbom, path |-> path, found |-> found]]

(* The loop over the parent projects goes on to the next, or is through. *)
Continue(w, path) ==
  Goto(w, IF Len(path) < Len(ParentProjectNames(job[w].sbom)) THEN "find" ELSE "upload", path, {})

Started(m) ==
  [at |-> IF ParentProjectNames(m) = <<>> THEN "upload" ELSE "find",
   sbom |-> m, path |-> <<>>, found |-> {}]

(* Mutant of PostProcess: the filter is asked after the loop over the      *)
(* parent projects, that is, too late.                                     *)
PostProcess_FilterLast(w, m) ==
  /\ ~Busy(w)
  /\ m \notin done
  /\ \A v \in Worker : Busy(v) => job[v].sbom # m
  /\ Message[m].labelled
  /\ job' = [job EXCEPT ![w] = Started(m)]
  /\ UNCHANGED <<templates, projects, boms, done, faults>>

(* The start of postProcess, up to the loop.  A message without its labels *)
(* is an error and so stays where it is.                                   *)
PostProcess(w, m) ==
  /\ ~Busy(w)
  /\ m \notin done
  /\ \A v \in Worker : Busy(v) => job[v].sbom # m
  /\ \/ /\ Pushed(m)
        /\ job' = [job EXCEPT ![w] = Started(m)]
        /\ UNCHANGED done
     \/ /\ Message[m].labelled /\ Filtered(m)
        /\ done' = done \cup {m}
        /\ UNCHANGED job
  /\ UNCHANGED <<templates, projects, boms, faults>>

(* The name getOrCreateProject is called with. *)
NameSought(w) == ParentProjectNames(job[w].sbom)[Len(job[w].path) + 1]

(* GetProjectsForName: projects of the name at any level.  With no parent  *)
(* to check, the first of the list is taken.                               *)
FindProjects(w) ==
  LET found == {p \in DOMAIN projects : projects[p].name = NameSought(w)}
  IN  /\ job[w].at = "find"
      /\ \/ /\ found = {}
            /\ Goto(w, "create", job[w].path, {})
         \/ /\ found # {} /\ job[w].path # <<>>
            /\ Goto(w, "check", job[w].path, found)
         \/ /\ job[w].path = <<>>
            /\ \E p \in found : Continue(w, <<p>>)
      /\ UNCHANGED <<templates, projects, boms, done, faults>>

(* Mutant of HasParent: any project of the name will do. *)
HasParent_Any(p, path) == TRUE

HasParent(p, path) == projects[p].parent = ParentRef(path)

(* Get of one project after the other, until one is under the parent: when *)
(* none is, postProcess returns an error and makes none.                   *)
CheckParent(w) ==
  /\ job[w].at = "check"
  /\ \E p \in job[w].found :
       \/ /\ HasParent(p, job[w].path)
          /\ Continue(w, Append(job[w].path, p))
          /\ UNCHANGED done
       \/ /\ ~HasParent(p, job[w].path)
          /\ IF job[w].found = {p}
             THEN Fails(w)
             ELSE Goto(w, "check", job[w].path, job[w].found \ {p}) /\ UNCHANGED done
  /\ UNCHANGED <<templates, projects, boms, faults>>

(* Mutant of Made: the project is made without its ParentRef. *)
Made_AtTop(w) == Project(NameSought(w), NoParent, FALSE)

Made(w) == Project(NameSought(w), ParentRef(job[w].path), FALSE)

Refused(name) ==
  RefusesDuplicates /\ \E p \in DOMAIN projects : projects[p].name = name /\ ~projects[p].leaf

(* Mutant of Created: the result lands in a shadowed variable. *)
Created_Shadowed == NoParent

Created == Len(projects) + 1

(* Create, some time after the list that had no such project.  The call    *)
(* may fail after the server has made it.                                  *)
CreateProject(w) ==
  /\ job[w].at = "create"
  /\ \/ /\ Refused(NameSought(w))
        /\ Fails(w)
        /\ UNCHANGED <<projects, faults>>
     \/ /\ ~Refused(NameSought(w))
        /\ projects' = Append(projects, Made(w))
        /\ \/ /\ Continue(w, Append(job[w].path, Created))
              /\ UNCHANGED <<done, faults>>
           \/ Fault /\ Fails(w)
  /\ UNCHANGED <<templates, boms>>

(* The project an SBOM lands in is the one of its name, wherever that is.  *)
(* The ParentUUID of the request is heeded only when the server has none   *)
(* yet and makes it.                                                       *)
AutoCreated(w, leaf) ==
  LET name == ProjectName(job[w].sbom)
      found == {p \in DOMAIN projects : projects[p].name = name /\ projects[p].leaf}
  IN  \/ leaf \in found /\ UNCHANGED projects
      \/ /\ found = {} /\ leaf = Len(projects) + 1
         /\ projects' = Append(projects, Project(name, ParentRef(job[w].path), TRUE))

(* Unzip and Upload.  The call may fail after the server has taken it.     *)
Upload(w) ==
  LET j == job[w]
  IN  /\ j.at = "upload"
      /\ \/ /\ ~Message[j.sbom].gzip
            /\ Fails(w)
            /\ UNCHANGED <<projects, boms, faults>>
         \/ /\ Message[j.sbom].gzip /\ j.path # <<>>
            /\ \E leaf \in 1 .. Len(projects) + 1 :
                 AutoCreated(w, leaf) /\ boms' = boms \cup {<<j.sbom, leaf>>}
            /\ \/ /\ Goto(w, "poll", j.path, {})
                  /\ UNCHANGED <<done, faults>>
               \/ Fault /\ Fails(w)
      /\ UNCHANGED templates

(* Without parent projects there is no UUID to take the address of: the    *)
(* panic leaves the reconcile, and no outcome is recorded.                 *)
PanicOnUpload(w) ==
  /\ job[w].at = "upload"
  /\ Message[job[w].sbom].gzip /\ job[w].path = <<>>
  /\ Fails(w)
  /\ UNCHANGED <<templates, projects, boms, faults>>

(* The ticker asks until the server is through with the SBOM. *)
Processed(w) ==
  /\ job[w].at = "poll"
  /\ Succeeds(w)
  /\ UNCHANGED <<templates, projects, boms, faults>>

(* Any call fails without effect; the upload is not processed within five  *)
(* minutes.                                                                *)
CallFails(w) ==
  /\ Busy(w)
  /\ Fault
  /\ Fails(w)
  /\ UNCHANGED <<templates, projects, boms>>

Crash ==
  /\ \E w \in Worker : Busy(w)
  /\ Fault
  /\ job' = [w \in Worker |-> Idle]
  /\ UNCHANGED <<templates, projects, boms, done>>

Next ==
  \/ \E w \in Worker :
       \/ \E m \in SBOM : PostProcess(w, m)
       \/ FindProjects(w) \/ CheckParent(w) \/ CreateProject(w)
       \/ Upload(w) \/ PanicOnUpload(w) \/ Processed(w) \/ CallFails(w)
  \/ Crash

Spec == Init /\ [][Next]_vars

(* A call returns sooner or later, by itself or by the five minutes; the   *)
(* work queue comes back to every message that is retried, in no           *)
(* particular order.                                                       *)
Fairness ==
  /\ \A w \in Worker :
       WF_vars(FindProjects(w) \/ CheckParent(w) \/ CreateProject(w)
                 \/ Upload(w) \/ PanicOnUpload(w) \/ Processed(w))
  /\ \A m \in SBOM : SF_vars(\E w \in Worker : PostProcess(w, m))

FairSpec == Spec /\ Fairness

-----------------------------------------------------------------------------
(* Properties.                                                             *)

Name == UNION {{ParentProjectNames(m)[k] : k \in DOMAIN ParentProjectNames(m)}
                 \cup {ProjectName(m)} : m \in SBOM}

TypeOK ==
  /\ templates \in Templates
  /\ projects \in Seq([name : Name, parent : Nat, leaf : BOOLEAN])
  /\ boms \subseteq SBOM \X Nat
  /\ job \in [Worker -> [at : {"idle", "find", "check", "create", "upload", "poll"},
                         sbom : SBOM, path : Seq(DOMAIN projects),
                         found : SUBSET DOMAIN projects]]
  /\ done \subseteq SBOM
  /\ faults \in Nat

(* path leads down from the top as the templates say for m: the first      *)
(* project has no parent, and each is a child of the one before.           *)
LeadsDown(m, path) ==
  \A k \in DOMAIN path :
    /\ path[k] \in DOMAIN projects
    /\ k \in DOMAIN ParentProjectNames(m)
    /\ projects[path[k]].name = ParentProjectNames(m)[k]
    /\ projects[path[k]].parent = IF k = 1 THEN NoParent ELSE path[k - 1]

(* No message to be pushed gives the name of m's root to anything but a    *)
(* root.                                                                   *)
RootOwn(m) ==
  \A n \in SBOM : Pushed(n) =>
    /\ ProjectName(n) # ParentProjectNames(m)[1]
    /\ \A l \in DOMAIN ParentProjectNames(n) :
         ParentProjectNames(n)[l] = ParentProjectNames(m)[1] => l = 1

(* No message that can be uploaded has m's project name and other parents. *)
LeafOwn(m) ==
  \A n \in SBOM : Pushed(n) /\ Message[n].gzip /\ ProjectName(n) = ProjectName(m) =>
    ParentProjectNames(n) = ParentProjectNames(m)

(* Every SBOM lands in a project of its own name, under the chain of       *)
(* parent projects, from the top, that its names give: however the calls   *)
(* of several workers interleave, and also when parents further down have  *)
(* the names of others.  It does need a root that nothing but roots are    *)
(* called like, and a project name that nothing elsewhere has: with no     *)
(* parent to check getOrCreateProject takes any project of the name, and   *)
(* the server puts the SBOM into the project of its name wherever it is.   *)
UploadedUnderItsParents ==
  \A b \in boms : RootOwn(b[1]) /\ LeafOwn(b[1]) =>
    /\ projects[b[2]].name = ProjectName(b[1]) /\ projects[b[2]].leaf
    /\ \E path \in [DOMAIN ParentProjectNames(b[1]) -> DOMAIN projects] :
         LeadsDown(b[1], path) /\ projects[b[2]].parent = ParentRef(path)

(* Nothing is made in Dependency Track for an environment whose SBOMs are  *)
(* filtered or cannot be placed: every project is one that a message to be *)
(* pushed names.                                                           *)
ProjectsAreAskedFor ==
  \A p \in DOMAIN projects :
    \E m \in SBOM :
      /\ Pushed(m)
      /\ \/ \E k \in DOMAIN ParentProjectNames(m) :
              /\ projects[p].name = ParentProjectNames(m)[k]
              /\ ~projects[p].leaf
         \/ projects[p].name = ProjectName(m) /\ projects[p].leaf /\ Message[m].gzip

(* A push that reports success, after which the ConfigMap is marked and    *)
(* not pushed again, has been filtered or has been taken by the server:    *)
(* what ConfigMapController counts on in Outcomes.                         *)
SuccessMeansUploaded ==
  \A m \in SBOM : m \in done =>
    Filtered(m) \/ \E b \in boms : b[1] = m

(* The messages that no filter and no defect of their own stops, and among *)
(* them those that the configuration has a parent project for.             *)
Sound == {m \in SBOM : Message[m].labelled /\ (Filtered(m) \/ Message[m].gzip)}
Placeable(m) == m \in Sound /\ (Filtered(m) \/ ParentProjectNames(m) # <<>>)

(* No message to be pushed gives a name of m's another place. *)
OwnNames(m) ==
  \A n \in SBOM, k \in DOMAIN ParentProjectNames(m) :
    Pushed(n) =>
      /\ ProjectName(n) # ParentProjectNames(m)[k]
      /\ \A l \in DOMAIN ParentProjectNames(n) :
           ParentProjectNames(n)[l] = ParentProjectNames(m)[k] =>
             \A i \in 1 .. k : l = k /\ ParentProjectNames(n)[i] = ParentProjectNames(m)[i]

(* A message whose parent projects are not named like others' never meets  *)
(* the error "parent project not found": whatever other workers have made  *)
(* meanwhile, the projects found under its names are where it expects them. *)
OwnNamesArePlaced ==
  RefusesDuplicates =>
    \A w \in Worker : job[w].at = "check" /\ OwnNames(job[w].sbom) =>
      /\ job[w].found # {}
      /\ \A p \in job[w].found : projects[p].parent = ParentRef(job[w].path)

(* A message whose parent projects are not named like others' is pushed in *)
(* the end, whoever else makes the same projects at the same time, and     *)
(* although pushes that can never succeed keep coming back.                *)
EventuallyPushed ==
  \A m \in Sound : Placeable(m) /\ OwnNames(m) ~> m \in done

(* So is every message that can be placed: "This will get or create a      *)
(* project in DependencyTrack".                                            *)
EveryPushEnds ==
  \A m \in SBOM : Placeable(m) ~> m \in done
=============================================================================
