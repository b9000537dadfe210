-------------------- MODULE DependencyTrackProjects_proofs --------------------
(***************************************************************************)
(* Theorems of DependencyTrackProjects for every set of workers and        *)
(* messages, all templates, and every number of faults.                    *)
(*                                                                         *)
(* Projects are only added and never moved, so what a push has found out   *)
(* about the way down stays true while others act: that is the inductive   *)
(* invariant, and nothing about the server's handling of duplicate names   *)
(* is needed for it.  Where the root lies a push never asks: that follows  *)
(* from who can have made a project of its name.  That a name no other     *)
(* push wants elsewhere is found where it belongs does need a server that  *)
(* refuses duplicates.                                                     *)
(***************************************************************************)
EXTENDS DependencyTrackProjects, TLAPS

-----------------------------------------------------------------------------
ProjectRecord == [name : Name, parent : Nat, leaf : BOOLEAN]
JobRecord == [at : {"idle", "find", "check", "create", "upload", "poll"},
              sbom : SBOM, path : Seq(DOMAIN projects), found : SUBSET DOMAIN projects]

(* path holds the projects of the names that the templates give m, each    *)
(* but the first a child of the one before: of the first a push does not   *)
(* know where it is.                                                       *)
Down(m, path) ==
  \A k \in DOMAIN path :
    /\ path[k] \in DOMAIN projects
    /\ k \in DOMAIN ParentProjectNames(m)
    /\ projects[path[k]].name = ParentProjectNames(m)[k]
    /\ k > 1 => projects[path[k]].parent = path[k - 1]

(* What a push in progress knows. *)
JobGood(w) ==
  LET j == job[w]
      m == job[w].sbom
  IN  /\ j.at # "idle" => Pushed(m) /\ Down(m, j.path)
      /\ j.at \in {"find", "check", "create"} => Len(j.path) < Len(ParentProjectNames(m))
      /\ j.at = "check" => \A p \in j.found : projects[p].name = NameSought(w)
      /\ j.at \in {"upload", "poll"} => Len(j.path) = Len(ParentProjectNames(m))
      /\ j.at = "poll" => \E b \in boms : b[1] = m

(* A project was made by a push: as one of the parents it names, the root  *)
(* at the top, or as its own, under the last of the parents it went down.  *)
WellMade(p) ==
  \E m \in SBOM :
    /\ Pushed(m)
    /\ \/ \E k \in DOMAIN ParentProjectNames(m) :
            /\ projects[p].name = ParentProjectNames(m)[k] /\ ~projects[p].leaf
            /\ k = 1 => projects[p].parent = NoParent
       \/ /\ projects[p].name = ProjectName(m) /\ projects[p].leaf /\ Message[m].gzip
          /\ \E path \in [DOMAIN ParentProjectNames(m) -> DOMAIN projects] :
               Down(m, path) /\ projects[p].parent = ParentRef(path)

(* An SBOM is in a project of its name. *)
Landed(b) ==
  /\ b[2] \in DOMAIN projects
  /\ projects[b[2]].name = ProjectName(b[1]) /\ projects[b[2]].leaf

(* The inductive invariant. *)
IInv ==
  /\ TypeOK
  /\ \A w \in Worker : JobGood(w)
  /\ \A p \in DOMAIN projects : WellMade(p)
  /\ \A b \in boms : Landed(b)
  /\ SuccessMeansUploaded

-----------------------------------------------------------------------------
(* The names.                                                              *)

LEMMA TemplatesOfParents ==
  ASSUME NEW t \in Templates
  PROVE  \E n \in Nat : DOMAIN newTemplate(t) = 1 .. n
<1>1. t.root \in Seq(Variable) /\ t.parent \in Seq(Variable)
  BY PushAssumption
<1>2. CASE t.parent = <<>>
  <2>1. newTemplate(t) = <<>>
    BY <1>2 DEF newTemplate
  <2>2. DOMAIN newTemplate(t) = 1 .. 0
    BY <2>1
  <2> QED
    BY <2>2
<1>3. CASE t.parent # <<>> /\ t.root = <<>>
  <2>1. newTemplate(t) = <<t.parent>>
    BY <1>3 DEF newTemplate
  <2>2. DOMAIN newTemplate(t) = 1 .. 1
    BY <2>1
  <2> QED
    BY <2>2
<1>4. CASE t.parent # <<>> /\ t.root # <<>>
  <2>1. newTemplate(t) = <<t.root, t.parent>>
    BY <1>4 DEF newTemplate
  <2>2. DOMAIN newTemplate(t) = 1 .. 2
    BY <2>1
  <2> QED
    BY <2>2
<1> QED
  BY <1>2, <1>3, <1>4

(* What getWriteInfo returns: a sequence of names for the parents. *)
LEMMA WriteInfo ==
  ASSUME templates \in Templates, NEW m \in SBOM
  PROVE  ParentProjectNames(m) \in Seq(Name) /\ ProjectName(m) \in Name
<1>1. PICK n \in Nat : DOMAIN newTemplate(templates) = 1 .. n
  BY TemplatesOfParents
<1> DEFINE f == [k \in DOMAIN newTemplate(templates) |->
                   processTemplate(newTemplate(templates)[k], m)]
<1>2. ParentProjectNames(m) = f
  BY DEF ParentProjectNames, getWriteInfo
<1>3. DOMAIN f = 1 .. n
  BY <1>1
<1>4. \A k \in DOMAIN f : f[k] \in Name
  BY <1>2 DEF Name
<1>5. ProjectName(m) \in Name
  BY DEF Name
<1> HIDE DEF f
<1>6. f = [k \in 1 .. n |-> f[k]]
  BY <1>1 DEF f
<1>7. f \in [1 .. n -> Name]
  BY <1>3, <1>4, <1>6
<1>8. f \in Seq(Name)
  BY <1>7
<1> QED
  BY <1>2, <1>5, <1>8

(* The templates never change, and so neither do the names. *)
LEMMA NamesStay ==
  ASSUME templates' = templates
  PROVE  /\ Name' = Name
         /\ \A m : ParentProjectNames(m)' = ParentProjectNames(m)
         /\ \A m : ProjectName(m)' = ProjectName(m)
         /\ \A m : Pushed(m)' = Pushed(m) /\ Filtered(m)' = Filtered(m)
BY DEF Name, ParentProjectNames, ProjectName, Pushed, Filtered

LEMMA NameSoughtIsName ==
  ASSUME TypeOK, NEW w \in Worker, JobGood(w), job[w].at \in {"find", "check", "create"}
  PROVE  /\ Len(job[w].path) + 1 \in DOMAIN ParentProjectNames(job[w].sbom)
         /\ NameSought(w) \in Name
<1>1. job[w].sbom \in SBOM /\ job[w].path \in Seq(DOMAIN projects)
  BY DEF TypeOK
<1>2. ParentProjectNames(job[w].sbom) \in Seq(Name)
  BY <1>1, WriteInfo DEF TypeOK
<1>3. Len(job[w].path) < Len(ParentProjectNames(job[w].sbom))
  BY DEF JobGood
<1> QED
  BY <1>1, <1>2, <1>3 DEF NameSought

-----------------------------------------------------------------------------
(* Projects are only added, and never changed.                             *)

Grows ==
  /\ templates' = templates
  /\ projects' \in Seq(ProjectRecord)
  /\ \A p \in DOMAIN projects : p \in DOMAIN projects' /\ projects'[p] = projects[p]

LEMMA NoneAdded ==
  ASSUME TypeOK, UNCHANGED <<templates, projects>>
  PROVE  Grows
BY DEF Grows, TypeOK, ProjectRecord

LEMMA OneAdded ==
  ASSUME TypeOK, templates' = templates, NEW new \in ProjectRecord,
         projects' = Append(projects, new)
  PROVE  /\ Grows
         /\ DOMAIN projects' = DOMAIN projects \cup {Len(projects) + 1}
         /\ Len(projects) + 1 \notin DOMAIN projects
         /\ projects'[Len(projects) + 1] = new
<1>1. projects \in Seq(ProjectRecord)
  BY DEF TypeOK, ProjectRecord
<1>2. projects' \in Seq(ProjectRecord) /\ Len(projects') = Len(projects) + 1
  BY <1>1
<1>3. DOMAIN projects = 1 .. Len(projects) /\ DOMAIN projects' = 1 .. Len(projects) + 1
  BY <1>1, <1>2
<1>4. /\ \A p \in 1 .. Len(projects) : projects'[p] = projects[p]
      /\ projects'[Len(projects) + 1] = new
  BY <1>1
<1>5. Len(projects) \in Nat
  BY <1>1
<1> QED
  BY <1>2, <1>3, <1>4, <1>5 DEF Grows

LEMMA SeqOfMore ==
  ASSUME NEW A, NEW B, A \subseteq B, NEW s \in Seq(A)
  PROVE  s \in Seq(B)
<1>1. s \in [1 .. Len(s) -> A] /\ Len(s) \in Nat
  OBVIOUS
<1>2. s \in [1 .. Len(s) -> B]
  BY <1>1
<1> QED
  BY <1>1, <1>2

LEMMA DownStays ==
  ASSUME Grows, NEW m, NEW path, Down(m, path)
  PROVE  Down(m, path)'
BY NamesStay DEF Grows, Down

LEMMA LandedStays ==
  ASSUME Grows, NEW b, Landed(b)
  PROVE  Landed(b)'
BY NamesStay DEF Grows, Landed

LEMMA WellMadeStays ==
  ASSUME Grows, NEW p \in DOMAIN projects, WellMade(p)
  PROVE  WellMade(p)'
<1>1. projects'[p] = projects[p]
  BY DEF Grows
<1>2. PICK m \in SBOM :
        /\ Pushed(m)
        /\ \/ \E k \in DOMAIN ParentProjectNames(m) :
                /\ projects[p].name = ParentProjectNames(m)[k] /\ ~projects[p].leaf
                /\ k = 1 => projects[p].parent = NoParent
           \/ /\ projects[p].name = ProjectName(m) /\ projects[p].leaf /\ Message[m].gzip
              /\ \E path \in [DOMAIN ParentProjectNames(m) -> DOMAIN projects] :
                   Down(m, path) /\ projects[p].parent = ParentRef(path)
  BY DEF WellMade
<1>3. /\ Pushed(m)' /\ ParentProjectNames(m)' = ParentProjectNames(m)
      /\ ProjectName(m)' = ProjectName(m)
  BY <1>2, NamesStay DEF Grows
<1>4. CASE \E k \in DOMAIN ParentProjectNames(m) :
             /\ projects[p].name = ParentProjectNames(m)[k] /\ ~projects[p].leaf
             /\ k = 1 => projects[p].parent = NoParent
  BY <1>1, <1>3, <1>4 DEF WellMade, NoParent
<1>5. CASE /\ projects[p].name = ProjectName(m) /\ projects[p].leaf /\ Message[m].gzip
           /\ \E path \in [DOMAIN ParentProjectNames(m) -> DOMAIN projects] :
                Down(m, path) /\ projects[p].parent = ParentRef(path)
  <2>1. PICK path \in [DOMAIN ParentProjectNames(m) -> DOMAIN projects] :
          Down(m, path) /\ projects[p].parent = ParentRef(path)
    BY <1>5
  <2>2. Down(m, path)'
    BY <2>1, DownStays
  <2>3. path \in [DOMAIN ParentProjectNames(m)' -> DOMAIN projects']
    BY <1>3 DEF Grows
  <2>4. projects'[p].parent = ParentRef(path)'
    BY <1>1, <2>1 DEF ParentRef, NoParent
  <2> QED
    BY <1>1, <1>3, <1>5, <2>2, <2>3, <2>4 DEF WellMade
<1> QED
  BY <1>2, <1>4, <1>5

LEMMA JobStays ==
  ASSUME TypeOK, Grows, boms \subseteq boms', NEW w \in Worker, JobGood(w), job'[w] = job[w]
  PROVE  JobGood(w)'
<1>1. Down(job[w].sbom, job[w].path) => Down(job[w].sbom, job[w].path)'
  BY DownStays
<1>2. NameSought(w)' = NameSought(w)
  BY NamesStay DEF Grows, NameSought
<1>3. \A p \in job[w].found : projects'[p] = projects[p]
  BY DEF TypeOK, Grows
<1> QED
  BY <1>1, <1>2, <1>3, NamesStay DEF Grows, JobGood

LEMMA JobTypeStays ==
  ASSUME Grows, NEW j \in JobRecord
  PROVE  j \in JobRecord'
<1>1. DOMAIN projects \subseteq DOMAIN projects'
  BY DEF Grows
<1>2. j.path \in Seq(DOMAIN projects')
  BY <1>1, SeqOfMore DEF JobRecord
<1> QED
  BY <1>1, <1>2 DEF JobRecord

(* What a step of one worker has to show: the rest stays. *)
LEMMA OneStep ==
  ASSUME IInv, Grows, NEW w \in Worker, NEW j \in JobRecord', job' = [job EXCEPT ![w] = j],
         JobGood(w)',
         \A p \in DOMAIN projects' \ DOMAIN projects : WellMade(p)',
         boms \subseteq boms', boms' \subseteq SBOM \X Nat,
         \A b \in boms' \ boms : Landed(b)',
         done' \subseteq SBOM,
         \A m \in done' \ done : Filtered(m) \/ \E b \in boms' : b[1] = m,
         faults' \in Nat
  PROVE  IInv'
<1>1. job \in [Worker -> JobRecord]
  BY DEF IInv, TypeOK, JobRecord
<1>2. job'[w] = j /\ \A v \in Worker \ {w} : job'[v] = job[v]
  BY <1>1
<1>3. TypeOK'
  <2>1. job' \in [Worker -> JobRecord']
    BY <1>1, <1>2, JobTypeStays
  <2>2. templates' \in Templates
    BY DEF Grows, IInv, TypeOK
  <2>3. projects' \in Seq([name : Name', parent : Nat, leaf : BOOLEAN])
    BY NamesStay DEF Grows, ProjectRecord
  <2> QED
    BY <2>1, <2>2, <2>3 DEF TypeOK, JobRecord
<1>4. ASSUME NEW v \in Worker PROVE JobGood(v)'
  BY <1>2, JobStays DEF IInv
<1>5. \A b \in boms' : Landed(b)'
  BY LandedStays DEF IInv
<1>6. \A p \in DOMAIN projects' : WellMade(p)'
  BY WellMadeStays DEF IInv
<1>7. SuccessMeansUploaded'
  BY NamesStay DEF Grows, IInv, SuccessMeansUploaded
<1> QED
  BY <1>3, <1>4, <1>5, <1>6, <1>7 DEF IInv

-----------------------------------------------------------------------------
(* The jobs that steps leave behind.                                       *)

LEMMA IdleType == Idle \in JobRecord /\ Idle.at = "idle"
<1>1. (CHOOSE m \in SBOM : TRUE) \in SBOM
  BY PushAssumption
<1>2. <<>> \in Seq(DOMAIN projects)
  OBVIOUS
<1> QED
  BY <1>1, <1>2 DEF Idle, JobRecord

LEMMA JobParts ==
  ASSUME TypeOK, NEW w \in Worker
  PROVE  /\ job[w] \in JobRecord
         /\ job[w] = [at |-> job[w].at, sbom |-> job[w].sbom,
                      path |-> job[w].path, found |-> job[w].found]
         /\ job[w].sbom \in SBOM /\ job[w].path \in Seq(DOMAIN projects)
         /\ job[w].found \subseteq DOMAIN projects
         /\ job[w] \in [at : {"idle", "find", "check", "create", "upload", "poll"},
                         sbom : SBOM, path : Seq(DOMAIN projects),
                         found : SUBSET DOMAIN projects]
BY DEF TypeOK, JobRecord

LEMMA IdleAfter ==
  ASSUME IInv, Grows, NEW w \in Worker, job' = [job EXCEPT ![w] = Idle]
  PROVE  Idle \in JobRecord' /\ JobGood(w)'
<1>1. Idle \in JobRecord'
  BY IdleType, JobTypeStays
<1>2. job'[w] = Idle
  BY DEF IInv, TypeOK
<1> QED
  BY <1>1, <1>2, IdleType DEF JobGood

(* The loop goes on with a project of the name it looked for that is under *)
(* the one before it.                                                      *)
LEMMA ContinueGood ==
  ASSUME IInv, Grows, NEW w \in Worker, job[w].at \in {"find", "check", "create"},
         NEW m, m = job[w].sbom, NEW old, old = job[w].path,
         NEW p \in DOMAIN projects', projects'[p].name = NameSought(w),
         old # <<>> => projects'[p].parent = ParentRef(old),
         Continue(w, Append(old, p))
  PROVE  \E j \in JobRecord' : job' = [job EXCEPT ![w] = j] /\ JobGood(w)'
<1> DEFINE path == Append(old, p)
           at == IF Len(path) < Len(ParentProjectNames(m)) THEN "find" ELSE "upload"
           j == [at |-> at, sbom |-> m, path |-> path, found |-> {}]
<1>1. /\ m \in SBOM /\ old \in Seq(DOMAIN projects)
      /\ ParentProjectNames(m) \in Seq(Name)
      /\ Len(old) < Len(ParentProjectNames(m))
      /\ Pushed(m) /\ Down(m, old)'
      /\ job \in [Worker -> JobRecord]
  <2>1. m \in SBOM /\ old \in Seq(DOMAIN projects) /\ job \in [Worker -> JobRecord]
    BY JobParts DEF IInv, TypeOK, JobRecord
  <2>2. ParentProjectNames(m) \in Seq(Name)
    BY <2>1, WriteInfo DEF IInv, TypeOK
  <2>3. /\ Len(old) < Len(ParentProjectNames(m))
        /\ Pushed(m) /\ Down(m, old)
    BY DEF IInv, JobGood
  <2> QED
    BY <2>1, <2>2, <2>3, DownStays
<1>2. old \in Seq(DOMAIN projects')
  BY <1>1, SeqOfMore DEF Grows
<1>3. /\ path \in Seq(DOMAIN projects')
      /\ Len(path) = Len(old) + 1
      /\ \A k \in 1 .. Len(old) : path[k] = old[k]
      /\ path[Len(path)] = p
  BY <1>2
<1>4. j \in JobRecord'
  BY <1>1, <1>3 DEF JobRecord
<1>5. job' = [job EXCEPT ![w] = j]
  BY DEF Continue, Goto
<1>6. Down(m, path)'
  <2>1. ASSUME NEW k \in DOMAIN path
        PROVE  /\ path[k] \in DOMAIN projects'
               /\ k \in DOMAIN ParentProjectNames(m)
               /\ projects'[path[k]].name = ParentProjectNames(m)[k]
               /\ k > 1 => projects'[path[k]].parent = path[k - 1]
    <3>1. k \in 1 .. Len(path) /\ Len(old) \in Nat
      BY <1>2, <1>3
    <3>2. CASE k <= Len(old)
      <4>1. k \in DOMAIN old /\ path[k] = old[k]
        BY <1>2, <1>3, <3>1, <3>2
      <4>2. k > 1 => path[k - 1] = old[k - 1]
        BY <1>2, <1>3, <3>1, <3>2
      <4> QED
        BY <1>1, <4>1, <4>2, NamesStay DEF Grows, Down
    <3>3. CASE k = Len(path)
      <4>1. path[k] = p /\ k \in DOMAIN ParentProjectNames(m)
        BY <1>1, <1>2, <1>3, <3>1, <3>3
      <4>2. projects'[path[k]].name = ParentProjectNames(m)[k]
        BY <1>3, <3>3, <4>1 DEF NameSought
      <4>3. ASSUME k > 1 PROVE projects'[path[k]].parent = path[k - 1]
        <5>1. old # <<>> /\ k - 1 = Len(old)
          BY <1>2, <1>3, <3>1, <3>3, <4>3
        <5>2. path[k - 1] = old[Len(old)]
          BY <1>3, <3>1, <4>3, <5>1
        <5> QED
          BY <4>1, <5>1, <5>2 DEF ParentRef
      <4> QED
        BY <4>1, <4>2, <4>3
    <3> QED
      BY <1>2, <1>3, <3>1, <3>2, <3>3
  <2> QED
    BY <2>1, NamesStay DEF Grows, Down
<1>7. job'[w] = j
  BY <1>1, <1>5
<1>8. /\ at = "find" => Len(path) < Len(ParentProjectNames(m))
      /\ at = "upload" => Len(path) = Len(ParentProjectNames(m))
      /\ at \in {"find", "upload"}
  BY <1>1, <1>2, <1>3
<1>9. JobGood(w)'
  <2>1. /\ job'[w].at = at /\ job'[w].sbom = m /\ job'[w].path = path
    BY <1>7
  <2>2. Pushed(m)' /\ ParentProjectNames(m)' = ParentProjectNames(m)
    BY <1>1, NamesStay DEF Grows
  <2> HIDE DEF path, at, j
  <2> QED
    BY <1>6, <1>8, <2>1, <2>2 DEF JobGood
<1> QED
  BY <1>4, <1>5, <1>9

-----------------------------------------------------------------------------
(* One lemma per action.                                                   *)

(* A step that ends a job and changes nothing else but the count of faults. *)
LEMMA GivesUp ==
  ASSUME IInv, NEW w \in Worker, Fails(w), UNCHANGED <<templates, projects, boms>>, faults' \in Nat
  PROVE  IInv'
<1>1. Grows
  BY NoneAdded DEF IInv
<1>2. job' = [job EXCEPT ![w] = Idle] /\ done' = done
  BY DEF Fails
<1>3. Idle \in JobRecord' /\ JobGood(w)'
  BY <1>1, <1>2, IdleAfter
<1>4. boms' \subseteq SBOM \X Nat /\ done' \subseteq SBOM
  BY <1>2 DEF IInv, TypeOK
<1> QED
  BY <1>1, <1>2, <1>3, <1>4, OneStep

LEMMA PostProcessStep ==
  ASSUME IInv, NEW w \in Worker, NEW m \in SBOM, PostProcess(w, m)
  PROVE  IInv'
<1>1. Grows
  BY NoneAdded DEF IInv, PostProcess
<1>2. boms' \subseteq SBOM \X Nat /\ faults' \in Nat
  BY DEF IInv, TypeOK, PostProcess
<1>3. CASE Pushed(m) /\ job' = [job EXCEPT ![w] = Started(m)] /\ UNCHANGED done
  <2> DEFINE parents == ParentProjectNames(m)
  <2>1. parents \in Seq(Name)
    BY WriteInfo DEF IInv, TypeOK
  <2>2. /\ Started(m).at \in {"find", "upload"}
        /\ Started(m).sbom = m /\ Started(m).path = <<>> /\ Started(m).found = {}
        /\ Started(m).at = "find" => parents # <<>>
        /\ Started(m).at = "upload" => parents = <<>>
    BY DEF Started
  <2>3. Started(m) \in JobRecord'
    <3>1. <<>> \in Seq(DOMAIN projects')
      OBVIOUS
    <3> QED
      BY <3>1 DEF Started, JobRecord
  <2>4. job'[w] = Started(m)
    BY <1>3 DEF IInv, TypeOK
  <2>5. JobGood(w)'
    <3>1. Pushed(m)' /\ ParentProjectNames(m)' = parents
      BY <1>1, <1>3, NamesStay DEF Grows
    <3>2. Down(m, <<>>)'
      BY DEF Down
    <3>3. /\ parents # <<>> => Len(<<>>) < Len(parents)
          /\ parents = <<>> => Len(<<>>) = Len(parents)
      BY <2>1
    <3> HIDE DEF parents
    <3> QED
      BY <2>2, <2>4, <3>1, <3>2, <3>3 DEF JobGood
  <2>6. done' \subseteq SBOM
    BY <1>3 DEF IInv, TypeOK
  <2> QED
    BY <1>1, <1>2, <1>3, <2>3, <2>5, <2>6, OneStep DEF PostProcess
<1>4. CASE Message[m].labelled /\ Filtered(m) /\ done' = done \cup {m} /\ UNCHANGED job
  <2>1. job' = [job EXCEPT ![w] = job[w]] /\ job[w] \in JobRecord'
    BY <1>1, <1>4, JobParts, JobTypeStays DEF IInv, TypeOK
  <2>2. JobGood(w)'
    BY <1>1, <1>4, JobStays DEF IInv, PostProcess
  <2>3. done' \subseteq SBOM /\ \A n \in done' \ done : Filtered(n)
    BY <1>4 DEF IInv, TypeOK
  <2> QED
    BY <1>1, <1>2, <1>4, <2>1, <2>2, <2>3, OneStep DEF PostProcess
<1> QED
  BY <1>3, <1>4 DEF PostProcess

(* A job that goes on to check or create still has what it found so far.   *)
LEMMA GotoGood ==
  ASSUME IInv, Grows, NEW w \in Worker, NEW at \in {"check", "create"}, NEW found \in SUBSET DOMAIN projects,
         job[w].at \in {"find", "check"}, Goto(w, at, job[w].path, found),
         at = "check" => \A p \in found : projects[p].name = NameSought(w)
  PROVE  \E j \in JobRecord' : job' = [job EXCEPT ![w] = j] /\ JobGood(w)'
<1> DEFINE m == job[w].sbom
           path == job[w].path
           j == [at |-> at, sbom |-> m, path |-> path, found |-> found]
<1>1. /\ m \in SBOM /\ path \in Seq(DOMAIN projects) /\ job \in [Worker -> JobRecord]
  BY JobParts DEF IInv, TypeOK, JobRecord
<1>2. j \in JobRecord
  BY <1>1 DEF JobRecord
<1>3. j \in JobRecord' /\ job' = [job EXCEPT ![w] = j]
  BY <1>2, JobTypeStays DEF Goto
<1>4. job'[w] = j
  BY <1>1, <1>3
<1>5. /\ Len(job[w].path) < Len(ParentProjectNames(job[w].sbom))
      /\ Pushed(job[w].sbom) /\ Down(job[w].sbom, job[w].path)
  BY DEF IInv, JobGood
<1>6. job'[w].at = at /\ job'[w].sbom = job[w].sbom /\ job'[w].path = job[w].path /\ job'[w].found = found
  BY <1>4
<1>7. Down(job[w].sbom, job[w].path)'
  <2>1. PICK n, q : n = job[w].sbom /\ q = job[w].path
    OBVIOUS
  <2>2. Down(n, q)'
    BY <1>5, <2>1, DownStays
  <2> QED
    BY <1>6, <2>1, <2>2 DEF Down
<1>8. NameSought(w)' = NameSought(w)
  BY <1>6, NamesStay DEF Grows, NameSought
<1>9. at = "check" => \A p \in found : projects'[p].name = NameSought(w)
  BY DEF Grows
<1>10. JobGood(w)'
  BY <1>5, <1>6, <1>7, <1>8, <1>9, NamesStay DEF Grows, JobGood
<1> QED
  BY <1>3, <1>10

LEMMA FindProjectsStep ==
  ASSUME IInv, NEW w \in Worker, FindProjects(w)
  PROVE  IInv'
<1> DEFINE found == {p \in DOMAIN projects : projects[p].name = NameSought(w)}
<1>1. Grows
  BY NoneAdded DEF IInv, FindProjects
<1>2. boms' \subseteq SBOM \X Nat /\ done' \subseteq SBOM /\ faults' \in Nat
  BY DEF IInv, TypeOK, FindProjects
<1>3. \E j \in JobRecord' : job' = [job EXCEPT ![w] = j] /\ JobGood(w)'
  <2>0. /\ job[w].at \in {"find", "check"}
        /\ {} \in SUBSET DOMAIN projects /\ found \in SUBSET DOMAIN projects
        /\ \A p \in found : projects[p].name = NameSought(w)
    BY DEF FindProjects
  <2>1. CASE Goto(w, "create", job[w].path, {})
    <3>1. "create" \in {"check", "create"} /\ "create" # "check"
      OBVIOUS
    <3> HIDE DEF found
    <3> QED
      BY <1>1, <2>0, <2>1, <3>1, GotoGood
  <2>2. CASE Goto(w, "check", job[w].path, found)
    <3>1. "check" \in {"check", "create"}
      OBVIOUS
    <3> HIDE DEF found
    <3> QED
      BY <1>1, <2>0, <2>2, <3>1, GotoGood
  <2>3. CASE job[w].path = <<>> /\ \E p \in found : Continue(w, <<p>>)
    <3>1. PICK p \in found : Continue(w, <<p>>)
      BY <2>3
    <3>2. Continue(w, Append(job[w].path, p))
      <4>1. Append(job[w].path, p) = <<p>>
        BY <2>3
      <4> QED
        BY <3>1, <4>1
    <3>3. p \in DOMAIN projects' /\ projects'[p].name = NameSought(w)
      BY <1>1 DEF Grows
    <3> QED
      BY <1>1, <2>3, <3>2, <3>3, ContinueGood DEF FindProjects
  <2> QED
    BY <2>1, <2>2, <2>3 DEF FindProjects
<1> QED
  BY <1>1, <1>2, <1>3, OneStep DEF FindProjects

LEMMA CheckParentStep ==
  ASSUME IInv, NEW w \in Worker, CheckParent(w)
  PROVE  IInv'
<1>1. Grows
  BY NoneAdded DEF IInv, CheckParent
<1>2. boms' \subseteq SBOM \X Nat /\ done \subseteq SBOM /\ faults' \in Nat
  BY DEF IInv, TypeOK, CheckParent
<1>3. job[w].at = "check" /\ \A p \in job[w].found : projects[p].name = NameSought(w)
  BY DEF IInv, JobGood, CheckParent
<1>4. job[w].found \subseteq DOMAIN projects
  BY JobParts DEF IInv
<1>5. PICK p \in job[w].found :
        \/ /\ HasParent(p, job[w].path)
           /\ Continue(w, Append(job[w].path, p))
           /\ UNCHANGED done
        \/ /\ ~HasParent(p, job[w].path)
           /\ IF job[w].found = {p}
              THEN Fails(w)
              ELSE Goto(w, "check", job[w].path, job[w].found \ {p}) /\ UNCHANGED done
  BY DEF CheckParent
<1>6. CASE HasParent(p, job[w].path) /\ Continue(w, Append(job[w].path, p)) /\ UNCHANGED done
  <2>1. /\ p \in DOMAIN projects' /\ projects'[p].name = NameSought(w)
        /\ projects'[p].parent = ParentRef(job[w].path)
    BY <1>1, <1>3, <1>4, <1>6 DEF Grows, HasParent
  <2>2. \E j \in JobRecord' : job' = [job EXCEPT ![w] = j] /\ JobGood(w)'
    BY <1>1, <1>3, <1>6, <2>1, ContinueGood
  <2> QED
    BY <1>1, <1>2, <1>6, <2>2, OneStep DEF CheckParent
<1>7. CASE Fails(w)
  BY <1>2, <1>7, GivesUp DEF CheckParent
<1>8. CASE Goto(w, "check", job[w].path, job[w].found \ {p}) /\ UNCHANGED done
  <2> DEFINE rest == job[w].found \ {p}
  <2>1. rest \in SUBSET DOMAIN projects /\ \A q \in rest : projects[q].name = NameSought(w)
    BY <1>3, <1>4
  <2>2. Goto(w, "check", job[w].path, rest)
    BY <1>8
  <2> HIDE DEF rest
  <2>3. \E j \in JobRecord' : job' = [job EXCEPT ![w] = j] /\ JobGood(w)'
    BY <1>1, <1>3, <2>1, <2>2, GotoGood
  <2> QED
    BY <1>1, <1>2, <1>8, <2>3, OneStep DEF CheckParent
<1> QED
  BY <1>5, <1>6, <1>7, <1>8

LEMMA CreateProjectStep ==
  ASSUME IInv, NEW w \in Worker, CreateProject(w)
  PROVE  IInv'
<1> DEFINE new == Len(projects) + 1
<1>1. /\ boms' \subseteq SBOM \X Nat /\ boms' = boms /\ done \subseteq SBOM /\ faults \in Nat
      /\ templates' = templates
  BY DEF IInv, TypeOK, CreateProject
<1>2. CASE Fails(w) /\ UNCHANGED <<projects, faults>>
  BY <1>1, <1>2, GivesUp
<1>3. CASE projects' = Append(projects, Made(w))
  <2>1. /\ Len(job[w].path) + 1 \in DOMAIN ParentProjectNames(job[w].sbom)
        /\ NameSought(w) \in Name
    BY NameSoughtIsName DEF IInv, CreateProject
  <2>2. Made(w) \in ProjectRecord
    <3>1. job[w].path \in Seq(DOMAIN projects) /\ DOMAIN projects \subseteq Nat
      BY JobParts DEF IInv, TypeOK
    <3>2. ParentRef(job[w].path) \in Nat
      BY <3>1 DEF ParentRef, NoParent
    <3> QED
      BY <2>1, <3>2 DEF Made, Project, ProjectRecord
  <2>3. /\ Grows
        /\ DOMAIN projects' = DOMAIN projects \cup {new}
        /\ projects'[new] = Made(w)
    BY <1>1, <1>3, <2>2, OneAdded DEF IInv
  <2>4. ASSUME NEW q \in DOMAIN projects' \ DOMAIN projects PROVE WellMade(q)'
    <3>1. Pushed(job[w].sbom) /\ job[w].sbom \in SBOM
      BY JobParts DEF IInv, JobGood, CreateProject
    <3>2. projects'[q] = Made(w)
      BY <2>3
    <3>3. /\ projects'[q].name = ParentProjectNames(job[w].sbom)[Len(job[w].path) + 1]
          /\ projects'[q].leaf = FALSE /\ projects'[q].parent = ParentRef(job[w].path)
      BY <3>2 DEF Made, Project, NameSought
    <3>4. Len(job[w].path) + 1 = 1 => projects'[q].parent = NoParent
      <4>1. job[w].path \in Seq(DOMAIN projects)
        BY JobParts DEF IInv
      <4>2. Len(job[w].path) + 1 = 1 => job[w].path = <<>>
        BY <4>1
      <4> QED
        BY <3>3, <4>2 DEF ParentRef
    <3>5. PICK m \in SBOM :
            /\ Pushed(m)
            /\ \E k \in DOMAIN ParentProjectNames(m) :
                 /\ projects'[q].name = ParentProjectNames(m)[k] /\ ~projects'[q].leaf
                 /\ k = 1 => projects'[q].parent = NoParent
      BY <2>1, <3>1, <3>3, <3>4
    <3>6. Pushed(m)' /\ ParentProjectNames(m)' = ParentProjectNames(m)
      BY <1>1, <3>5, NamesStay
    <3> QED
      BY <3>5, <3>6 DEF WellMade, NoParent
  <2>5. CASE Continue(w, Append(job[w].path, Created)) /\ UNCHANGED <<done, faults>>
    <3>1. PICK p : p = new
      OBVIOUS
    <3>2. /\ p \in DOMAIN projects' /\ projects'[p].name = NameSought(w)
          /\ projects'[p].parent = ParentRef(job[w].path)
          /\ Continue(w, Append(job[w].path, p))
      BY <2>3, <2>5, <3>1 DEF Made, Project, Created
    <3>3. \E j \in JobRecord' : job' = [job EXCEPT ![w] = j] /\ JobGood(w)'
      BY <2>3, <3>2, ContinueGood DEF CreateProject
    <3> QED
      BY <1>1, <2>3, <2>4, <2>5, <3>3, OneStep
  <2>6. CASE Fault /\ Fails(w)
    <3>1. faults' \in Nat /\ done' = done /\ job' = [job EXCEPT ![w] = Idle]
      BY <1>1, <2>6 DEF Fault, Fails
    <3>2. Idle \in JobRecord' /\ JobGood(w)'
      BY <2>3, <3>1, IdleAfter
    <3> QED
      BY <1>1, <2>3, <2>4, <3>1, <3>2, OneStep
  <2> QED
    BY <1>3, <2>5, <2>6 DEF CreateProject
<1> QED
  BY <1>2, <1>3 DEF CreateProject

(* What Upload leaves on the server, whether or not the call reports it.   *)
LEMMA Uploaded ==
  ASSUME IInv, NEW w \in Worker, job[w].at = "upload", job[w].path # <<>>, templates' = templates,
         Message[job[w].sbom].gzip, NEW leaf \in 1 .. Len(projects) + 1,
         AutoCreated(w, leaf), boms' = boms \cup {<<job[w].sbom, leaf>>}
  PROVE  /\ Grows
         /\ \A q \in DOMAIN projects' \ DOMAIN projects : WellMade(q)'
         /\ boms \subseteq boms' /\ boms' \subseteq SBOM \X Nat
         /\ \A b \in boms' \ boms : Landed(b)'
         /\ \E b \in boms' : b[1] = job[w].sbom
<1> PICK m, path : m = job[w].sbom /\ path = job[w].path
  OBVIOUS
<1>1. /\ m \in SBOM /\ path \in Seq(DOMAIN projects)
      /\ Pushed(m) /\ Down(m, path)
      /\ Len(path) = Len(ParentProjectNames(m))
  BY JobParts DEF IInv, JobGood
<1>2. ParentRef(path) \in Nat /\ ProjectName(m) \in Name /\ ParentProjectNames(m) \in Seq(Name)
  <2>1. DOMAIN projects \subseteq Nat
    BY DEF IInv, TypeOK
  <2> QED
    BY <1>1, <2>1, WriteInfo DEF ParentRef, IInv, TypeOK
<1> DEFINE new == Project(ProjectName(m), ParentRef(path), TRUE)
<1>3. new \in ProjectRecord
  BY <1>2 DEF Project, ProjectRecord
<1>4. Grows /\ \A q \in DOMAIN projects' \ DOMAIN projects : projects'[q] = new
  <2>1. CASE projects' = projects
    BY <2>1, NoneAdded DEF IInv
  <2>2. CASE projects' = Append(projects, new)
    BY <1>3, <2>2, OneAdded DEF IInv
  <2> QED
    BY <2>1, <2>2 DEF AutoCreated
<1>5. ASSUME NEW q \in DOMAIN projects' \ DOMAIN projects PROVE WellMade(q)'
  <2>1. /\ projects'[q].name = ProjectName(m) /\ projects'[q].leaf
        /\ projects'[q].parent = ParentRef(path)
    BY <1>4 DEF Project
  <2>2. path \in [DOMAIN ParentProjectNames(m)' -> DOMAIN projects']
    <3>1. path \in [1 .. Len(path) -> DOMAIN projects]
      BY <1>1
    <3>2. 1 .. Len(path) = DOMAIN ParentProjectNames(m)
      BY <1>1, <1>2
    <3>3. DOMAIN projects \subseteq DOMAIN projects'
      BY <1>4 DEF Grows
    <3> QED
      BY <3>1, <3>2, <3>3, NamesStay
  <2>3. Down(m, path)' /\ ParentRef(path)' = ParentRef(path)
    BY <1>1, <1>4, DownStays DEF ParentRef, NoParent
  <2>4. Pushed(m)' /\ ProjectName(m)' = ProjectName(m)
    BY <1>1, NamesStay
  <2> QED
    BY <1>1, <2>1, <2>2, <2>3, <2>4 DEF WellMade
<1>6. Landed(<<m, leaf>>)'
  <2>1. CASE projects' = projects /\ leaf \in DOMAIN projects
             /\ projects[leaf].name = ProjectName(m) /\ projects[leaf].leaf
    BY <2>1, NamesStay DEF Landed
  <2>2. CASE projects' = Append(projects, new) /\ leaf = Len(projects) + 1
    <3>1. leaf \in DOMAIN projects' /\ projects'[leaf] = new
      BY <1>3, <2>2, OneAdded DEF IInv
    <3>2. new.name = ProjectName(m) /\ new.leaf
      BY DEF Project
    <3> HIDE DEF new
    <3> QED
      BY <3>1, <3>2, NamesStay DEF Landed
  <2> QED
    BY <2>1, <2>2 DEF AutoCreated
<1>7. ASSUME NEW b \in boms' \ boms PROVE Landed(b)'
  <2>1. b = <<m, leaf>>
    OBVIOUS
  <2> QED
    BY <1>6, <2>1
<1>8. boms \subseteq boms' /\ boms' \subseteq SBOM \X Nat /\ \E b \in boms' : b[1] = job[w].sbom
  <2>1. leaf \in Nat /\ boms \subseteq SBOM \X Nat
    BY DEF IInv, TypeOK
  <2>2. <<m, leaf>> \in SBOM \X Nat /\ <<m, leaf>>[1] = m /\ boms' = boms \cup {<<m, leaf>>}
    BY <1>1, <2>1
  <2> QED
    BY <2>1, <2>2
<1> QED
  BY <1>4, <1>5, <1>7, <1>8

LEMMA UploadStep ==
  ASSUME IInv, NEW w \in Worker, Upload(w)
  PROVE  IInv'
<1>1. job[w].at = "upload" /\ templates' = templates /\ done \subseteq SBOM /\ faults \in Nat
  BY DEF IInv, TypeOK, Upload
<1>2. CASE Fails(w) /\ UNCHANGED <<projects, boms, faults>>
  BY <1>1, <1>2, GivesUp
<1>3. CASE /\ Message[job[w].sbom].gzip /\ job[w].path # <<>>
           /\ \E leaf \in 1 .. Len(projects) + 1 :
                AutoCreated(w, leaf) /\ boms' = boms \cup {<<job[w].sbom, leaf>>}
  <2>1. /\ Grows
        /\ \A q \in DOMAIN projects' \ DOMAIN projects : WellMade(q)'
        /\ boms \subseteq boms' /\ boms' \subseteq SBOM \X Nat
        /\ \A b \in boms' \ boms : Landed(b)'
        /\ \E b \in boms' : b[1] = job[w].sbom
    BY <1>1, <1>3, Uploaded
  <2>2. CASE Goto(w, "poll", job[w].path, {}) /\ UNCHANGED <<done, faults>>
    <3>1. /\ job[w].sbom \in SBOM /\ job[w].path \in Seq(DOMAIN projects)
          /\ job \in [Worker -> JobRecord]
          /\ Pushed(job[w].sbom) /\ Down(job[w].sbom, job[w].path)
          /\ Len(job[w].path) = Len(ParentProjectNames(job[w].sbom))
      BY <1>1, JobParts DEF IInv, JobGood, TypeOK, JobRecord
    <3>2. PICK m, path : m = job[w].sbom /\ path = job[w].path
      OBVIOUS
    <3> DEFINE j == [at |-> "poll", sbom |-> m, path |-> path, found |-> {}]
    <3>3. j \in JobRecord
      BY <3>1, <3>2 DEF JobRecord
    <3>4. j \in JobRecord' /\ job' = [job EXCEPT ![w] = j]
      BY <2>1, <2>2, <3>2, <3>3, JobTypeStays DEF Goto
    <3>5. job'[w].at = "poll" /\ job'[w].sbom = m /\ job'[w].path = path
      BY <3>1, <3>4
    <3>6. Down(m, path)' /\ Pushed(m)' /\ ParentProjectNames(m)' = ParentProjectNames(m)
      BY <2>1, <3>1, <3>2, DownStays, NamesStay DEF Grows
    <3>7. Len(path) = Len(ParentProjectNames(m)) /\ \E b \in boms' : b[1] = m
      BY <2>1, <3>1, <3>2
    <3>8. JobGood(w)'
      BY <3>5, <3>6, <3>7 DEF JobGood
    <3> HIDE DEF j
    <3> QED
      BY <1>1, <2>1, <2>2, <3>4, <3>8, OneStep
  <2>3. CASE Fault /\ Fails(w)
    <3>1. faults' \in Nat /\ done' = done /\ job' = [job EXCEPT ![w] = Idle]
      BY <1>1, <2>3 DEF Fault, Fails
    <3>2. Idle \in JobRecord' /\ JobGood(w)'
      BY <2>1, <3>1, IdleAfter
    <3> QED
      BY <1>1, <2>1, <3>1, <3>2, OneStep
  <2> QED
    BY <1>3, <2>2, <2>3 DEF Upload
<1> QED
  BY <1>2, <1>3 DEF Upload

LEMMA ProcessedStep ==
  ASSUME IInv, NEW w \in Worker, Processed(w)
  PROVE  IInv'
<1>1. Grows
  BY NoneAdded DEF IInv, Processed
<1>2. job' = [job EXCEPT ![w] = Idle] /\ done' = done \cup {job[w].sbom}
  BY DEF Processed, Succeeds
<1>3. Idle \in JobRecord' /\ JobGood(w)'
  BY <1>1, <1>2, IdleAfter
<1>4. /\ job[w].sbom \in SBOM /\ done \subseteq SBOM /\ boms \subseteq SBOM \X Nat /\ faults \in Nat
      /\ \E b \in boms : b[1] = job[w].sbom
  BY JobParts DEF IInv, TypeOK, JobGood, Processed
<1>5. UNCHANGED <<boms, faults>>
  BY DEF Processed
<1>6. done' \subseteq SBOM /\ \A m \in done' \ done : \E b \in boms' : b[1] = m
  BY <1>2, <1>4, <1>5
<1>7. /\ boms \subseteq boms' /\ boms' \subseteq SBOM \X Nat /\ faults' \in Nat
      /\ \A b \in boms' \ boms : Landed(b)'
      /\ \A p \in DOMAIN projects' \ DOMAIN projects : WellMade(p)'
  BY <1>4, <1>5 DEF Processed
<1> QED
  BY <1>1, <1>2, <1>3, <1>6, <1>7, OneStep

LEMMA CrashStep ==
  ASSUME IInv, Crash
  PROVE  IInv'
<1>1. Grows
  BY NoneAdded DEF IInv, Crash
<1>2. /\ job' = [w \in Worker |-> Idle] /\ UNCHANGED <<templates, projects, boms, done>>
      /\ faults' \in Nat
  BY DEF Crash, Fault, IInv, TypeOK
<1>3. Idle \in JobRecord'
  BY <1>1, IdleType, JobTypeStays
<1>4. TypeOK'
  <2>1. job' \in [Worker -> JobRecord']
    BY <1>2, <1>3
  <2>2. Name' = Name
    BY <1>2, NamesStay
  <2> QED
    BY <1>2, <2>1, <2>2 DEF IInv, TypeOK, JobRecord
<1>5. ASSUME NEW w \in Worker PROVE JobGood(w)'
  BY <1>2, IdleType DEF JobGood
<1>6. \A b \in boms' : Landed(b)'
  BY <1>1, <1>2, LandedStays DEF IInv
<1>7. \A p \in DOMAIN projects' : WellMade(p)'
  BY <1>1, <1>2, WellMadeStays DEF IInv
<1>8. SuccessMeansUploaded'
  BY <1>2, NamesStay DEF IInv, SuccessMeansUploaded
<1> QED
  BY <1>4, <1>5, <1>6, <1>7, <1>8 DEF IInv

-----------------------------------------------------------------------------
LEMMA InvInit == Init => IInv
<1> SUFFICES ASSUME Init PROVE IInv
  OBVIOUS
<1>1. projects = <<>> /\ boms = {} /\ done = {} /\ faults = 0 /\ templates \in Templates
  BY DEF Init
<1>2. job \in [Worker -> JobRecord] /\ \A w \in Worker : job[w] = Idle
  BY IdleType DEF Init
<1>3. projects \in Seq([name : Name, parent : Nat, leaf : BOOLEAN]) /\ DOMAIN projects = {}
  BY <1>1
<1>4. TypeOK
  BY <1>1, <1>2, <1>3 DEF TypeOK, JobRecord
<1>5. \A w \in Worker : JobGood(w)
  BY <1>2, IdleType DEF JobGood
<1>6. /\ \A p \in DOMAIN projects : WellMade(p)
      /\ \A b \in boms : Landed(b)
      /\ SuccessMeansUploaded
  BY <1>1, <1>3 DEF SuccessMeansUploaded
<1> QED
  BY <1>4, <1>5, <1>6 DEF IInv

LEMMA InvNext == IInv /\ [Next]_vars => IInv'
<1> SUFFICES ASSUME IInv, [Next]_vars PROVE IInv'
  OBVIOUS
<1>1. ASSUME NEW w \in Worker, NEW m \in SBOM, PostProcess(w, m) PROVE IInv'
  BY <1>1, PostProcessStep
<1>2. ASSUME NEW w \in Worker, FindProjects(w) PROVE IInv'
  BY <1>2, FindProjectsStep
<1>3. ASSUME NEW w \in Worker, CheckParent(w) PROVE IInv'
  BY <1>3, CheckParentStep
<1>4. ASSUME NEW w \in Worker, CreateProject(w) PROVE IInv'
  BY <1>4, CreateProjectStep
<1>5. ASSUME NEW w \in Worker, Upload(w) PROVE IInv'
  BY <1>5, UploadStep
<1>6. ASSUME NEW w \in Worker, PanicOnUpload(w) \/ CallFails(w) PROVE IInv'
  <2>1. Fails(w) /\ UNCHANGED <<templates, projects, boms>> /\ faults' \in Nat
    BY <1>6 DEF PanicOnUpload, CallFails, Fault, IInv, TypeOK
  <2> QED
    BY <2>1, GivesUp
<1>7. ASSUME NEW w \in Worker, Processed(w) PROVE IInv'
  BY <1>7, ProcessedStep
<1>8. CASE Crash
  BY <1>8, CrashStep
<1>9. CASE UNCHANGED vars
  <2>1. UNCHANGED <<templates, projects, boms, job, done, faults>>
    BY <1>9 DEF vars
  <2>2. Grows
    BY <2>1, NoneAdded DEF IInv
  <2>3. Name' = Name
    BY <2>1, NamesStay
  <2>4. TypeOK'
    BY <2>1, <2>3 DEF IInv, TypeOK
  <2>5. \A w \in Worker : JobGood(w)'
    BY <2>1, <2>2, JobStays DEF IInv
  <2>6. \A b \in boms' : Landed(b)'
    BY <2>1, <2>2, LandedStays DEF IInv
  <2>7. \A p \in DOMAIN projects' : WellMade(p)'
    BY <2>1, <2>2, WellMadeStays DEF IInv
  <2>8. SuccessMeansUploaded'
    BY <2>1, NamesStay DEF IInv, SuccessMeansUploaded
  <2> QED
    BY <2>4, <2>5, <2>6, <2>7, <2>8 DEF IInv
<1> QED
  BY <1>1, <1>2, <1>3, <1>4, <1>5, <1>6, <1>7, <1>8, <1>9 DEF Next

(* The inductive invariant holds of every behaviour of the pushes. *)
THEOREM Invariance == Spec => []IInv
<1> QED
  BY InvInit, InvNext, PTL DEF Spec

(* The state of the pushes is always well-formed; a UUID kept on the way   *)
(* down is that of a project the server has.                               *)
THEOREM TypeCorrect == Spec => []TypeOK
<1>1. IInv => TypeOK
  BY DEF IInv
<1> QED
  BY <1>1, Invariance, PTL

LEMMA MadeAsAsked == IInv => ProjectsAreAskedFor
<1> SUFFICES ASSUME IInv, NEW p \in DOMAIN projects
             PROVE  \E m \in SBOM :
                      /\ Pushed(m)
                      /\ \/ \E k \in DOMAIN ParentProjectNames(m) :
                              /\ projects[p].name = ParentProjectNames(m)[k]
                              /\ ~projects[p].leaf
                         \/ projects[p].name = ProjectName(m) /\ projects[p].leaf /\ Message[m].gzip
  BY DEF ProjectsAreAskedFor
<1>1. WellMade(p)
  BY DEF IInv
<1> QED
  BY <1>1 DEF WellMade

(* A project that is called like a root, and like nothing else, was made   *)
(* as one and is at the top: so the way down begins there.                 *)
LEMMA FromTheTop ==
  ASSUME IInv, NEW m \in SBOM, RootOwn(m),
         NEW path \in [DOMAIN ParentProjectNames(m) -> DOMAIN projects], Down(m, path)
  PROVE  LeadsDown(m, path)
<1>1. ASSUME 1 \in DOMAIN path PROVE projects[path[1]].parent = NoParent
  <2>1. path[1] \in DOMAIN projects /\ projects[path[1]].name = ParentProjectNames(m)[1]
    BY <1>1 DEF Down
  <2>2. WellMade(path[1])
    BY <2>1 DEF IInv
  <2>3. PICK n \in SBOM :
          /\ Pushed(n)
          /\ \/ \E k \in DOMAIN ParentProjectNames(n) :
                  /\ projects[path[1]].name = ParentProjectNames(n)[k]
                  /\ k = 1 => projects[path[1]].parent = NoParent
             \/ projects[path[1]].name = ProjectName(n)
    BY <2>2 DEF WellMade
  <2>4. PICK k \in DOMAIN ParentProjectNames(n) :
          /\ ParentProjectNames(n)[k] = ParentProjectNames(m)[1]
          /\ k = 1 => projects[path[1]].parent = NoParent
    BY <2>1, <2>3 DEF RootOwn
  <2>5. k = 1
    BY <2>3, <2>4 DEF RootOwn
  <2> QED
    BY <2>4, <2>5
<1>2. ParentProjectNames(m) \in Seq(Name)
  BY WriteInfo DEF IInv, TypeOK
<1>3. ASSUME NEW k \in DOMAIN path
      PROVE  projects[path[k]].parent = IF k = 1 THEN NoParent ELSE path[k - 1]
  <2>1. k = 1 \/ k > 1
    BY <1>2
  <2> QED
    BY <1>1, <2>1 DEF Down
<1> QED
  BY <1>3 DEF Down, LeadsDown

LEMMA LandedUnder == IInv => UploadedUnderItsParents
<1> SUFFICES ASSUME IInv, NEW b \in boms, RootOwn(b[1]), LeafOwn(b[1])
             PROVE  /\ projects[b[2]].name = ProjectName(b[1]) /\ projects[b[2]].leaf
                    /\ \E path \in [DOMAIN ParentProjectNames(b[1]) -> DOMAIN projects] :
                         LeadsDown(b[1], path) /\ projects[b[2]].parent = ParentRef(path)
  BY DEF UploadedUnderItsParents
<1> PICK m, p : m = b[1] /\ p = b[2]
  OBVIOUS
<1>1. m \in SBOM
  BY DEF IInv, TypeOK
<1>2. p \in DOMAIN projects /\ projects[p].name = ProjectName(m) /\ projects[p].leaf
  BY DEF IInv, Landed
<1>3. WellMade(p)
  BY <1>2 DEF IInv
<1>4. PICK n \in SBOM :
        /\ Pushed(n) /\ Message[n].gzip /\ ProjectName(n) = ProjectName(m)
        /\ \E path \in [DOMAIN ParentProjectNames(n) -> DOMAIN projects] :
             Down(n, path) /\ projects[p].parent = ParentRef(path)
  BY <1>2, <1>3 DEF WellMade
<1>5. ParentProjectNames(n) = ParentProjectNames(m)
  BY <1>4 DEF LeafOwn
<1>6. PICK path \in [DOMAIN ParentProjectNames(m) -> DOMAIN projects] :
        Down(m, path) /\ projects[p].parent = ParentRef(path)
  BY <1>4, <1>5 DEF Down
<1>7. LeadsDown(m, path)
  BY <1>1, <1>6, FromTheTop
<1> QED
  BY <1>2, <1>6, <1>7

(* However the calls of however many workers interleave, fail or are cut   *)
(* off, and whatever the server does about duplicates, an SBOM whose root  *)
(* and project names are not others' lies in its project, under the chain  *)
(* of parent projects that its names give, from the top.                   *)
THEOREM PlacedRightly == Spec => []UploadedUnderItsParents
<1> QED
  BY LandedUnder, Invariance, PTL

(* No project is made that no message to be pushed asks for. *)
THEOREM OnlyAskedFor == Spec => []ProjectsAreAskedFor
<1> QED
  BY MadeAsAsked, Invariance, PTL

(* postProcess returns no error only for what is filtered or was taken by  *)
(* the server.                                                             *)
THEOREM SuccessIsUploaded == Spec => []SuccessMeansUploaded
<1>1. IInv => SuccessMeansUploaded
  BY DEF IInv
<1> QED
  BY <1>1, Invariance, PTL

-----------------------------------------------------------------------------
(* Own names.  On a server that refuses duplicates a name stands for one   *)
(* parent project, made by the first push that wanted it, under the parent *)
(* that push names.  If no other push wants the name anywhere else, that   *)
(* is where every later push expects it.                                   *)

(* Of the projects made by pushes no two have the same name. *)
OnlyOneOfAName ==
  RefusesDuplicates =>
    \A p, q \in DOMAIN projects :
      projects[p].name = projects[q].name /\ ~projects[p].leaf /\ ~projects[q].leaf => p = q

(* A project made by a push is under the project that push names before.   *)
MadeUnder(p) ==
  ~projects[p].leaf =>
    \E n \in SBOM : \E k \in DOMAIN ParentProjectNames(n) :
      /\ Pushed(n)
      /\ projects[p].name = ParentProjectNames(n)[k]
      /\ k > 1 => /\ projects[p].parent \in DOMAIN projects
                  /\ projects[projects[p].parent].name = ParentProjectNames(n)[k - 1]

(* A parent is only asked for once there is one, of a project found. *)
Checking(w) == job[w].at = "check" => job[w].found # {} /\ job[w].path # <<>>

OInv ==
  /\ OnlyOneOfAName
  /\ \A p \in DOMAIN projects : MadeUnder(p)
  /\ \A w \in Worker : Checking(w)

LEMMA MadeUnderStays ==
  ASSUME Grows, NEW p \in DOMAIN projects, MadeUnder(p)
  PROVE  MadeUnder(p)'
<1>1. projects'[p] = projects[p]
  BY DEF Grows
<1>2. CASE projects[p].leaf
  BY <1>1, <1>2 DEF MadeUnder
<1>3. CASE ~projects[p].leaf
  <2>1. PICK n \in SBOM : \E k \in DOMAIN ParentProjectNames(n) :
          /\ Pushed(n)
          /\ projects[p].name = ParentProjectNames(n)[k]
          /\ k > 1 => /\ projects[p].parent \in DOMAIN projects
                      /\ projects[projects[p].parent].name = ParentProjectNames(n)[k - 1]
    BY <1>3 DEF MadeUnder
  <2>2. Pushed(n)' = Pushed(n) /\ ParentProjectNames(n)' = ParentProjectNames(n)
    BY NamesStay DEF Grows
  <2> QED
    BY <1>1, <2>1, <2>2 DEF Grows, MadeUnder
<1> QED
  BY <1>2, <1>3

(* A step that makes no project, and asks for a parent only of what it found. *)
LEMMA OwnUnmade ==
  ASSUME IInv, OInv, UNCHANGED <<templates, projects>>, \A w \in Worker : Checking(w)'
  PROVE  OInv'
<1>1. Grows
  BY NoneAdded DEF IInv
<1>2. \A p \in DOMAIN projects' : MadeUnder(p)'
  BY <1>1, MadeUnderStays DEF OInv
<1>3. OnlyOneOfAName'
  BY DEF OInv, OnlyOneOfAName
<1> QED
  BY <1>2, <1>3 DEF OInv

(* A worker whose job is none, goes elsewhere, or looks among some left. *)
LEMMA CheckingAfter ==
  ASSUME IInv, OInv, NEW w \in Worker,
         NEW j, job' = [job EXCEPT ![w] = j],
         j.at = "check" => j.found # {} /\ j.path # <<>>
  PROVE  \A v \in Worker : Checking(v)'
<1>1. job'[w] = j /\ \A v \in Worker \ {w} : job'[v] = job[v]
  BY DEF IInv, TypeOK
<1> QED
  BY <1>1 DEF OInv, Checking

LEMMA OwnFindOrCheck ==
  ASSUME IInv, OInv, NEW w \in Worker, FindProjects(w) \/ CheckParent(w)
  PROVE  OInv'
<1>1. UNCHANGED <<templates, projects>>
  BY DEF FindProjects, CheckParent
<1>2. ASSUME NEW at, NEW path, NEW found, Goto(w, at, path, found),
             at = "check" => found # {} /\ path # <<>>
      PROVE  OInv'
  <2> DEFINE j == [at |-> at, sbom |-> job[w].sbom, path |-> path, found |-> found]
  <2>1. job' = [job EXCEPT ![w] = j] /\ j.at = at /\ j.path = path /\ j.found = found
    BY <1>2 DEF Goto
  <2> HIDE DEF j
  <2> QED
    BY <1>1, <1>2, <2>1, CheckingAfter, OwnUnmade
<1>3. ASSUME NEW path, Continue(w, path) PROVE OInv'
  <2>1. (IF Len(path) < Len(ParentProjectNames(job[w].sbom)) THEN "find" ELSE "upload") # "check"
    OBVIOUS
  <2> QED
    BY <1>2, <1>3, <2>1 DEF Continue
<1>4. ASSUME Fails(w) PROVE OInv'
  BY <1>1, <1>4, IdleType, CheckingAfter, OwnUnmade DEF Fails
<1>5. CASE FindProjects(w)
  <2>1. CASE Goto(w, "create", job[w].path, {})
    BY <1>2, <2>1
  <2>2. CASE job[w].path # <<>> /\ \E found : found # {} /\ Goto(w, "check", job[w].path, found)
    BY <1>2, <2>2
  <2>3. CASE \E path : Continue(w, path)
    BY <1>3, <2>3
  <2> QED
    BY <1>5, <2>1, <2>2, <2>3 DEF FindProjects
<1>6. CASE CheckParent(w)
  <2>1. CASE \E path : Continue(w, path)
    BY <1>3, <2>1
  <2>2. CASE \E p \in job[w].found :
               job[w].found # {p} /\ Goto(w, "check", job[w].path, job[w].found \ {p})
    <3>1. PICK p \in job[w].found :
               job[w].found # {p} /\ Goto(w, "check", job[w].path, job[w].found \ {p})
      BY <2>2
    <3>2. job[w].found \ {p} # {}
      BY <3>1
    <3>3. job[w].path # <<>>
      BY <1>6 DEF OInv, Checking, CheckParent
    <3> QED
      BY <1>2, <3>1, <3>2, <3>3
  <2> QED
    BY <1>4, <1>6, <2>1, <2>2 DEF CheckParent
<1> QED
  BY <1>5, <1>6

(* The server makes a project of a name it does not have, under the        *)
(* project that the names of the message lead to.                          *)
LEMMA OwnCreate ==
  ASSUME IInv, OInv, NEW w \in Worker, CreateProject(w)
  PROVE  OInv'
<1> PICK new, m, path : new = Len(projects) + 1 /\ m = job[w].sbom /\ path = job[w].path
  OBVIOUS
<1>1. templates' = templates
  BY DEF CreateProject
<1>2. \A v \in Worker : Checking(v)'
  <2>1. ASSUME Fails(w) PROVE \A v \in Worker : Checking(v)'
    BY <2>1, IdleType, CheckingAfter DEF Fails
  <2>2. ASSUME Continue(w, Append(path, Created)) PROVE \A v \in Worker : Checking(v)'
    <3> DEFINE at == IF Len(Append(path, Created)) < Len(ParentProjectNames(m))
                     THEN "find" ELSE "upload"
               j == [at |-> at, sbom |-> m, path |-> Append(path, Created), found |-> {}]
    <3>1. job' = [job EXCEPT ![w] = j]
      BY <2>2 DEF Continue, Goto
    <3>2. j.at # "check"
      OBVIOUS
    <3> HIDE DEF j
    <3> QED
      BY <3>1, <3>2, CheckingAfter
  <2> QED
    BY <2>1, <2>2 DEF CreateProject
<1>3. CASE projects' = projects
  BY <1>1, <1>2, <1>3, OwnUnmade
<1>4. CASE ~Refused(NameSought(w)) /\ projects' = Append(projects, Made(w))
  <2>1. /\ Len(path) + 1 \in DOMAIN ParentProjectNames(m)
        /\ NameSought(w) \in Name
    BY NameSoughtIsName DEF IInv, CreateProject
  <2>2. /\ m \in SBOM /\ path \in Seq(DOMAIN projects) /\ DOMAIN projects \subseteq Nat
        /\ Pushed(m) /\ Down(m, path)
    BY JobParts DEF IInv, TypeOK, JobGood, CreateProject
  <2>3. ParentRef(path) \in Nat
    BY <2>2 DEF ParentRef, NoParent
  <2>4. /\ Made(w) \in ProjectRecord /\ Made(w).name = NameSought(w)
        /\ Made(w).parent = ParentRef(path) /\ Made(w).leaf = FALSE
    BY <2>1, <2>3 DEF Made, Project, ProjectRecord
  <2>5. /\ Grows
        /\ DOMAIN projects' = DOMAIN projects \cup {new}
        /\ new \notin DOMAIN projects
        /\ projects'[new] = Made(w)
    BY <1>1, <1>4, <2>4, OneAdded DEF IInv
  <2>6. OnlyOneOfAName'
    <3> SUFFICES ASSUME RefusesDuplicates PROVE OnlyOneOfAName'
      BY DEF OnlyOneOfAName
    <3>1. \A p \in DOMAIN projects : projects[p].name = NameSought(w) => projects[p].leaf
      BY <1>4 DEF Refused
    <3> QED
      BY <2>4, <2>5, <3>1 DEF OInv, OnlyOneOfAName, Grows
  <2>7. MadeUnder(new)'
    <3>1. Pushed(m)' /\ ParentProjectNames(m)' = ParentProjectNames(m)
      BY <1>1, <2>2, NamesStay
    <3>2. projects'[new].name = ParentProjectNames(m)[Len(path) + 1]
      BY <2>4, <2>5 DEF NameSought
    <3>3. ASSUME Len(path) + 1 > 1
          PROVE  /\ projects'[new].parent \in DOMAIN projects'
                 /\ projects'[projects'[new].parent].name
                      = ParentProjectNames(m)[(Len(path) + 1) - 1]
      <4>1. Len(path) \in DOMAIN path /\ path # <<>> /\ Len(path) \in Nat
        BY <2>2, <3>3
      <4>2. projects'[new].parent = path[Len(path)]
        BY <2>4, <2>5, <4>1 DEF ParentRef
      <4>3. /\ path[Len(path)] \in DOMAIN projects
            /\ projects[path[Len(path)]].name = ParentProjectNames(m)[Len(path)]
        BY <2>2, <4>1 DEF Down
      <4> QED
        BY <2>5, <4>1, <4>2, <4>3 DEF Grows
    <3> QED
      BY <2>1, <2>2, <3>1, <3>2, <3>3 DEF MadeUnder
  <2>8. \A p \in DOMAIN projects' : MadeUnder(p)'
    BY <2>5, <2>7, MadeUnderStays DEF OInv
  <2> QED
    BY <1>2, <2>6, <2>8 DEF OInv
<1> QED
  BY <1>3, <1>4 DEF CreateProject

(* What Dependency Track makes for the SBOM itself is a leaf. *)
LEMMA OwnUpload ==
  ASSUME IInv, OInv, NEW w \in Worker, Upload(w)
  PROVE  OInv'
<1>1. templates' = templates
  BY DEF Upload
<1>2. \A v \in Worker : Checking(v)'
  <2>1. ASSUME Fails(w) PROVE \A v \in Worker : Checking(v)'
    BY <2>1, IdleType, CheckingAfter DEF Fails
  <2>2. ASSUME Goto(w, "poll", job[w].path, {}) PROVE \A v \in Worker : Checking(v)'
    <3> DEFINE j == [at |-> "poll", sbom |-> job[w].sbom, path |-> job[w].path, found |-> {}]
    <3>1. job' = [job EXCEPT ![w] = j] /\ j.at # "check"
      BY <2>2 DEF Goto
    <3> HIDE DEF j
    <3> QED
      BY <3>1, CheckingAfter
  <2> QED
    BY <2>1, <2>2 DEF Upload
<1>3. CASE projects' = projects
  BY <1>1, <1>2, <1>3, OwnUnmade
<1>4. CASE projects' # projects /\ \E p : AutoCreated(w, p)
  <2> PICK new, leaf : /\ new = Len(projects) + 1
                       /\ leaf = Project(ProjectName(job[w].sbom), ParentRef(job[w].path), TRUE)
    OBVIOUS
  <2>1. leaf \in ProjectRecord /\ leaf.leaf
    <3>1. /\ job[w].sbom \in SBOM /\ job[w].path \in Seq(DOMAIN projects)
          /\ DOMAIN projects \subseteq Nat
      BY JobParts DEF IInv, TypeOK
    <3>2. ParentRef(job[w].path) \in Nat
      BY <3>1 DEF ParentRef, NoParent
    <3>3. ProjectName(job[w].sbom) \in Name
      BY <3>1, WriteInfo DEF IInv, TypeOK
    <3> QED
      BY <3>2, <3>3 DEF Project, ProjectRecord
  <2>2. projects' = Append(projects, leaf)
    BY <1>4 DEF AutoCreated
  <2>3. /\ Grows
        /\ DOMAIN projects' = DOMAIN projects \cup {new}
        /\ projects'[new] = leaf
    BY <1>1, <2>1, <2>2, OneAdded DEF IInv
  <2>4. OnlyOneOfAName'
    BY <2>1, <2>3 DEF OInv, OnlyOneOfAName, Grows
  <2>5. \A p \in DOMAIN projects' : MadeUnder(p)'
    <3>1. MadeUnder(new)'
      BY <2>1, <2>3 DEF MadeUnder
    <3> QED
      BY <2>3, <3>1, MadeUnderStays DEF OInv
  <2> QED
    BY <1>2, <2>4, <2>5 DEF OInv
<1> QED
  BY <1>3, <1>4 DEF Upload

LEMMA OwnElsewhere ==
  ASSUME IInv, OInv,
         \/ \E w \in Worker :
              \/ \E m \in SBOM : PostProcess(w, m)
              \/ PanicOnUpload(w) \/ Processed(w) \/ CallFails(w)
         \/ Crash
         \/ UNCHANGED vars
  PROVE  OInv'
<1>1. UNCHANGED <<templates, projects>>
  BY DEF PostProcess, PanicOnUpload, Processed, CallFails, Crash, vars
<1>2. \A m \in SBOM : Started(m).at # "check"
  BY DEF Started
<1>3. ASSUME NEW w \in Worker, NEW m \in SBOM, PostProcess(w, m)
      PROVE  \A v \in Worker : Checking(v)'
  <2>1. CASE job' = [job EXCEPT ![w] = Started(m)]
    BY <1>2, <2>1, CheckingAfter
  <2>2. CASE job' = job
    BY <2>2 DEF OInv, Checking
  <2> QED
    BY <1>3, <2>1, <2>2 DEF PostProcess
<1>4. ASSUME NEW w \in Worker, PanicOnUpload(w) \/ Processed(w) \/ CallFails(w)
      PROVE  \A v \in Worker : Checking(v)'
  <2>1. job' = [job EXCEPT ![w] = Idle]
    BY <1>4 DEF PanicOnUpload, Processed, CallFails, Fails, Succeeds
  <2> QED
    BY <2>1, IdleType, CheckingAfter
<1>5. ASSUME Crash PROVE \A v \in Worker : Checking(v)'
  BY <1>5, IdleType DEF Crash, Checking
<1>6. ASSUME UNCHANGED vars PROVE \A v \in Worker : Checking(v)'
  BY <1>6 DEF OInv, Checking, vars
<1> QED
  BY <1>1, <1>3, <1>4, <1>5, <1>6, OwnUnmade

LEMMA OwnInit == Init => OInv
<1> SUFFICES ASSUME Init PROVE OInv
  OBVIOUS
<1>1. DOMAIN projects = {} /\ \A w \in Worker : job[w] = Idle
  BY DEF Init
<1> QED
  BY <1>1, IdleType DEF OInv, OnlyOneOfAName, Checking

LEMMA OwnNext == IInv /\ OInv /\ [Next]_vars => OInv'
BY OwnFindOrCheck, OwnCreate, OwnUpload, OwnElsewhere DEF Next

(* Two projects of one name of m's own are one, so that its parent is that *)
(* the push has come down from.                                            *)
LEMMA OwnPlaced == IInv /\ OInv => OwnNamesArePlaced
<1> SUFFICES ASSUME IInv, OInv, RefusesDuplicates,
                    NEW w \in Worker, job[w].at = "check", OwnNames(job[w].sbom)
             PROVE  /\ job[w].found # {}
                    /\ \A p \in job[w].found : projects[p].parent = ParentRef(job[w].path)
  BY DEF OwnNamesArePlaced
<1>1. job[w].found # {} /\ job[w].path # <<>>
  BY DEF OInv, Checking
<1>2. ASSUME NEW p \in job[w].found
      PROVE  projects[p].parent = ParentRef(job[w].path)
  <2>1. PICK m, path, k : m = job[w].sbom /\ path = job[w].path /\ k = Len(path) + 1
    OBVIOUS
  <2>2. /\ m \in SBOM /\ path \in Seq(DOMAIN projects) /\ path # <<>>
        /\ p \in DOMAIN projects
        /\ Down(m, path) /\ projects[p].name = ParentProjectNames(m)[k]
        /\ OwnNames(m)
    BY <1>1, <2>1, JobParts DEF IInv, JobGood, NameSought
  <2>3. k \in DOMAIN ParentProjectNames(m)
    BY <2>1, NameSoughtIsName DEF IInv
  <2>4. /\ Len(path) \in DOMAIN path /\ Len(path) = k - 1 /\ k \in Nat /\ k > 1
        /\ Len(path) \in Nat \ {0}
    BY <2>1, <2>2
  <2>5. PICK q : q = path[Len(path)]
    OBVIOUS
  <2>6. /\ q \in DOMAIN projects /\ k - 1 \in DOMAIN ParentProjectNames(m)
        /\ projects[q].name = ParentProjectNames(m)[k - 1]
    BY <2>2, <2>4, <2>5 DEF Down
  <2>7. ASSUME NEW r \in DOMAIN projects, NEW i \in DOMAIN ParentProjectNames(m),
               projects[r].name = ParentProjectNames(m)[i]
        PROVE  ~projects[r].leaf
    <3>1. PICK n \in SBOM :
            /\ Pushed(n)
            /\ \/ ~projects[r].leaf
               \/ projects[r].name = ProjectName(n)
      BY <2>7, MadeAsAsked DEF ProjectsAreAskedFor
    <3> QED
      BY <2>2, <2>7, <3>1 DEF OwnNames
  <2>8. PICK n \in SBOM : \E l \in DOMAIN ParentProjectNames(n) :
          /\ Pushed(n)
          /\ projects[p].name = ParentProjectNames(n)[l]
          /\ l > 1 => /\ projects[p].parent \in DOMAIN projects
                      /\ projects[projects[p].parent].name = ParentProjectNames(n)[l - 1]
    BY <2>2, <2>3, <2>7 DEF OInv, MadeUnder
  <2>9. PICK l \in DOMAIN ParentProjectNames(n) :
          /\ Pushed(n)
          /\ projects[p].name = ParentProjectNames(n)[l]
          /\ l > 1 => /\ projects[p].parent \in DOMAIN projects
                      /\ projects[projects[p].parent].name = ParentProjectNames(n)[l - 1]
    BY <2>8
  <2>10. \A i \in 1 .. k : l = k /\ ParentProjectNames(n)[i] = ParentProjectNames(m)[i]
    <3>1. ParentProjectNames(n)[l] = ParentProjectNames(m)[k]
      BY <2>2, <2>9
    <3> QED
      BY <2>2, <2>3, <2>9, <3>1 DEF OwnNames
  <2>11. l = k /\ ParentProjectNames(n)[k - 1] = ParentProjectNames(m)[k - 1]
    <3>1. k - 1 \in 1 .. k
      BY <2>4
    <3> QED
      BY <2>10, <3>1
  <2>12. /\ projects[p].parent \in DOMAIN projects
         /\ projects[projects[p].parent].name = projects[q].name
    BY <2>4, <2>6, <2>9, <2>11
  <2>13. ~projects[q].leaf /\ ~projects[projects[p].parent].leaf
    BY <2>6, <2>7, <2>12
  <2>14. projects[p].parent = q
    BY <2>6, <2>12, <2>13 DEF OInv, OnlyOneOfAName
  <2> QED
    BY <2>1, <2>2, <2>5, <2>14 DEF ParentRef
<1> QED
  BY <1>1, <1>2

(* With names that are its own a push is never refused for a parent that   *)
(* is not its parent: for all templates and names, however many workers    *)
(* make the same projects at once and wherever their calls fail.           *)
THEOREM OwnNamesPlaced == Spec => []OwnNamesArePlaced
<1>1. Init => IInv /\ OInv
  BY InvInit, OwnInit
<1>2. IInv /\ OInv /\ [Next]_vars => (IInv /\ OInv)'
  BY InvNext, OwnNext
<1>3. IInv /\ OInv => OwnNamesArePlaced
  BY OwnPlaced
<1> QED
  BY <1>1, <1>2, <1>3, PTL DEF Spec
=============================================================================
