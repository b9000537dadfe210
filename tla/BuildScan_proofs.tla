-------------------------- MODULE BuildScan_proofs --------------------------
(***************************************************************************)
(* Theorems of BuildScan for every set of builds and every bound.          *)
(*                                                                         *)
(* A build deploys before it ends, and never again afterwards.  So what    *)
(* has to be kept is that whoever takes a build for a successful one is    *)
(* right, however old the copy he looks at: then the images he read        *)
(* afterwards cover what the build deployed.                               *)
(***************************************************************************)
EXTENDS BuildScan, TLAPS

-----------------------------------------------------------------------------
(* A copy never calls a build successful that is not. *)
CopyOK(b, pod) == pod.phase = "Succeeded" => store[b].phase = "Succeeded"

(* The stored pod: whose build has ended was started, only a successful    *)
(* build is marked, what it deployed is in the cache, and was scanned.     *)
StoreGood ==
  \A b \in Name :
    /\ store[b].phase # "Running" => store[b].rv > 0
    /\ store[b].phase = "Succeeded" => built[b] <= deployedSeen
    /\ store[b].marked => /\ store[b].phase = "Succeeded"
                          /\ scanned[b] > 0 /\ scanned[b] >= built[b]

CopiesGood ==
  \A b \in Name : /\ CopyOK(b, cache[b])
                  /\ \A i \in 1 .. Len(watch[b]) : CopyOK(b, watch[b][i])

JobGood ==
  \A b \in Name : job[b].at # "idle" =>
    /\ job[b].obj.phase = "Succeeded" /\ store[b].phase = "Succeeded"
    /\ job[b].images >= built[b]
    /\ job[b].at = "mark" => scanned[b] > 0 /\ scanned[b] >= built[b]

(* The inductive invariant. *)
IInv == TypeOK /\ deployedSeen <= deployed /\ StoreGood /\ CopiesGood /\ JobGood

-----------------------------------------------------------------------------
(* Types of the pods and reconciles the actions build. *)

LEMMA PodTypes == NewPod \in BuildPod /\ NoPod \in BuildPod
BY DEF NewPod, NoPod, BuildPod

LEMMA ChangedPod ==
  ASSUME NEW pod \in BuildPod
  PROVE  /\ [pod EXCEPT !.exists = FALSE] \in BuildPod
         /\ [pod EXCEPT !.marked = TRUE] \in BuildPod
         /\ \A phase \in {"Running", "Succeeded", "Failed"} :
              [pod EXCEPT !.phase = phase] \in BuildPod
         /\ \A rv \in Nat : [pod EXCEPT !.rv = rv] \in BuildPod
BY DEF BuildPod

LEMMA JobParts ==
  ASSUME NEW j \in Jobs
  PROVE  /\ j.obj \in BuildPod /\ j.images \in Nat /\ j.left \subseteq Name
         /\ j.at # "idle" => j.images \in Nat \ {0}
         /\ j.at \in {"idle", "list", "kill", "mark"}
         /\ j.at # "idle" =>
              j \in [at : {"list", "kill", "mark"}, obj : BuildPod,
                     images : Nat \ {0}, left : SUBSET Name]
BY PodTypes DEF Jobs, Idle

LEMMA JobStep ==
  ASSUME NEW j \in Jobs, j.at # "idle"
  PROVE  /\ \A at \in {"list", "kill", "mark"} : [j EXCEPT !.at = at] \in Jobs
         /\ \A left \in SUBSET Name : [j EXCEPT !.left = left] \in Jobs
         /\ \A left \in SUBSET Name : [j EXCEPT !.at = "kill", !.left = left] \in Jobs
BY JobParts DEF Jobs

(* An accepted write of a pod: the stored pod afterwards, and the types. *)
LEMMA PodWritten ==
  ASSUME NEW b \in Name, NEW pod \in BuildPod, TypeOK, Write(b, pod)
  PROVE  /\ store' \in [Name -> BuildPod]
         /\ cache' \in [Name -> BuildPod]
         /\ watch' \in [Name -> Seq(BuildPod)]
         /\ store'[b] = [pod EXCEPT !.rv = store[b].rv + 1]
         /\ \A n \in Name : n # b => store'[n] = store[n]
         /\ cache' = cache
         /\ watch' = [watch EXCEPT ![b] = Append(watch[b], store'[b])]
<1>1. store[b].rv + 1 \in Nat
  BY DEF TypeOK, BuildPod
<1>2. Versioned(b, pod) \in BuildPod /\ Versioned(b, pod) = [pod EXCEPT !.rv = store[b].rv + 1]
  BY <1>1, ChangedPod DEF Versioned
<1>3. Append(watch[b], Versioned(b, pod)) \in Seq(BuildPod)
  BY <1>2 DEF TypeOK
<1> QED
  BY <1>2, <1>3 DEF Write, TypeOK

(* A write that does not take a success back leaves every copy right. *)
LEMMA CopiesAfterWrite ==
  ASSUME NEW b \in Name, NEW pod \in BuildPod, TypeOK, CopiesGood, Write(b, pod),
         store[b].phase = "Succeeded" => pod.phase = "Succeeded"
  PROVE  /\ CopiesGood'
         /\ \A n \in Name : store[n].phase = "Succeeded" => store'[n].phase = "Succeeded"
<1>1. /\ store'[b] = [pod EXCEPT !.rv = store[b].rv + 1]
      /\ store'[b] \in BuildPod
      /\ \A n \in Name : n # b => store'[n] = store[n]
      /\ cache' = cache
      /\ watch' = [watch EXCEPT ![b] = Append(watch[b], store'[b])]
  BY PodWritten
<1>2. store'[b].phase = pod.phase
  BY <1>1 DEF BuildPod
<1>3. \A n \in Name : store[n].phase = "Succeeded" => store'[n].phase = "Succeeded"
  BY <1>1, <1>2
<1>4. ASSUME NEW n \in Name, NEW i \in 1 .. Len(watch'[n]) PROVE CopyOK(n, watch[n][i])'
  <2>1. CASE n # b
    <3>1. watch'[n] = watch[n]
      BY <1>1, <2>1 DEF TypeOK
    <3> QED
      BY <1>3, <1>4, <3>1 DEF CopiesGood, CopyOK
  <2>2. CASE n = b
    <3>1. watch[b] \in Seq(BuildPod) /\ watch'[b] = Append(watch[b], store'[b])
      BY <1>1 DEF TypeOK
    <3>2. CASE i \in 1 .. Len(watch[b])
      <4>1. watch'[b][i] = watch[b][i]
        BY <3>1, <3>2
      <4> QED
        BY <1>3, <2>2, <3>2, <4>1 DEF CopiesGood, CopyOK
    <3>3. CASE i = Len(watch[b]) + 1
      <4>1. watch'[b][i] = store'[b]
        BY <3>1, <3>3
      <4> QED
        BY <2>2, <4>1 DEF CopyOK
    <3> QED
      BY <1>4, <2>2, <3>1, <3>2, <3>3
  <2> QED
    BY <2>1, <2>2
<1>5. \A n \in Name : CopyOK(n, cache[n])'
  BY <1>1, <1>3 DEF CopiesGood, CopyOK
<1> QED
  BY <1>3, <1>4, <1>5 DEF CopiesGood

(* No event and no write: every copy stays right. *)
LEMMA CopiesUntouched == CopiesGood /\ UNCHANGED apiVars => CopiesGood'
BY DEF CopiesGood, CopyOK, apiVars

-----------------------------------------------------------------------------
(* The invariant is inductive: one lemma per kind of action. *)

LEMMA InvInit == Init => IInv
<1> SUFFICES ASSUME Init PROVE IInv
  OBVIOUS
<1>1. TypeOK
  BY PodTypes, BoundsAssumption DEF Init, APIInit, TypeOK, Jobs
<1>2. StoreGood /\ CopiesGood /\ JobGood
  BY DEF Init, APIInit, StoreGood, CopiesGood, CopyOK, JobGood, Idle, NoPod, NewPod
<1> QED
  BY <1>1, <1>2 DEF Init, IInv

(* What Lagoon writes: a new pod, an end, a label, a removal. *)
LEMMA InvLagoonWrites ==
  ASSUME NEW b \in Name, IInv, NEW pod \in BuildPod, Write(b, pod),
         UNCHANGED <<scanVars, deployVars, queue, job>>, disturbances' \in Nat,
         store[b].phase # "Running" => pod.phase = store[b].phase,
         pod.phase = "Succeeded" => built[b] <= deployedSeen,
         pod.marked => store[b].marked
  PROVE  IInv'
<1>1. /\ store' \in [Name -> BuildPod] /\ cache' \in [Name -> BuildPod]
      /\ watch' \in [Name -> Seq(BuildPod)]
      /\ store'[b] = [pod EXCEPT !.rv = store[b].rv + 1]
      /\ \A n \in Name : n # b => store'[n] = store[n]
  BY PodWritten DEF IInv
<1>2. /\ store'[b].phase = pod.phase /\ store'[b].marked = pod.marked
      /\ store'[b].rv > 0
  BY <1>1 DEF BuildPod, IInv, TypeOK
<1>3. CopiesGood' /\ \A n \in Name : store[n].phase = "Succeeded" => store'[n].phase = "Succeeded"
  BY CopiesAfterWrite DEF IInv
<1>4. TypeOK' /\ (deployedSeen <= deployed)'
  BY <1>1 DEF IInv, TypeOK, scanVars, deployVars
<1>5. StoreGood'
  BY <1>1, <1>2 DEF IInv, StoreGood, scanVars, deployVars
<1>6. JobGood'
  BY <1>3 DEF IInv, JobGood, scanVars, deployVars
<1> QED
  BY <1>3, <1>4, <1>5, <1>6 DEF IInv

LEMMA InvLagoon ==
  ASSUME NEW b \in Name, IInv, BuildStarts(b) \/ BuildEnds(b) \/ Touch(b)
  PROVE  IInv'
<1> USE DEF IInv
<1>1. store[b] \in BuildPod
  BY DEF TypeOK
<1>2. CASE BuildStarts(b)
  <2>1. store[b].phase = "Running"
    BY <1>1, <1>2 DEF BuildStarts, StoreGood
  <2>2. NewPod \in BuildPod /\ NewPod.phase = "Running" /\ ~NewPod.marked
    BY PodTypes DEF NewPod
  <2>3. /\ Write(b, NewPod) /\ disturbances' \in Nat
        /\ UNCHANGED <<scanVars, deployVars, queue, job>>
    BY <1>2 DEF BuildStarts, Disturbance, TypeOK
  <2> QED
    BY <2>1, <2>2, <2>3, InvLagoonWrites
<1>3. CASE BuildEnds(b)
  <2>1. PICK phase \in {"Failed", "Succeeded"} :
          /\ Write(b, [store[b] EXCEPT !.phase = phase])
          /\ phase = "Succeeded" => deployedSeen >= built[b]
    BY <1>3 DEF BuildEnds
  <2>2. [store[b] EXCEPT !.phase = phase] \in BuildPod
    BY <1>1, ChangedPod
  <2>3. /\ [store[b] EXCEPT !.phase = phase].phase = phase
        /\ [store[b] EXCEPT !.phase = phase].marked = store[b].marked
    BY <1>1 DEF BuildPod
  <2>4. built[b] \in Nat /\ deployedSeen \in Nat
    BY DEF TypeOK
  <2>5. /\ store[b].phase = "Running" /\ disturbances' \in Nat
        /\ UNCHANGED <<scanVars, deployVars, queue, job>>
    BY <1>3 DEF BuildEnds, TypeOK
  <2> QED
    BY <2>1, <2>2, <2>3, <2>4, <2>5, InvLagoonWrites
<1>4. CASE Touch(b)
  <2>1. /\ disturbances' \in Nat /\ store[b].exists
        /\ UNCHANGED <<scanVars, deployVars, queue, job>>
    BY <1>4 DEF Touch, Disturbance, TypeOK
  <2>2. CASE Write(b, store[b])
    BY <1>1, <2>1, <2>2, InvLagoonWrites DEF StoreGood
  <2>3. CASE Remove(b)
    <3>1. Write(b, [store[b] EXCEPT !.exists = FALSE])
      BY <2>1, <2>3 DEF Remove
    <3>2. /\ [store[b] EXCEPT !.exists = FALSE].phase = store[b].phase
          /\ [store[b] EXCEPT !.exists = FALSE].marked = store[b].marked
      BY <1>1 DEF BuildPod
    <3>3. [store[b] EXCEPT !.exists = FALSE] \in BuildPod
      BY <1>1, ChangedPod
    <3> QED
      BY <2>1, <3>1, <3>2, <3>3, InvLagoonWrites DEF StoreGood
  <2> QED
    BY <1>4, <2>2, <2>3 DEF Touch
<1> QED
  BY <1>2, <1>3, <1>4

(* A running build has no copy that calls it successful, and no reconcile. *)
LEMMA InvBuildDeploys ==
  ASSUME NEW b \in Name, IInv, BuildDeploys(b)
  PROVE  IInv'
<1> USE DEF IInv
<1>1. deployed \in Nat /\ deployedSeen \in Nat /\ built \in [Name -> Nat]
  BY DEF TypeOK
<1>2. /\ deployed' = deployed + 1 /\ deployedSeen' = deployedSeen
      /\ built' = [built EXCEPT ![b] = deployed + 1]
      /\ UNCHANGED <<apiVars, scanVars, queue, job, disturbances>>
      /\ store[b].phase = "Running"
  BY DEF BuildDeploys
<1>3. TypeOK' /\ (deployedSeen <= deployed)'
  BY <1>1, <1>2 DEF TypeOK, apiVars, scanVars
<1>4. \A n \in Name : n # b => built'[n] = built[n]
  BY <1>1, <1>2
<1>5. StoreGood' /\ JobGood'
  BY <1>2, <1>4 DEF StoreGood, JobGood, apiVars, scanVars
<1>6. CopiesGood'
  BY <1>2, CopiesUntouched
<1> QED
  BY <1>3, <1>5, <1>6

LEMMA InvDeliver ==
  ASSUME NEW b \in Name, IInv, Deliver(b)
  PROVE  IInv'
<1> USE DEF IInv
<1>1. watch[b] \in Seq(BuildPod) /\ watch[b] # <<>> /\ Len(watch[b]) \in Nat \ {0}
  BY DEF Deliver, Observe, TypeOK
<1>2. /\ Head(watch[b]) = watch[b][1] /\ Head(watch[b]) \in BuildPod
      /\ Tail(watch[b]) \in Seq(BuildPod)
      /\ \A i \in 1 .. Len(Tail(watch[b])) :
           /\ i + 1 \in 1 .. Len(watch[b])
           /\ Tail(watch[b])[i] = watch[b][i + 1]
  BY <1>1
<1>3. /\ cache' = [cache EXCEPT ![b] = Head(watch[b])]
      /\ watch' = [watch EXCEPT ![b] = Tail(watch[b])]
      /\ store' = store
      /\ UNCHANGED <<scanVars, deployVars, job, disturbances>>
  BY DEF Deliver, Observe
<1>4. TypeOK' /\ (deployedSeen <= deployed)'
  <2>1. cache' \in [Name -> BuildPod] /\ watch' \in [Name -> Seq(BuildPod)]
    BY <1>2, <1>3 DEF TypeOK
  <2>2. queue' \subseteq Name
    BY DEF Deliver, TypeOK
  <2> QED
    BY <1>3, <2>1, <2>2 DEF TypeOK, scanVars, deployVars
<1>5. StoreGood' /\ JobGood'
  BY <1>3 DEF StoreGood, JobGood, scanVars, deployVars
<1>6. ASSUME NEW n \in Name
      PROVE  CopyOK(n, cache[n])' /\ \A i \in 1 .. Len(watch'[n]) : CopyOK(n, watch[n][i])'
  <2>1. CASE n # b
    <3>1. cache'[n] = cache[n] /\ watch'[n] = watch[n]
      BY <1>3, <2>1 DEF TypeOK
    <3> QED
      BY <1>3, <3>1 DEF CopiesGood, CopyOK
  <2>2. CASE n = b
    <3>1. cache'[n] = watch[b][1] /\ watch'[n] = Tail(watch[b])
      BY <1>2, <1>3, <2>2 DEF TypeOK
    <3>2. 1 \in 1 .. Len(watch[b])
      BY <1>1
    <3> QED
      BY <1>2, <1>3, <2>2, <3>1, <3>2 DEF CopiesGood, CopyOK
  <2> QED
    BY <2>1, <2>2
<1>7. CopiesGood'
  BY <1>6 DEF CopiesGood
<1> QED
  BY <1>4, <1>5, <1>7

(* What leaves builds, deployments, jobs and the history alone. *)
LEMMA InvElsewhere ==
  ASSUME NEW b \in Name, IInv, ScanPodGone(b) \/ DeliverScan(b) \/ Resync(b)
  PROVE  IInv'
<1> USE DEF IInv
<1>1. UNCHANGED <<apiVars, scanned, deployVars, job, disturbances>>
  BY DEF ScanPodGone, DeliverScan, Resync, scanVars
<1>2. TypeOK' /\ (deployedSeen <= deployed)'
  BY <1>1 DEF ScanPodGone, DeliverScan, Resync, scanVars, deployVars, apiVars, TypeOK
<1>3. StoreGood' /\ JobGood'
  BY <1>1 DEF StoreGood, JobGood, apiVars, deployVars
<1> QED
  BY <1>1, <1>2, <1>3, CopiesUntouched

(* The cache of the deployments only moves on. *)
LEMMA InvDeliverDeployments ==
  ASSUME IInv, DeliverDeployments
  PROVE  IInv'
<1> USE DEF IInv
<1>1. /\ deployed \in Nat /\ deployedSeen \in Nat /\ built \in [Name -> Nat]
      /\ deployedSeen <= deployed
  BY DEF TypeOK
<1>2. /\ deployedSeen' = deployed
      /\ UNCHANGED <<apiVars, scanVars, deployed, built, queue, job, disturbances>>
  BY DEF DeliverDeployments
<1>3. TypeOK' /\ (deployedSeen <= deployed)'
  BY <1>1, <1>2 DEF TypeOK, apiVars, scanVars
<1>4. StoreGood' /\ JobGood'
  BY <1>1, <1>2 DEF StoreGood, JobGood, apiVars, scanVars
<1> QED
  BY <1>2, <1>3, <1>4, CopiesUntouched

(* A reconcile that ends, in whichever way. *)
LEMMA EndedJob ==
  ASSUME NEW b \in Name, TypeOK, Done(b) \/ Failed(b)
  PROVE  /\ job' = [job EXCEPT ![b] = Idle] /\ job' \in [Name -> Jobs]
         /\ job'[b].at = "idle" /\ \A n \in Name : n # b => job'[n] = job[n]
         /\ queue' \subseteq Name
<1>1. job' = [job EXCEPT ![b] = Idle]
  BY DEF Done, Failed
<1>2. job \in [Name -> Jobs] /\ Idle \in Jobs
  BY DEF TypeOK, Jobs
<1>3. Idle.at = "idle"
  BY DEF Idle
<1>4. queue' \subseteq Name
  BY DEF Done, Failed, TypeOK
<1> QED
  BY <1>1, <1>2, <1>3, <1>4

(* The images are read after the pod, and cover what its build deployed. *)
LEMMA InvReconcile ==
  ASSUME NEW b \in Name, IInv, Reconcile(b)
  PROVE  IInv'
<1> USE DEF IInv
<1>1. UNCHANGED <<apiVars, scanVars, deployVars, disturbances>>
  BY DEF Reconcile
<1>2. ASSUME job' \in [Name -> Jobs], queue' \subseteq Name, JobGood' PROVE IInv'
  <2>1. TypeOK' /\ (deployedSeen <= deployed)'
    BY <1>1, <1>2 DEF apiVars, scanVars, deployVars, TypeOK
  <2>2. StoreGood'
    BY <1>1 DEF StoreGood, apiVars, scanVars, deployVars
  <2> QED
    BY <1>1, <1>2, <2>1, <2>2, CopiesUntouched
<1>3. CASE Failed(b)
  <2>1. JobGood'
    BY <1>1, <1>3, EndedJob DEF JobGood, apiVars, scanVars, deployVars
  <2> QED
    BY <1>2, <1>3, <2>1, EndedJob
<1>4. CASE UNCHANGED job
  <2>1. JobGood'
    BY <1>1, <1>4 DEF JobGood, apiVars, scanVars, deployVars
  <2>2. queue' \subseteq Name /\ job' \in [Name -> Jobs]
    BY <1>4 DEF Reconcile, Failed, TypeOK
  <2> QED
    BY <1>2, <2>1, <2>2
<1>5. CASE /\ cache[b].exists /\ Finished(cache[b])
           /\ \E images \in Images :
                /\ queue' = queue \ {b}
                /\ job' = [job EXCEPT ![b] = [at |-> "list", obj |-> cache[b],
                                              images |-> images, left |-> {}]]
  <2>1. PICK images \in Images :
               /\ queue' = queue \ {b}
               /\ job' = [job EXCEPT ![b] = [at |-> "list", obj |-> cache[b],
                                             images |-> images, left |-> {}]]
    BY <1>5
  <2>2. images = deployedSeen /\ images \in Nat \ {0}
    BY DEF Images, TypeOK
  <2>3. cache[b] \in BuildPod
    BY DEF TypeOK
  <2>4. [at |-> "list", obj |-> cache[b], images |-> images, left |-> {}] \in Jobs
    BY <2>2, <2>3 DEF Jobs
  <2>5. job' \in [Name -> Jobs] /\ queue' \subseteq Name
    BY <2>1, <2>4 DEF TypeOK
  <2>6. /\ job'[b].at = "list" /\ job'[b].obj = cache[b] /\ job'[b].images = images
        /\ \A n \in Name : n # b => job'[n] = job[n]
    BY <2>1 DEF TypeOK
  <2>7. store[b].phase = "Succeeded" /\ cache[b].phase = "Succeeded"
    BY <1>5 DEF Finished, CopiesGood, CopyOK
  <2>8. deployedSeen >= built[b]
    BY <2>7 DEF StoreGood, TypeOK
  <2>9. JobGood'
    BY <1>1, <2>2, <2>6, <2>7, <2>8 DEF JobGood, apiVars, scanVars, deployVars
  <2> QED
    BY <1>2, <2>5, <2>9
<1> QED
  BY <1>3, <1>4, <1>5 DEF Reconcile

(* The steps of killExistingScans. *)
LEMMA InvKilling ==
  ASSUME NEW b \in Name, IInv, ListScans(b) \/ \E s \in Name : KillScan(b, s)
  PROVE  IInv'
<1> USE DEF IInv
<1>1. /\ UNCHANGED <<apiVars, scanned, deployVars>> /\ scanSeen' = scanSeen
      /\ disturbances' \in Nat /\ scan' \in [Name -> {"none", "started", "terminating"}]
  BY DEF ListScans, KillScan, scanVars, Disturbance, TypeOK
<1>2. job[b] \in Jobs /\ job[b].at # "idle" /\ job[b].at \in {"list", "kill", "mark"}
  BY JobParts DEF ListScans, KillScan, TypeOK
<1>3. job' \in [Name -> Jobs] /\ queue' \subseteq Name /\ JobGood'
  <2>1. CASE Done(b) \/ Failed(b)
    BY <1>1, <2>1, EndedJob DEF JobGood, apiVars, deployVars
  <2>2. CASE queue' = queue /\ \E left \in SUBSET Name :
               job' = [job EXCEPT ![b].at = "kill", ![b].left = left]
    <3>1. PICK left \in SUBSET Name : job' = [job EXCEPT ![b].at = "kill", ![b].left = left]
      BY <2>2
    <3>2. job'[b] = [job[b] EXCEPT !.at = "kill", !.left = left]
          /\ \A n \in Name : n # b => job'[n] = job[n]
      BY <3>1 DEF TypeOK
    <3>3. job'[b] \in Jobs
      BY <1>2, <3>2, JobStep
    <3>4. job' \in [Name -> Jobs]
      <4>1. job \in [Name -> Jobs]
        BY DEF TypeOK
      <4>2. job' = [job EXCEPT ![b] = [job[b] EXCEPT !.at = "kill", !.left = left]]
        BY <3>1, <4>1
      <4>3. [job[b] EXCEPT !.at = "kill", !.left = left] \in Jobs
        BY <3>2, <3>3
      <4> HIDE DEF IInv
      <4> QED
        BY <4>1, <4>2, <4>3, SMT
    <3>5. job'[b].at = "kill" /\ job'[b].obj = job[b].obj /\ job'[b].images = job[b].images
      BY <1>2, <3>2, JobParts
    <3>6. job[b].obj.phase = "Succeeded" /\ store[b].phase = "Succeeded"
          /\ job[b].images >= built[b]
      BY <1>2 DEF JobGood
    <3>7. store' = store /\ built' = built /\ scanned' = scanned
      BY <1>1 DEF apiVars, deployVars
    <3>8. \A n \in Name : n # b => job'[n] = job[n]
      BY <3>2
    <3>9. JobGood'
      BY <3>5, <3>6, <3>7, <3>8 DEF JobGood
    <3> QED
      BY <2>2, <3>4, <3>9 DEF TypeOK
  <2>3. CASE ListScans(b)
    BY <2>2, <2>3 DEF ListScans, ExistingScans
  <2>4. ASSUME NEW s \in Name, KillScan(b, s),
               job' = [job EXCEPT ![b].left = @ \ {s}], UNCHANGED queue
        PROVE  /\ queue' = queue
               /\ \E left \in SUBSET Name :
                    job' = [job EXCEPT ![b].at = "kill", ![b].left = left]
    <3>1. job[b].left \ {s} \in SUBSET Name
      BY <1>2, JobParts
    <3>2. job[b].at = "kill"
      BY <2>4 DEF KillScan
    <3>3. [job[b] EXCEPT !.left = job[b].left \ {s}]
            = [job[b] EXCEPT !.at = "kill", !.left = job[b].left \ {s}]
      BY <1>2, <3>2, JobParts
    <3>4. job' = [job EXCEPT ![b].at = "kill", ![b].left = job[b].left \ {s}]
      BY <2>4, <3>3 DEF TypeOK
    <3> QED
      BY <2>4, <3>1, <3>4
  <2> QED
    BY <2>1, <2>2, <2>3, <2>4 DEF KillScan
<1>4. TypeOK' /\ (deployedSeen <= deployed)'
  BY <1>1, <1>3 DEF TypeOK, apiVars, deployVars
<1>5. StoreGood'
  BY <1>1 DEF StoreGood, apiVars, deployVars
<1> QED
  BY <1>1, <1>3, <1>4, <1>5, CopiesUntouched

(* The scan pod that is made is for images that cover the build's. *)
LEMMA InvCreateScan ==
  ASSUME NEW b \in Name, IInv, CreateScan(b)
  PROVE  IInv'
<1> USE DEF IInv
<1>1. /\ UNCHANGED <<apiVars, deployVars>> /\ scanSeen' = scanSeen
      /\ disturbances' \in Nat /\ job[b].at = "kill"
  BY DEF CreateScan, Disturbance, TypeOK
<1>2. job[b] \in Jobs /\ job[b].images \in Nat \ {0} /\ job[b].at # "idle"
  BY <1>1, JobParts DEF TypeOK
<1>3. /\ store' = store /\ built' = built /\ deployed' = deployed
      /\ deployedSeen' = deployedSeen
  BY <1>1 DEF apiVars, deployVars
<1>4. job[b].images >= built[b] /\ built[b] \in Nat
  BY <1>1, <1>2 DEF JobGood, TypeOK
<1>5. /\ scan' \in [Name -> {"none", "started", "terminating"}]
      /\ scanned' \in [Name -> Nat]
      /\ scanned' = scanned \/ scanned' = [scanned EXCEPT ![b] = job[b].images]
  BY <1>2 DEF CreateScan, TypeOK
<1>6. /\ \A n \in Name : n # b => scanned'[n] = scanned[n]
      /\ scanned'[b] = scanned[b] \/ (scanned'[b] > 0 /\ scanned'[b] >= built[b])
  BY <1>2, <1>4, <1>5 DEF TypeOK
<1>7. StoreGood'
  BY <1>3, <1>6 DEF StoreGood
<1>8. job' \in [Name -> Jobs] /\ queue' \subseteq Name /\ JobGood'
  <2>1. CASE Failed(b)
    BY <1>3, <1>6, <2>1, EndedJob DEF JobGood
  <2>2. CASE /\ job' = [job EXCEPT ![b].at = "mark"] /\ queue' = queue
             /\ scanned' = [scanned EXCEPT ![b] = job[b].images]
    <3>1. job'[b] = [job[b] EXCEPT !.at = "mark"]
          /\ \A n \in Name : n # b => job'[n] = job[n]
      BY <2>2 DEF TypeOK
    <3>2. job'[b] \in Jobs
      BY <1>2, <3>1, JobStep
    <3>3. job' \in [Name -> Jobs]
      BY <2>2, <3>2 DEF TypeOK
    <3>4. job'[b].obj = job[b].obj /\ job'[b].images = job[b].images
      BY <1>2, <3>1, JobParts
    <3>5. job[b].obj.phase = "Succeeded" /\ store[b].phase = "Succeeded"
      BY <1>1, <1>2 DEF JobGood
    <3>6. scanned'[b] > 0 /\ scanned'[b] >= built[b]
      BY <1>2, <1>4, <2>2 DEF TypeOK
    <3>7. JobGood'
      BY <1>3, <1>4, <1>6, <3>1, <3>4, <3>5, <3>6 DEF JobGood
    <3> QED
      BY <2>2, <3>3, <3>7 DEF TypeOK
  <2> QED
    BY <2>1, <2>2 DEF CreateScan
<1>9. TypeOK' /\ (deployedSeen <= deployed)'
  BY <1>1, <1>3, <1>5, <1>8 DEF TypeOK, apiVars
<1> QED
  BY <1>1, <1>7, <1>8, <1>9, CopiesUntouched

(* The mark goes onto a successful build whose scan pod has been made. *)
LEMMA InvMarkScanned ==
  ASSUME NEW b \in Name, IInv, MarkScanned(b)
  PROVE  IInv'
<1> USE DEF IInv
<1> DEFINE pod == job[b].obj
<1>1. /\ UNCHANGED <<scanVars, deployVars>> /\ disturbances' \in Nat /\ job[b].at = "mark"
      /\ Done(b) \/ Failed(b)
  BY DEF MarkScanned, Disturbance, TypeOK
<1>2. pod \in BuildPod
  BY JobParts DEF TypeOK
<1>3. /\ pod.phase = "Succeeded" /\ store[b].phase = "Succeeded"
      /\ scanned[b] > 0 /\ scanned[b] >= built[b]
      /\ built[b] <= deployedSeen
  BY <1>1 DEF JobGood, StoreGood
<1>4. /\ job' \in [Name -> Jobs] /\ job'[b].at = "idle" /\ queue' \subseteq Name
      /\ \A n \in Name : n # b => job'[n] = job[n]
  BY <1>1, EndedJob
<1>5. /\ scan' = scan /\ scanSeen' = scanSeen /\ scanned' = scanned
      /\ built' = built /\ deployed' = deployed /\ deployedSeen' = deployedSeen
  BY <1>1 DEF scanVars, deployVars
<1>6. CASE UNCHANGED apiVars
  <2>1. store' = store
    BY <1>6 DEF apiVars
  <2>2. TypeOK' /\ (deployedSeen <= deployed)'
    BY <1>1, <1>4, <1>5, <1>6 DEF TypeOK, apiVars
  <2>3. StoreGood' /\ JobGood'
    BY <1>4, <1>5, <2>1 DEF StoreGood, JobGood
  <2> QED
    BY <1>6, <2>2, <2>3, CopiesUntouched
<1>7. CASE Write(b, [pod EXCEPT !.marked = TRUE])
  <2> DEFINE marked == [pod EXCEPT !.marked = TRUE]
  <2>1. marked \in BuildPod /\ marked.phase = "Succeeded"
    BY <1>2, <1>3, ChangedPod DEF BuildPod
  <2>2. /\ store' \in [Name -> BuildPod] /\ cache' \in [Name -> BuildPod]
        /\ watch' \in [Name -> Seq(BuildPod)]
        /\ store'[b] = [marked EXCEPT !.rv = store[b].rv + 1]
        /\ \A n \in Name : n # b => store'[n] = store[n]
    BY <1>7, <2>1, PodWritten
  <2>3. store'[b].phase = "Succeeded" /\ store'[b].rv > 0
    BY <2>1, <2>2 DEF BuildPod, TypeOK
  <2>4. CopiesGood'
        /\ \A n \in Name : store[n].phase = "Succeeded" => store'[n].phase = "Succeeded"
    BY <1>7, <2>1, CopiesAfterWrite
  <2>5. TypeOK' /\ (deployedSeen <= deployed)'
    BY <1>1, <1>4, <1>5, <2>2 DEF TypeOK
  <2>6. StoreGood'
    BY <1>3, <1>5, <2>2, <2>3 DEF StoreGood
  <2>7. JobGood'
    BY <1>4, <1>5, <2>4 DEF JobGood
  <2> QED
    BY <2>4, <2>5, <2>6, <2>7
<1> QED
  BY <1>6, <1>7 DEF MarkScanned

LEMMA InvCrash ==
  ASSUME IInv, Crash
  PROVE  IInv'
<1> USE DEF IInv
<1>1. /\ store' = store /\ cache' = store /\ watch' = [n \in Name |-> <<>>]
      /\ scanSeen' = [b \in Name |-> scan[b] # "none"]
      /\ deployedSeen' = deployed /\ queue' = {}
      /\ job' = [b \in Name |-> Idle]
      /\ UNCHANGED <<scan, scanned, deployed, built>> /\ disturbances' \in Nat
  BY DEF Crash, Relist, Disturbance, TypeOK
<1>2. TypeOK' /\ (deployedSeen <= deployed)'
  BY <1>1 DEF TypeOK, Jobs
<1>3. StoreGood'
  BY <1>1 DEF StoreGood, TypeOK
<1>4. CopiesGood'
  BY <1>1 DEF CopiesGood, CopyOK
<1>5. JobGood'
  BY <1>1 DEF JobGood, Idle
<1> QED
  BY <1>2, <1>3, <1>4, <1>5

LEMMA InvNext == IInv /\ [Next]_vars => IInv'
<1> SUFFICES ASSUME IInv, [Next]_vars PROVE IInv'
  OBVIOUS
<1>1. ASSUME NEW b \in Name, BuildStarts(b) \/ BuildEnds(b) \/ Touch(b) PROVE IInv'
  BY <1>1, InvLagoon
<1>2. ASSUME NEW b \in Name, BuildDeploys(b) PROVE IInv'
  BY <1>2, InvBuildDeploys
<1>3. ASSUME NEW b \in Name, Deliver(b) PROVE IInv'
  BY <1>3, InvDeliver
<1>4. ASSUME NEW b \in Name, ScanPodGone(b) \/ DeliverScan(b) \/ Resync(b) PROVE IInv'
  BY <1>4, InvElsewhere
<1>5. ASSUME NEW b \in Name, Reconcile(b) PROVE IInv'
  BY <1>5, InvReconcile
<1>6. ASSUME NEW b \in Name, ListScans(b) \/ \E s \in Name : KillScan(b, s) PROVE IInv'
  BY <1>6, InvKilling
<1>7. ASSUME NEW b \in Name, CreateScan(b) PROVE IInv'
  BY <1>7, InvCreateScan
<1>8. ASSUME NEW b \in Name, MarkScanned(b) PROVE IInv'
  BY <1>8, InvMarkScanned
<1>9. CASE DeliverDeployments
  BY <1>9, InvDeliverDeployments
<1>10. CASE Crash
  BY <1>10, InvCrash
<1>11. CASE UNCHANGED vars
  <2>1. TypeOK' /\ (deployedSeen <= deployed)' /\ StoreGood' /\ JobGood'
    BY <1>11 DEF IInv, vars, TypeOK, StoreGood, JobGood
  <2>2. UNCHANGED apiVars
    BY <1>11 DEF vars, apiVars
  <2> QED
    BY <2>1, <2>2, CopiesUntouched DEF IInv
<1> QED
  BY <1>1, <1>2, <1>3, <1>4, <1>5, <1>6, <1>7, <1>8, <1>9, <1>10, <1>11 DEF Next

-----------------------------------------------------------------------------
(* Theorems. *)

(* The inductive invariant holds in every behaviour of the reconciler. *)
THEOREM Invariance == Spec => []IInv
<1>1. Init => IInv
  BY InvInit
<1>2. IInv /\ [Next]_vars => IInv'
  BY InvNext
<1> QED
  BY <1>1, <1>2, PTL DEF Spec

(* Every variable keeps its type; a reconcile past its first step, and so  *)
(* every scan pod it makes, has images to scan.                            *)
THEOREM TypeCorrect == Spec => []TypeOK
<1>1. IInv => TypeOK
  BY DEF IInv
<1> QED
  BY <1>1, Invariance, PTL

(* A build pod is only labelled as scanned when a scan pod has been made   *)
(* for the images that build deployed, or newer ones, whichever caches     *)
(* were behind and whatever failed.                                        *)
THEOREM MarkedIsScanned == Spec => []MarkedMeansScanned
<1>1. IInv => MarkedMeansScanned
  BY DEF IInv, StoreGood, MarkedMeansScanned
<1> QED
  BY <1>1, Invariance, PTL
=============================================================================
