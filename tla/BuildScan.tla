------------------------------ MODULE BuildScan ------------------------------
(***************************************************************************)
(* The Build reconciler: when a build of an environment has succeeded, a   *)
(* scan pod is started that looks into the images of the deployments, and  *)
(* the build pod is labelled as scanned.                                   *)
(*                                                                         *)
(* One namespace is modelled; Name is the set of its builds.  A build has  *)
(* one scan pod, named after it.  Of scan pods the program only sees which *)
(* exist, as of some time in the past, and deletes them without            *)
(* preconditions, so their versions are left out.  Deployments are         *)
(* numbered: each build that deploys makes the next set of images.         *)
(***************************************************************************)
EXTENDS KubernetesAPI

CONSTANT
  MaxDisturbances   \* bound: builds, build pods updated or removed by others,
                    \* failing API calls and restarts, together

VARIABLES
  scan,             \* [Name -> its scan pod]
  scanSeen,         \* [Name -> the cache has a scan pod]
  deployed,         \* the images of the deployments, 0: there are none
  deployedSeen,     \* the same in the cache
  queue,            \* build pods in the controller's work queue
  job,              \* the reconcile of the one worker
  built,            \* history: [Name -> the images the build has deployed]
  scanned,          \* history: [Name -> the images scan pods were made for]
  disturbances      \* so many of them so far

scanVars == <<scan, scanSeen, scanned>>
deployVars == <<deployed, deployedSeen, built>>
vars == <<store, watch, cache, scan, scanSeen, deployed, deployedSeen, queue, job,
          built, scanned, disturbances>>

ASSUME BoundsAssumption == MaxDisturbances \in Nat

-----------------------------------------------------------------------------
(* A build pod; marked is its label insights.lagoon.sh/scanned. *)
BuildPod == [exists : BOOLEAN, rv : Nat, marked : BOOLEAN,
             phase  : {"Running", "Succeeded", "Failed"}]

NewPod == [exists |-> TRUE, rv |-> 0, marked |-> FALSE, phase |-> "Running"]
NoPod == [NewPod EXCEPT !.exists = FALSE]

Idle == [at |-> "idle", obj |-> NoPod, images |-> 0, left |-> {}]

(* Mutant of successfulBuildPodsPredicate: the wrong ones pass. *)
successfulBuildPodsPredicate_Inverted(pod) == pod.marked

(* What an update of a build pod must show to be enqueued. *)
successfulBuildPodsPredicate(pod) == ~pod.marked

Init ==
  /\ APIInit(NoPod)
  /\ scan = [b \in Name |-> "none"]
  /\ scanSeen = [b \in Name |-> FALSE]
  /\ deployed = 0 /\ deployedSeen = 0
  /\ queue = {}
  /\ job = [b \in Name |-> Idle]
  /\ built = [b \in Name |-> 0]
  /\ scanned = [b \in Name |-> 0]
  /\ disturbances = 0

-----------------------------------------------------------------------------
Disturbance == disturbances < MaxDisturbances /\ disturbances' = disturbances + 1

(* Lagoon: a build starts, deploys, and ends.  A build that succeeds has   *)
(* waited for the rollout: what it deployed has long been in the cache.    *)
BuildStarts(b) ==
  /\ Disturbance
  /\ store[b].rv = 0
  /\ Write(b, NewPod)
  /\ UNCHANGED <<scanVars, deployVars, queue, job>>

BuildDeploys(b) ==
  /\ store[b].exists /\ store[b].phase = "Running"
  /\ built[b] = 0
  /\ deployed' = deployed + 1
  /\ built' = [built EXCEPT ![b] = deployed + 1]
  /\ UNCHANGED <<apiVars, scanVars, deployedSeen, queue, job, disturbances>>

BuildEnds(b) ==
  /\ store[b].exists /\ store[b].phase = "Running"
  /\ \/ Write(b, [store[b] EXCEPT !.phase = "Failed"])
     \/ deployedSeen >= built[b] /\ Write(b, [store[b] EXCEPT !.phase = "Succeeded"])
  /\ UNCHANGED <<scanVars, deployVars, queue, job, disturbances>>

(* Lagoon labels the pods of builds that have ended, or removes them. *)
Touch(b) ==
  /\ Disturbance
  /\ store[b].exists /\ store[b].phase # "Running"
  /\ Write(b, store[b]) \/ Remove(b)
  /\ UNCHANGED <<scanVars, deployVars, queue, job>>

(* A deleted scan pod is gone some time later.  How a scan ends otherwise  *)
(* is never asked: the pod stays.                                          *)
ScanPodGone(b) ==
  /\ scan[b] = "terminating"
  /\ scan' = [scan EXCEPT ![b] = "none"]
  /\ UNCHANGED <<apiVars, scanSeen, scanned, deployVars, queue, job, disturbances>>

(* The caches catch up.  Only updates are enqueued, not what is new to the *)
(* cache and not what is gone.                                             *)
Deliver(b) ==
  /\ Observe(b)
  /\ queue' = IF cache[b].exists /\ cache'[b].exists
                 /\ successfulBuildPodsPredicate(cache'[b])
              THEN queue \cup {b} ELSE queue
  /\ UNCHANGED <<scanVars, deployVars, job, disturbances>>

DeliverScan(b) ==
  /\ scanSeen[b] # (scan[b] # "none")
  /\ scanSeen' = [scanSeen EXCEPT ![b] = ~@]
  /\ UNCHANGED <<apiVars, scan, scanned, deployVars, queue, job, disturbances>>

DeliverDeployments ==
  /\ deployedSeen # deployed
  /\ deployedSeen' = deployed
  /\ UNCHANGED <<apiVars, scanVars, deployed, built, queue, job, disturbances>>

(* The informer's resync hands every cached pod out as an update. *)
Resync(b) ==
  /\ b \notin queue
  /\ cache[b].exists /\ successfulBuildPodsPredicate(cache[b])
  /\ queue' = queue \cup {b}
  /\ UNCHANGED <<apiVars, scanVars, deployVars, job, disturbances>>

-----------------------------------------------------------------------------
(* The end of a reconcile: without an error, or with one that queues the   *)
(* build again.  A NotFound counts as the former at every place.           *)
Done(b) == job' = [job EXCEPT ![b] = Idle] /\ UNCHANGED queue

(* Mutant of Failed: the error is logged, and nil returned. *)
Failed_Swallowed(b) == Done(b)

Failed(b) == job' = [job EXCEPT ![b] = Idle] /\ queue' = queue \cup {b}

(* Mutant of Finished: any build pod will do. *)
Finished_Any(pod) == TRUE

Finished(pod) == pod.phase = "Succeeded"

(* Mutant of Images: a scan pod is made for no image too. *)
Images_NoneToo == 0 .. deployedSeen

(* The images to scan: none at all is an error. *)
Images == {deployedSeen} \ {0}

(* Get, and the List of the deployments right after it. *)
Reconcile(b) ==
  /\ b \in queue
  /\ \A other \in Name : job[other] = Idle
  /\ IF cache[b].exists /\ Finished(cache[b])
     THEN \/ Images = {} /\ Failed(b)
          \/ \E images \in Images :
               /\ queue' = queue \ {b}
               /\ job' = [job EXCEPT ![b] = [at |-> "list", obj |-> cache[b],
                                             images |-> images, left |-> {}]]
     ELSE queue' = queue \ {b} /\ UNCHANGED job
  /\ UNCHANGED <<apiVars, scanVars, deployVars, disturbances>>

(* Mutant of ExistingScans: the build's own scan pod is spared. *)
ExistingScans_Others(b) == {s \in Name \ {b} : scanSeen[s]}

ExistingScans(b) == {s \in Name : scanSeen[s]}

ListScans(b) ==
  /\ job[b].at = "list"
  /\ job' = [job EXCEPT ![b].at = "kill", ![b].left = ExistingScans(b)]
  /\ UNCHANGED <<apiVars, scanVars, deployVars, queue, disturbances>>

(* killExistingScans: the pods of the list are deleted one by one, which   *)
(* only starts their termination.  One that is gone ends the reconcile     *)
(* without an error, any other error with one.                             *)
KillScan(b, s) ==
  /\ job[b].at = "kill"
  /\ s \in job[b].left
  /\ \/ /\ scan[s] # "none"
        /\ scan' = [scan EXCEPT ![s] = "terminating"]
        /\ \/ job' = [job EXCEPT ![b].left = @ \ {s}] /\ UNCHANGED <<queue, disturbances>>
           \/ Disturbance /\ Failed(b)
     \/ scan[s] = "none" /\ Done(b) /\ UNCHANGED <<scan, disturbances>>
     \/ scan[s] # "none" /\ Disturbance /\ Failed(b) /\ UNCHANGED scan
  /\ UNCHANGED <<apiVars, scanSeen, scanned, deployVars>>

(* The server refuses a second pod of the name, terminating ones included. *)
NameTaken(b) == scan[b] # "none"

CreateScan(b) ==
  /\ job[b].at = "kill" /\ job[b].left = {}
  /\ \/ /\ ~NameTaken(b)
        /\ scan' = [scan EXCEPT ![b] = "started"]
        /\ scanned' = [scanned EXCEPT ![b] = job[b].images]
        /\ \/ job' = [job EXCEPT ![b].at = "mark"] /\ UNCHANGED <<queue, disturbances>>
           \/ Disturbance /\ Failed(b)
     \/ /\ \/ NameTaken(b) /\ UNCHANGED disturbances
           \/ ~NameTaken(b) /\ Disturbance
        /\ Failed(b)
        /\ UNCHANGED <<scan, scanned>>
  /\ UNCHANGED <<apiVars, scanSeen, deployVars>>

(* The label goes onto the pod as it was read.  A conflict is an error, a  *)
(* build pod that is gone is none; an Update that changes nothing is taken *)
(* and announced to nobody.                                                *)
MarkScanned(b) ==
  LET pod == job[b].obj
  IN  /\ job[b].at = "mark"
      /\ \/ /\ Accepts(b, pod)
            /\ IF pod.marked THEN UNCHANGED apiVars
                             ELSE Write(b, [pod EXCEPT !.marked = TRUE])
            /\ \/ Done(b) /\ UNCHANGED disturbances
               \/ Disturbance /\ Failed(b)
         \/ /\ ~store[b].exists
            /\ Done(b)
            /\ UNCHANGED <<apiVars, disturbances>>
         \/ /\ store[b].exists
            /\ \/ ~Accepts(b, pod) /\ UNCHANGED disturbances
               \/ Accepts(b, pod) /\ Disturbance
            /\ Failed(b)
            /\ UNCHANGED apiVars
      /\ UNCHANGED <<scanVars, deployVars>>

(* A restart: what the first list brings is new to the cache, not updated, *)
(* so that nothing is enqueued.                                            *)
Crash ==
  /\ Disturbance
  /\ Relist
  /\ scanSeen' = [b \in Name |-> scan[b] # "none"]
  /\ deployedSeen' = deployed
  /\ queue' = {}
  /\ job' = [b \in Name |-> Idle]
  /\ UNCHANGED <<scan, scanned, deployed, built>>

Next ==
  \/ \E b \in Name :
       \/ BuildStarts(b) \/ BuildDeploys(b) \/ BuildEnds(b) \/ Touch(b)
       \/ ScanPodGone(b) \/ Deliver(b) \/ DeliverScan(b) \/ Resync(b)
       \/ Reconcile(b) \/ ListScans(b) \/ CreateScan(b) \/ MarkScanned(b)
       \/ \E s \in Name : KillScan(b, s)
  \/ DeliverDeployments \/ Crash

Spec == Init /\ [][Next]_vars

(* The watches, the worker, the kubelet and the resync go on for ever; a   *)
(* build may take the worker again and again before another one.           *)
Fairness ==
  /\ \A b \in Name :
       /\ WF_vars(Deliver(b)) /\ WF_vars(DeliverScan(b)) /\ WF_vars(ScanPodGone(b))
       /\ WF_vars(Resync(b)) /\ SF_vars(Reconcile(b))
       /\ WF_vars(ListScans(b)) /\ WF_vars(\E s \in Name : KillScan(b, s))
       /\ WF_vars(CreateScan(b)) /\ WF_vars(MarkScanned(b))
  /\ WF_vars(DeliverDeployments)

ResyncSpec == Spec /\ Fairness

-----------------------------------------------------------------------------
(* A reconcile past its first step has images to scan. *)
Jobs == {Idle} \cup [at : {"list", "kill", "mark"}, obj : BuildPod,
                     images : Nat \ {0}, left : SUBSET Name]

TypeOK ==
  /\ store \in [Name -> BuildPod] /\ cache \in [Name -> BuildPod]
  /\ watch \in [Name -> Seq(BuildPod)]
  /\ scan \in [Name -> {"none", "started", "terminating"}]
  /\ scanSeen \in [Name -> BOOLEAN]
  /\ deployed \in Nat /\ deployedSeen \in Nat
  /\ queue \subseteq Name
  /\ job \in [Name -> Jobs]
  /\ built \in [Name -> Nat] /\ scanned \in [Name -> Nat]
  /\ disturbances \in Nat

(* A build pod that is labelled as scanned has had a scan pod made for the *)
(* images that build deployed, or newer ones.                              *)
MarkedMeansScanned ==
  \A b \in Name : store[b].marked => scanned[b] > 0 /\ scanned[b] >= built[b]

(* A successful build that is not labelled as scanned, not queued, not     *)
(* being reconciled, and without an event about it on its way.             *)
Forgotten(b) ==
  /\ store[b].exists /\ store[b].phase = "Succeeded" /\ ~store[b].marked
  /\ b \notin queue /\ job[b] = Idle /\ watch[b] = <<>>

(* No successful build is forgotten before it is labelled as scanned.      *)
NeverLeftUnscanned == \A b \in Name : ~Forgotten(b)

(* A successful build is only forgotten in two ways: by a restart, after   *)
(* which known pods are not updated but new, and by a reconcile that finds *)
(* a scan pod of its list already gone, and ends without an error.         *)
ForgottenOnlyThen ==
  [][\A b \in Name : Forgotten(b)' =>
       Forgotten(b) \/ Crash \/ \E s \in job[b].left : scan[s] = "none"]_vars

(* A successful build in a namespace with deployments is labelled as       *)
(* scanned in the end, or removed, whatever fails on the way.              *)
EventuallyScanned ==
  \A b \in Name : store[b].exists /\ store[b].phase = "Succeeded" /\ deployed > 0 ~>
                    store[b].marked \/ ~store[b].exists
=============================================================================
