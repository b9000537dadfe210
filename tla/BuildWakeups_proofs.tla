------------------------- MODULE BuildWakeups_proofs -------------------------
(***************************************************************************)
(* Theorem of BuildScan: a successful build is forgotten in no other way  *)
(* than by a restart or by a scan pod that vanishes from a list, for every *)
(* set of builds and every number of disturbances.                         *)
(*                                                                         *)
(* A build that nobody has queued and no event is about must be in the     *)
(* cache as it is on the server.  So the proof follows the events of a     *)
(* build pod: which of them are left, and which one the cache starts with. *)
(***************************************************************************)
EXTENDS BuildScan_proofs

-----------------------------------------------------------------------------
(* A copy is of an earlier version, or is the stored pod. *)
Current(b, pod) == pod.rv <= store[b].rv /\ (pod.rv = store[b].rv => pod = store[b])

(* The events of one build pod: none before it is made; the last one is    *)
(* the stored pod, and with none left the cache has it; and it is new to   *)
(* the cache, which enqueues nothing, only while its build is running.     *)
EventsGood(b) ==
  /\ store[b].rv = 0 => watch[b] = <<>> /\ ~store[b].exists
  /\ watch[b] = <<>> => cache[b] = store[b]
  /\ watch[b] # <<>> => watch[b][Len(watch[b])] = store[b]
  /\ store[b].exists => \A i \in 1 .. Len(watch[b]) : watch[b][i].exists
  /\ store[b].exists /\ ~cache[b].exists =>
       watch[b] # <<>> /\ watch[b][1].phase = "Running"

CopiesCurrent(b) ==
  /\ Current(b, cache[b])
  /\ \A i \in 1 .. Len(watch[b]) : Current(b, watch[b][i])
  /\ job[b].at # "idle" => Current(b, job[b].obj)

(* The inductive invariant, on top of IInv. *)
WInv == \A b \in Name : EventsGood(b) /\ CopiesCurrent(b)

(* A scan pod of b's list is gone before it is deleted. *)
Vanished(b) == \E s \in job[b].left : scan[s] = "none"

(* What a step keeps: the invariant, and the builds not forgotten, but for *)
(* the two ways.                                                           *)
Kept ==
  /\ WInv'
  /\ \A b \in Name : Forgotten(b)' => Forgotten(b) \/ Crash \/ Vanished(b)

-----------------------------------------------------------------------------
(* A reconcile goes on with the copy it has, ends, or starts with the      *)
(* cached one.                                                             *)
JobsKept ==
  \A n \in Name : job'[n].at # "idle" =>
    \/ job[n].at # "idle" /\ job'[n].obj = job[n].obj
    \/ UNCHANGED apiVars /\ job'[n].obj = cache[n]

(* The events after a write: of a pod that is there, or of a new one. *)
LEMMA EventsAfterWrite ==
  ASSUME NEW b \in Name, NEW pod \in BuildPod, TypeOK, Write(b, pod),
         WInv,
         store[b].exists \/ (store[b].rv = 0 /\ pod.phase = "Running"),
         JobsKept
  PROVE  WInv' /\ watch'[b] # <<>>
<1> USE DEF WInv
<1>1. /\ store' \in [Name -> BuildPod]
      /\ store'[b] = [pod EXCEPT !.rv = store[b].rv + 1]
      /\ \A n \in Name : n # b => store'[n] = store[n]
      /\ cache' = cache
      /\ watch' = [watch EXCEPT ![b] = Append(watch[b], store'[b])]
  BY PodWritten
<1>0. /\ store \in [Name -> BuildPod] /\ cache \in [Name -> BuildPod]
      /\ watch \in [Name -> Seq(BuildPod)]
  BY DEF TypeOK
<1>2. /\ watch[b] \in Seq(BuildPod) /\ store[b] \in BuildPod /\ store'[b] \in BuildPod
      /\ watch'[b] = Append(watch[b], store'[b])
      /\ \A n \in Name : n # b => watch'[n] = watch[n]
  BY <1>0, <1>1
<1>3. /\ Len(watch'[b]) = Len(watch[b]) + 1 /\ watch'[b] # <<>>
      /\ Len(watch[b]) \in Nat
      /\ watch'[b][Len(watch[b]) + 1] = store'[b]
      /\ \A i \in 1 .. Len(watch[b]) : watch'[b][i] = watch[b][i]
  BY <1>2
<1>4. /\ store'[b].rv = store[b].rv + 1 /\ store[b].rv \in Nat
      /\ store'[b].phase = pod.phase
  BY <1>1, <1>2 DEF BuildPod
<1>5. ~UNCHANGED apiVars
  <2>1. store'[b].rv # store[b].rv
    BY <1>4
  <2> QED
    BY <2>1 DEF apiVars
<1>6. EventsGood(b)'
  <2>1. store'[b].rv # 0
    BY <1>4
  <2>2. watch'[b][Len(watch'[b])] = store'[b]
    BY <1>3
  <2>3. ASSUME store'[b].exists, NEW i \in 1 .. Len(watch'[b]) PROVE watch'[b][i].exists
    <3>1. CASE i = Len(watch[b]) + 1
      BY <1>3, <2>3, <3>1
    <3>2. CASE i \in 1 .. Len(watch[b])
      <4>1. store[b].exists
        BY <1>3, <3>2 DEF EventsGood
      <4> QED
        BY <1>3, <3>2, <4>1 DEF EventsGood
    <3> QED
      BY <1>3, <2>3, <3>1, <3>2
  <2>4. ASSUME ~cache[b].exists PROVE watch'[b][1].phase = "Running"
    <3>1. CASE watch[b] = <<>>
      <4>1. ~store[b].exists
        BY <2>4, <3>1 DEF EventsGood
      <4>2. watch'[b][1] = store'[b]
        BY <1>3, <3>1
      <4> QED
        BY <1>4, <4>1, <4>2
    <3>2. CASE watch[b] # <<>>
      <4>1. store[b].exists
        BY <3>2 DEF EventsGood
      <4>2. 1 \in 1 .. Len(watch[b])
        BY <1>2, <3>2
      <4> QED
        BY <1>3, <2>4, <4>1, <4>2 DEF EventsGood
    <3> QED
      BY <3>1, <3>2
  <2> QED
    BY <1>1, <1>3, <2>1, <2>2, <2>3, <2>4 DEF EventsGood
<1>7. \A o \in BuildPod : Current(b, o) => Current(b, o)'
  BY <1>4 DEF Current, BuildPod
<1>8. CopiesCurrent(b)'
  <2>1. ASSUME NEW i \in 1 .. Len(watch'[b]) PROVE Current(b, watch[b][i])'
    <3>1. CASE i = Len(watch[b]) + 1
      <4>1. watch'[b][i] = store'[b] /\ store'[b].rv \in Nat
        BY <1>3, <1>4, <3>1
      <4> QED
        BY <4>1 DEF Current
    <3>2. CASE i \in 1 .. Len(watch[b])
      <4>1. watch[b][i] \in BuildPod /\ Current(b, watch[b][i])
        BY <1>2, <3>2 DEF CopiesCurrent
      <4>2. watch'[b][i] = watch[b][i]
        BY <1>3, <3>2
      <4> QED
        BY <1>4, <4>1, <4>2 DEF Current, BuildPod
    <3> QED
      BY <1>3, <2>1, <3>1, <3>2
  <2>2. Current(b, cache[b])'
    BY <1>1, <1>4 DEF Current, CopiesCurrent, TypeOK, BuildPod
  <2>3. ASSUME job'[b].at # "idle" PROVE Current(b, job[b].obj)'
    <3>1. job[b].at # "idle" /\ job'[b].obj = job[b].obj
      BY <1>5, <2>3 DEF JobsKept
    <3>2. job[b].obj \in BuildPod
      BY JobParts DEF TypeOK
    <3>3. Current(b, job[b].obj)
      BY <3>1 DEF CopiesCurrent
    <3> QED
      BY <1>4, <3>1, <3>2, <3>3 DEF Current, BuildPod
  <2> QED
    BY <2>1, <2>2, <2>3 DEF CopiesCurrent
<1>9. ASSUME NEW n \in Name, n # b PROVE (EventsGood(n) /\ CopiesCurrent(n))'
  BY <1>1, <1>2, <1>5, <1>9 DEF EventsGood, CopiesCurrent, Current, JobsKept
<1> QED
  BY <1>3, <1>6, <1>8, <1>9

(* No write and no event: what the events and copies say stays true. *)
LEMMA EventsUntouched ==
  ASSUME WInv, UNCHANGED apiVars, JobsKept
  PROVE  WInv'
BY DEF WInv, EventsGood, CopiesCurrent, Current, JobsKept, apiVars

(* Other builds stay queued and in their reconciles. *)
OthersKept(b) ==
  \A n \in Name \ {b} :
    (n \in queue => n \in queue') /\ (job[n] # Idle => job'[n] # Idle)

(* A write leaves an event of the pod on its way. *)
LEMMA Written ==
  ASSUME NEW b \in Name, NEW pod \in BuildPod, TypeOK, WInv, Write(b, pod),
         store[b].exists \/ (store[b].rv = 0 /\ pod.phase = "Running"),
         JobsKept, OthersKept(b)
  PROVE  Kept
<1>1. WInv' /\ watch'[b] # <<>>
  BY EventsAfterWrite
<1>2. \A n \in Name : n # b => store'[n] = store[n] /\ watch'[n] = watch[n]
  BY DEF Write, TypeOK
<1>3. \A n \in Name : Forgotten(n)' => Forgotten(n)
  BY <1>1, <1>2 DEF Forgotten, OthersKept
<1> QED
  BY <1>1, <1>3 DEF Kept

(* Without a write or an event only the build itself can be forgotten. *)
LEMMA Unwritten ==
  ASSUME NEW b \in Name, WInv, UNCHANGED apiVars, JobsKept, OthersKept(b),
         Forgotten(b)' => Forgotten(b) \/ Vanished(b)
  PROVE  Kept
<1>1. \A n \in Name : n # b => (Forgotten(n)' => Forgotten(n))
  BY DEF Forgotten, OthersKept, apiVars
<1> QED
  BY <1>1, EventsUntouched DEF Kept

(* A reconcile that fails has queued its build again. *)
LEMMA WakeupsAfterFailure ==
  ASSUME NEW b \in Name, TypeOK, WInv, Failed(b), UNCHANGED apiVars
  PROVE  Kept
<1>1. /\ job'[b].at = "idle" /\ \A n \in Name : n # b => job'[n] = job[n]
      /\ queue' = queue \cup {b}
  BY EndedJob DEF Failed
<1>2. JobsKept /\ OthersKept(b) /\ ~Forgotten(b)'
  BY <1>1 DEF JobsKept, OthersKept, Forgotten
<1> QED
  BY <1>2, Unwritten

-----------------------------------------------------------------------------
(* The invariant is inductive: one lemma per kind of action. *)

LEMMA WakeupsInit == Init => WInv
<1> SUFFICES ASSUME Init, NEW b \in Name PROVE EventsGood(b) /\ CopiesCurrent(b)
  BY DEF WInv
<1>1. /\ store[b] = NoPod /\ cache[b] = NoPod /\ watch[b] = <<>> /\ job[b] = Idle
      /\ NoPod.exists = FALSE /\ Idle.at = "idle" /\ Len(<<>>) = 0 /\ NoPod.rv = 0
  BY DEF Init, APIInit, Idle, NoPod, NewPod
<1> QED
  BY <1>1 DEF EventsGood, CopiesCurrent, Current

LEMMA WakeupsLagoon ==
  ASSUME NEW b \in Name, IInv, WInv, BuildStarts(b) \/ BuildEnds(b) \/ Touch(b)
  PROVE  Kept
<1>1. TypeOK /\ store[b] \in BuildPod
  BY DEF IInv, TypeOK
<1>2. JobsKept /\ job' = job /\ queue' = queue
  BY DEF BuildStarts, BuildEnds, Touch, JobsKept
<1>3. CASE BuildStarts(b)
  <2>1. NewPod \in BuildPod /\ NewPod.phase = "Running"
    BY PodTypes DEF NewPod
  <2> QED
    BY <1>1, <1>2, <1>3, <2>1, Written DEF BuildStarts, OthersKept
<1>4. CASE BuildEnds(b)
  <2>1. PICK phase \in {"Failed", "Succeeded"} :
          Write(b, [store[b] EXCEPT !.phase = phase])
    BY <1>4 DEF BuildEnds
  <2>2. [store[b] EXCEPT !.phase = phase] \in BuildPod /\ store[b].exists
    BY <1>1, <1>4, ChangedPod DEF BuildEnds
  <2> QED
    BY <1>1, <1>2, <2>1, <2>2, Written DEF OthersKept
<1>5. CASE Touch(b)
  <2>1. store[b].exists /\ [store[b] EXCEPT !.exists = FALSE] \in BuildPod
    BY <1>1, <1>5, ChangedPod DEF Touch
  <2>2. Write(b, store[b]) \/ Write(b, [store[b] EXCEPT !.exists = FALSE])
    BY <1>5, <2>1 DEF Touch, Remove
  <2>3. CASE Write(b, store[b])
    BY <1>1, <1>2, <2>1, <2>3, Written DEF OthersKept
  <2>4. CASE Write(b, [store[b] EXCEPT !.exists = FALSE])
    BY <1>1, <1>2, <2>1, <2>4, Written DEF OthersKept
  <2> QED
    BY <2>2, <2>3, <2>4
<1> QED
  BY <1>3, <1>4, <1>5

(* The last event of a successful build is an update of a pod the cache has: *)
(* a pod new to the cache is of a build still running.                    *)
LEMMA WakeupsDeliver ==
  ASSUME NEW b \in Name, IInv, WInv, Deliver(b)
  PROVE  Kept
<1>1. /\ store[b] \in BuildPod /\ watch[b] \in Seq(BuildPod) /\ watch[b] # <<>>
      /\ Len(watch[b]) \in Nat \ {0}
  BY DEF Deliver, Observe, IInv, TypeOK
<1>2. /\ Head(watch[b]) = watch[b][1]
      /\ Tail(watch[b]) \in Seq(BuildPod)
      /\ Len(Tail(watch[b])) = Len(watch[b]) - 1
      /\ Tail(watch[b]) = <<>> => Len(watch[b]) = 1
      /\ \A i \in 1 .. Len(Tail(watch[b])) :
           /\ i + 1 \in 1 .. Len(watch[b])
           /\ Tail(watch[b])[i] = watch[b][i + 1]
  <2>1. Head(watch[b]) = watch[b][1] /\ Tail(watch[b]) \in Seq(BuildPod)
    BY <1>1
  <2>2. Len(Tail(watch[b])) = Len(watch[b]) - 1
    BY <1>1
  <2>3. Tail(watch[b]) = <<>> => Len(watch[b]) = 1
    <3> SUFFICES ASSUME Tail(watch[b]) = <<>> PROVE Len(watch[b]) = 1
      OBVIOUS
    <3>1. Len(<<>>) = 0
      OBVIOUS
    <3>2. Len(Tail(watch[b])) = 0
      BY <3>1, Zenon
    <3> QED
      BY <1>1, <2>2, <3>2
  <2>4. \A i \in 1 .. Len(Tail(watch[b])) :
           /\ i + 1 \in 1 .. Len(watch[b])
           /\ Tail(watch[b])[i] = watch[b][i + 1]
    BY <1>1
  <2> QED
    BY <2>1, <2>2, <2>3, <2>4
<1>3. /\ cache' = [cache EXCEPT ![b] = Head(watch[b])]
      /\ watch' = [watch EXCEPT ![b] = Tail(watch[b])]
      /\ store' = store /\ job' = job
  BY DEF Deliver, Observe
<1>4. /\ cache'[b] = watch[b][1] /\ watch'[b] = Tail(watch[b])
      /\ \A n \in Name : n # b => cache'[n] = cache[n] /\ watch'[n] = watch[n]
  BY <1>2, <1>3 DEF IInv, TypeOK
<1>5. EventsGood(b) /\ CopiesCurrent(b) /\ 1 \in 1 .. Len(watch[b])
  BY <1>1 DEF WInv
<1>6. store[b].exists => watch[b][1].exists
  BY <1>5 DEF EventsGood
<1>7. EventsGood(b)'
  <2>1. store[b].rv # 0
    BY <1>1, <1>5 DEF EventsGood
  <2>2. watch'[b] = <<>> => cache'[b] = store[b]
    BY <1>1, <1>2, <1>4, <1>5 DEF EventsGood
  <2>3. watch'[b] # <<>> => watch'[b][Len(watch'[b])] = store[b]
    <3> SUFFICES ASSUME watch'[b] # <<>> PROVE watch'[b][Len(watch'[b])] = store[b]
      OBVIOUS
    <3>1. Len(watch'[b]) \in 1 .. Len(watch'[b])
      BY <1>2, <1>4
    <3>2. watch'[b][Len(watch'[b])] = watch[b][Len(watch[b])]
      BY <1>1, <1>2, <1>4, <3>1
    <3> QED
      BY <1>1, <1>5, <3>2 DEF EventsGood
  <2>4. store[b].exists => \A i \in 1 .. Len(watch'[b]) : watch'[b][i].exists
    BY <1>2, <1>4, <1>5 DEF EventsGood
  <2> QED
    BY <1>3, <1>4, <1>6, <2>1, <2>2, <2>3, <2>4 DEF EventsGood
<1>8. CopiesCurrent(b)'
  BY <1>2, <1>3, <1>4, <1>5 DEF CopiesCurrent, Current
<1>9. ASSUME NEW n \in Name, n # b PROVE (EventsGood(n) /\ CopiesCurrent(n))'
  BY <1>3, <1>4, <1>9 DEF WInv, EventsGood, CopiesCurrent, Current
<1>10. ASSUME Forgotten(b)' PROVE b \in queue'
  <2>1. cache'[b] = store[b] /\ watch[b][1] = store[b]
    BY <1>3, <1>4, <1>7, <1>10 DEF EventsGood, Forgotten
  <2>2. cache[b].exists
    BY <1>3, <1>5, <1>10, <2>1 DEF EventsGood, Forgotten
  <2>3. cache'[b].exists /\ successfulBuildPodsPredicate(cache'[b])
    BY <1>3, <1>10, <2>1 DEF Forgotten, successfulBuildPodsPredicate
  <2> QED
    BY <2>2, <2>3 DEF Deliver
<1>11. queue \subseteq queue'
  BY DEF Deliver
<1>12. \A n \in Name : Forgotten(n)' => Forgotten(n)
  <2>1. ~Forgotten(b)'
    BY <1>10 DEF Forgotten
  <2>2. \A n \in Name : n # b => (Forgotten(n)' => Forgotten(n))
    BY <1>3, <1>4, <1>11 DEF Forgotten
  <2> QED
    BY <2>1, <2>2
<1> QED
  BY <1>7, <1>8, <1>9, <1>12 DEF WInv, Kept

(* A reconcile that finds a running or absent build in the cache has an    *)
(* event of the waiting one still to come.                                 *)
LEMMA WakeupsReconcile ==
  ASSUME NEW b \in Name, IInv, WInv, Reconcile(b)
  PROVE  Kept
<1>1. TypeOK /\ UNCHANGED apiVars
  BY DEF IInv, Reconcile
<1>2. CASE Failed(b)
  BY <1>1, <1>2, WakeupsAfterFailure
<1>3. CASE \E images \in Images :
             /\ queue' = queue \ {b}
             /\ job' = [job EXCEPT ![b] = [at |-> "list", obj |-> cache[b],
                                           images |-> images, left |-> {}]]
  <2>1. PICK images \in Images :
             /\ queue' = queue \ {b}
             /\ job' = [job EXCEPT ![b] = [at |-> "list", obj |-> cache[b],
                                           images |-> images, left |-> {}]]
    BY <1>3
  <2>2. /\ job'[b].at = "list" /\ job'[b].obj = cache[b]
        /\ \A n \in Name : n # b => job'[n] = job[n]
    BY <2>1 DEF IInv, TypeOK
  <2>3. ~Forgotten(b)'
    BY <2>2 DEF Idle, Forgotten
  <2>4. JobsKept
    BY <1>1, <2>2 DEF JobsKept
  <2> QED
    BY <1>1, <2>1, <2>2, <2>3, <2>4, Unwritten DEF OthersKept
<1>4. CASE ~(cache[b].exists /\ Finished(cache[b]))
  <2>1. queue' = queue \ {b} /\ job' = job
    BY <1>4 DEF Reconcile
  <2>2. ~Forgotten(b)'
    BY <1>1, <1>4 DEF WInv, EventsGood, Forgotten, Finished, apiVars
  <2>3. JobsKept
    BY <2>1 DEF JobsKept
  <2> QED
    BY <1>1, <2>1, <2>2, <2>3, Unwritten DEF OthersKept
<1> QED
  BY <1>2, <1>3, <1>4 DEF Reconcile

(* The steps of the scan leave the reconcile going, or queue the build     *)
(* again, unless a pod of the list has vanished.                           *)
LEMMA WakeupsScanning ==
  ASSUME NEW b \in Name, IInv, WInv,
         ListScans(b) \/ CreateScan(b) \/ \E s \in Name : KillScan(b, s)
  PROVE  Kept
<1>1. TypeOK /\ UNCHANGED apiVars /\ job \in [Name -> Jobs]
  BY DEF IInv, TypeOK, ListScans, CreateScan, KillScan
<1>2. job[b] \in Jobs /\ job[b].at \in {"list", "kill"}
  BY <1>1 DEF ListScans, CreateScan, KillScan
<1>3. ASSUME NEW at \in {"kill", "mark"}, NEW left,
             job' = [job EXCEPT ![b].at = at, ![b].left = left], queue' = queue
      PROVE  Kept
  <2>1. job'[b] = [job[b] EXCEPT !.at = at, !.left = left]
        /\ \A n \in Name : n # b => job'[n] = job[n]
    BY <1>1, <1>3
  <2>2. job'[b].at = at /\ job'[b].obj = job[b].obj
    BY <1>2, <2>1, JobParts
  <2>3. ~Forgotten(b)'
    BY <2>2 DEF Idle, Forgotten
  <2>4. job[b].at # "idle"
    BY <1>2
  <2>5. JobsKept
    BY <2>1, <2>2, <2>4 DEF JobsKept
  <2> QED
    BY <1>1, <1>3, <2>1, <2>3, <2>5, Unwritten DEF OthersKept
<1>4. ASSUME Failed(b) PROVE Kept
  BY <1>1, <1>4, WakeupsAfterFailure
<1>5. CASE ListScans(b)
  BY <1>3, <1>5 DEF ListScans
<1>6. CASE CreateScan(b)
  <2>1. ASSUME job' = [job EXCEPT ![b].at = "mark"], queue' = queue PROVE Kept
    <3>1. job' = [job EXCEPT ![b].at = "mark", ![b].left = job[b].left]
      <4>1. [job[b] EXCEPT !.at = "mark"] = [job[b] EXCEPT !.at = "mark", !.left = job[b].left]
        BY <1>2, JobParts
      <4> QED
        BY <1>1, <2>1, <4>1
    <3> QED
      BY <1>3, <2>1, <3>1
  <2> QED
    BY <1>4, <1>6, <2>1 DEF CreateScan
<1>7. ASSUME NEW s \in Name, KillScan(b, s) PROVE Kept
  <2>1. CASE scan[s] = "none" /\ Done(b)
    <3>1. Vanished(b)
      BY <1>7, <2>1 DEF KillScan, Vanished
    <3>2. JobsKept /\ OthersKept(b)
      BY <1>1, <2>1, EndedJob DEF Done, JobsKept, OthersKept
    <3> QED
      BY <1>1, <3>1, <3>2, Unwritten
  <2>2. ASSUME job' = [job EXCEPT ![b].left = @ \ {s}], queue' = queue PROVE Kept
    <3>1. job[b].at = "kill"
      BY <1>7 DEF KillScan
    <3>2. [job[b] EXCEPT !.left = job[b].left \ {s}]
            = [job[b] EXCEPT !.at = "kill", !.left = job[b].left \ {s}]
      BY <1>2, <3>1, JobParts
    <3>3. job' = [job EXCEPT ![b].at = "kill", ![b].left = job[b].left \ {s}]
      BY <1>1, <2>2, <3>2
    <3> QED
      BY <1>3, <2>2, <3>3
  <2> QED
    <3>1. \/ job' = [job EXCEPT ![b].left = @ \ {s}] /\ queue' = queue
          \/ Failed(b)
          \/ scan[s] = "none" /\ Done(b)
      BY <1>7 DEF KillScan
    <3> QED
      BY <1>4, <2>1, <2>2, <3>1
<1> QED
  BY <1>5, <1>6, <1>7

(* A mark that is taken was decided on the stored pod; a pod that is gone  *)
(* waits no longer; everything else queues the build again.                *)
LEMMA WakeupsMarkScanned ==
  ASSUME NEW b \in Name, IInv, WInv, MarkScanned(b)
  PROVE  Kept
<1> DEFINE pod == job[b].obj
<1>1. /\ TypeOK /\ job[b].at = "mark" /\ pod \in BuildPod
      /\ Done(b) \/ Failed(b)
  BY JobParts DEF IInv, TypeOK, MarkScanned
<1>2. /\ job'[b].at = "idle" /\ \A n \in Name : n # b => job'[n] = job[n]
      /\ \A n \in Name : n \in queue => n \in queue'
  BY <1>1, EndedJob DEF Done, Failed
<1>3. JobsKept /\ OthersKept(b)
  BY <1>2 DEF JobsKept, OthersKept
<1>4. CASE Failed(b) /\ UNCHANGED apiVars
  BY <1>1, <1>4, WakeupsAfterFailure
<1>5. CASE ~store[b].exists /\ UNCHANGED apiVars
  BY <1>3, <1>5, Unwritten DEF Forgotten, apiVars
<1>6. CASE Accepts(b, pod) /\ pod.marked /\ UNCHANGED apiVars
  <2>1. pod = store[b]
    BY <1>1, <1>6 DEF Accepts, WInv, CopiesCurrent, Current
  <2> QED
    BY <1>3, <1>6, <2>1, Unwritten DEF Forgotten, apiVars
<1>7. CASE Accepts(b, pod) /\ Write(b, [pod EXCEPT !.marked = TRUE])
  <2>1. [pod EXCEPT !.marked = TRUE] \in BuildPod /\ store[b].exists
    BY <1>1, <1>7, ChangedPod DEF Accepts
  <2> QED
    BY <1>1, <1>3, <1>7, <2>1, Written
<1> QED
  BY <1>4, <1>5, <1>6, <1>7 DEF MarkScanned

(* What touches neither build pods, nor the queue, nor a reconcile. *)
LEMMA WakeupsElsewhere ==
  ASSUME NEW b \in Name, WInv,
         \/ BuildDeploys(b) \/ ScanPodGone(b) \/ DeliverScan(b) \/ Resync(b)
         \/ DeliverDeployments \/ UNCHANGED vars
  PROVE  Kept
<1>1. UNCHANGED apiVars /\ job' = job /\ \A n \in Name : n \in queue => n \in queue'
  BY DEF BuildDeploys, ScanPodGone, DeliverScan, Resync, DeliverDeployments, vars, apiVars
<1>2. JobsKept /\ OthersKept(b)
  BY <1>1 DEF JobsKept, OthersKept
<1>3. Forgotten(b)' => Forgotten(b)
  BY <1>1 DEF Forgotten, apiVars
<1> QED
  BY <1>1, <1>2, <1>3, Unwritten

(* A restart: the cache is what is stored, and no reconcile is left.       *)
LEMMA WakeupsCrash ==
  ASSUME IInv, WInv, Crash
  PROVE  Kept
<1>1. /\ store' = store /\ cache' = store
      /\ watch' = [n \in Name |-> <<>>] /\ job' = [n \in Name |-> Idle]
  BY DEF Crash, Relist
<1>2. \A n \in Name : watch'[n] = <<>> /\ Len(<<>>) = 0 /\ job'[n].at = "idle"
  BY <1>1 DEF Idle
<1>3. \A n \in Name : EventsGood(n)'
  BY <1>1, <1>2 DEF WInv, EventsGood
<1>4. \A n \in Name : CopiesCurrent(n)'
  <2> SUFFICES ASSUME NEW n \in Name PROVE CopiesCurrent(n)'
    OBVIOUS
  <2>1. Current(n, cache[n])'
    BY <1>1 DEF Current, IInv, TypeOK, BuildPod
  <2> QED
    BY <1>2, <2>1 DEF CopiesCurrent
<1> QED
  BY <1>3, <1>4 DEF WInv, Kept

LEMMA WakeupsNext == IInv /\ WInv /\ [Next]_vars => Kept
<1> SUFFICES ASSUME IInv, WInv, [Next]_vars PROVE Kept
  OBVIOUS
<1>0. CASE Name = {}
  BY <1>0 DEF WInv, Kept
<1>1. CASE UNCHANGED vars /\ Name # {}
  BY <1>1, WakeupsElsewhere
<1>2. CASE Next /\ Name # {}
  <2>1. ASSUME NEW b \in Name, BuildStarts(b) \/ BuildEnds(b) \/ Touch(b) PROVE Kept
    BY <2>1, WakeupsLagoon
  <2>2. ASSUME NEW b \in Name, Deliver(b) PROVE Kept
    BY <2>2, WakeupsDeliver
  <2>3. ASSUME NEW b \in Name, Reconcile(b) PROVE Kept
    BY <2>3, WakeupsReconcile
  <2>4. ASSUME NEW b \in Name, ListScans(b) \/ CreateScan(b) \/ \E s \in Name : KillScan(b, s)
        PROVE  Kept
    BY <2>4, WakeupsScanning
  <2>5. ASSUME NEW b \in Name, MarkScanned(b) PROVE Kept
    BY <2>5, WakeupsMarkScanned
  <2>6. ASSUME NEW b \in Name,
               \/ BuildDeploys(b) \/ ScanPodGone(b) \/ DeliverScan(b) \/ Resync(b)
        PROVE  Kept
    BY <2>6, WakeupsElsewhere
  <2>7. CASE DeliverDeployments
    BY <1>2, <2>7, WakeupsElsewhere
  <2>8. CASE Crash
    BY <2>8, WakeupsCrash
  <2> QED
    BY <1>2, <2>1, <2>2, <2>3, <2>4, <2>5, <2>6, <2>7, <2>8 DEF Next
<1> QED
  BY <1>0, <1>1, <1>2

-----------------------------------------------------------------------------
(* Theorem. *)

(* A successful build that is not labelled as scanned stays queued, being  *)
(* reconciled, or has an event on its way, whichever caches are behind,    *)
(* whatever conflicts or fails, and however often others write the pod:    *)
(* only a restart, and a scan pod that vanishes after it has been listed   *)
(* for deletion, leave a build forgotten.                                  *)
THEOREM ForgettingIsRare == Spec => ForgottenOnlyThen
<1> DEFINE Step ==
      \A b \in Name : Forgotten(b)' =>
        Forgotten(b) \/ Crash \/ \E s \in job[b].left : scan[s] = "none"
<1>1. Init => IInv /\ WInv
  BY InvInit, WakeupsInit
<1>2. IInv /\ WInv /\ [Next]_vars => (IInv /\ WInv)' /\ [Step]_vars
  BY InvNext, WakeupsNext DEF Kept, Vanished
<1> QED
  BY <1>1, <1>2, PTL DEF Spec, ForgottenOnlyThen
=============================================================================
