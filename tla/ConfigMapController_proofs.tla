--------------------- MODULE ConfigMapController_proofs ---------------------
(***************************************************************************)
(* Theorems of ConfigMapController for every set of names, every list of   *)
(* post-processors, every bound and every configuration.                   *)
(*                                                                         *)
(* The argument is about copies.  The reconciler, the crons and the cache  *)
(* all work on copies of an object that are out of date as soon as the     *)
(* server accepts another write.  CopyOK says what stays true of a copy,   *)
(* however old, in terms of the object now stored, cur, what has been      *)
(* handed over, dels, and the number of failing runs, runs; it is stated   *)
(* of values, not of variables, so that the lemmas about it are about any  *)
(* two states.                                                             *)
(***************************************************************************)
EXTENDS ConfigMapController, TLAPS

-----------------------------------------------------------------------------
(* The annotations of a copy only claim what has happened. *)
Honest(c, obj, dels) ==
  /\ \A p \in Processors :
       obj.status[p] = "success" /\ Pushes(p, obj.msg) => <<c, obj.gen, p>> \in dels
  /\ obj.processed => \A p \in Processors : obj.status[p] = "success"

(* A copy of the version now stored has lost nothing that is recorded.  A  *)
(* reconcile adds to its copy before it writes it back, hence no equality. *)
Covers(obj, cur) ==
  /\ obj.gen = cur.gen
  /\ \A p \in Processors : cur.status[p] = "success" => obj.status[p] = "success"
  /\ cur.processed => obj.processed
  /\ cur.maxed => obj.maxed
  /\ obj.retries >= cur.retries

(* The retries a copy of the current payload counts, and its max-retry     *)
(* label, are backed by failing runs.                                      *)
Counted(obj, runs) ==
  /\ obj.maxed => runs > MaxNumberOfRetries
  /\ runs > MaxNumberOfRetries \/ obj.retries <= runs

CopyOK(c, obj, cur, dels, runs) ==
  /\ Honest(c, obj, dels)
  /\ obj.rv <= cur.rv
  /\ obj.gen <= cur.gen
  /\ obj.rv = cur.rv => Covers(obj, cur)
  /\ obj.gen = cur.gen => Counted(obj, runs)

Good(c, obj) == CopyOK(c, obj, store[c], delivered, failedRuns[c])

(* A reconcile has given every processor it has passed an outcome. *)
Visited(j) == \A i \in 1 .. (j.at - 1) : j.obj.status[PostProcessors[i]] # "unset"

StoreGood == \A c \in Name : Good(c, store[c])
CacheGood == \A c \in Name : Good(c, cache[c])
WatchGood == \A c \in Name : \A i \in 1 .. Len(watch[c]) : Good(c, watch[c][i])
JobGood   == \A c \in Name : job[c].at # 0 => Good(c, job[c].obj) /\ Visited(job[c])
ClearGood == \A item \in clearItems : Good(item[1], item[2])

(* The inductive invariant. *)
IInv == TypeOK /\ StoreGood /\ CacheGood /\ WatchGood /\ JobGood /\ ClearGood

-----------------------------------------------------------------------------
(* Types of the objects the program builds. *)

LEMMA LastStepNat == LastStep \in Nat \ {0} /\ Len(PostProcessors) \in Nat
                     /\ \A i \in 1 .. Len(PostProcessors) : PostProcessors[i] \in Processors
BY ConfigAssumption DEF LastStep, Processors

(* What the build publishes is a ConfigMap. *)
LEMMA FreshType ==
  ASSUME NEW gen \in Nat, NEW msg \in Payloads
  PROVE  Fresh(gen, msg) \in ConfigMap
BY DEF Fresh, ConfigMap, NoDeferral

LEMMA AbsentType == Absent \in ConfigMap
<1>1. (CHOOSE m \in Payloads : TRUE) \in Payloads
  BY ConfigAssumption
<1>2. Fresh(0, CHOOSE m \in Payloads : TRUE) \in ConfigMap
  BY <1>1, FreshType
<1> QED
  BY <1>2 DEF Absent, ConfigMap

(* The fields the program changes keep an object a ConfigMap. *)
LEMMA ChangedType ==
  ASSUME NEW obj \in ConfigMap
  PROVE  /\ \A v \in Nat : [obj EXCEPT !.rv = v] \in ConfigMap
         /\ [obj EXCEPT !.deferred = NoDeferral] \in ConfigMap
         /\ [obj EXCEPT !.processed = TRUE] \in ConfigMap
         /\ [obj EXCEPT !.exists = FALSE] \in ConfigMap
         /\ \A d, r \in Nat, m \in BOOLEAN :
              [obj EXCEPT !.deferred = d, !.retries = r, !.maxed = m] \in ConfigMap
         /\ \A p \in Processors, out \in {"success", "failure"} :
              [obj EXCEPT !.status[p] = out] \in ConfigMap
BY DEF ConfigMap, NoDeferral

(* What the reconciler writes is a ConfigMap. *)
LEMMA ConcludedType ==
  ASSUME NEW obj \in ConfigMap, now \in Nat
  PROVE  Concluded(obj) \in ConfigMap
<1>1. CASE Failing(obj)
  <2> DEFINE d == minutesFromNow(MinutesBetweenRetries)
             r == obj.retries + 1
             m == IF r > MaxNumberOfRetries THEN TRUE ELSE obj.maxed
  <2>1. d \in Nat /\ r \in Nat
    BY ConfigAssumption DEF ConfigMap, minutesFromNow
  <2>2. m \in BOOLEAN
    BY DEF ConfigMap
  <2>3. Concluded(obj) = [obj EXCEPT !.deferred = d, !.retries = r, !.maxed = m]
    BY <1>1 DEF Concluded
  <2> HIDE DEF d, r, m
  <2>4. [obj EXCEPT !.deferred = d, !.retries = r, !.maxed = m] \in ConfigMap
    BY <2>1, <2>2, ChangedType
  <2> QED
    BY <2>3, <2>4
<1>2. CASE ~Failing(obj)
  BY <1>2, ChangedType DEF Concluded
<1> QED
  BY <1>1, <1>2

LEMMA WriteType ==
  ASSUME NEW n \in Name, NEW obj \in ConfigMap, TypeOK, Write(n, obj)
  PROVE  /\ store' \in [Name -> ConfigMap]
         /\ cache' \in [Name -> ConfigMap]
         /\ watch' \in [Name -> Seq(ConfigMap)]
<1>0. store[n] \in ConfigMap
  BY DEF TypeOK
<1>1. store[n].rv + 1 \in Nat
  BY <1>0 DEF ConfigMap
<1>2. Versioned(n, obj) \in ConfigMap
  BY <1>1, ChangedType DEF Versioned
<1>3. Append(watch[n], Versioned(n, obj)) \in Seq(ConfigMap)
  BY <1>2 DEF TypeOK
<1> QED
  BY <1>2, <1>3 DEF Write, TypeOK

(* A run of a post-processor that returns no error has handed over what    *)
(* the processor wants.                                                    *)
LEMMA OutcomesHonest ==
  ASSUME NEW p, NEW msg, NEW out \in Outcomes(p, msg)
  PROVE  /\ out[1] \in {"success", "failure"}
         /\ out[1] = "success" /\ Pushes(p, msg) => out[2] = "sent"
<1>1. CASE ~Selects(p, msg)
  <2>1. out = <<"success", "held">>
    BY <1>1 DEF Outcomes, Panics, Pushes
  <2> QED
    BY <1>1, <2>1 DEF Pushes
<1>2. CASE Selects(p, msg) /\ ~Pushes(p, msg)
  <2>1. out \in {<<"success", "held">>, <<"failure", "held">>}
    BY <1>2 DEF Outcomes, Panics, Pushes
  <2> QED
    BY <1>2, <2>1
<1>3. CASE Selects(p, msg) /\ Pushes(p, msg) /\ Panics(p, msg)
  <2>1. out = <<"failure", "held">>
    BY <1>3 DEF Outcomes, Panics, Pushes
  <2> QED
    BY <2>1
<1>4. CASE Selects(p, msg) /\ Pushes(p, msg) /\ ~Panics(p, msg)
  <2>1. out \in {<<"success", "sent">>, <<"failure", "held">>, <<"failure", "sent">>}
    BY <1>4 DEF Outcomes, Panics, Pushes
  <2> QED
    BY <1>4, <2>1
<1> QED
  BY <1>1, <1>2, <1>3, <1>4

-----------------------------------------------------------------------------
(* Type correctness. *)

LEMMA TypeInit == Init => TypeOK
<1> SUFFICES ASSUME Init PROVE TypeOK
  OBVIOUS
<1> QED
  BY AbsentType, ConfigAssumption, LastStepNat
  DEF Init, APIInit, TypeOK, NoJob

(* The history of failing runs only grows on the payload now stored, and   *)
(* counts a failing run on it until the limit is passed.                   *)
LEMMA CountRunGrows ==
  ASSUME NEW c \in Name, NEW obj \in ConfigMap, TypeOK, CountRun(c, obj)
  PROVE  /\ failedRuns' \in [Name -> 0 .. MaxNumberOfRetries + 1]
         /\ \A n \in Name : failedRuns[n] <= failedRuns'[n]
         /\ Failing(obj) /\ obj.gen = store[c].gen =>
              \/ failedRuns'[c] = failedRuns[c] + 1
              \/ failedRuns'[c] > MaxNumberOfRetries
<1>1. CASE Failing(obj) /\ obj.gen = store[c].gen /\ failedRuns[c] <= MaxNumberOfRetries
  BY <1>1, ConfigAssumption DEF CountRun, TypeOK
<1>2. CASE ~(Failing(obj) /\ obj.gen = store[c].gen /\ failedRuns[c] <= MaxNumberOfRetries)
  BY <1>2, ConfigAssumption DEF CountRun, TypeOK
<1> QED
  BY <1>1, <1>2

(* The object a cron has in hand is a ConfigMap. *)
LEMMA ItemType ==
  ASSUME TypeOK, NEW item \in clearItems
  PROVE  item[1] \in Name /\ item[2] \in ConfigMap
BY DEF TypeOK

LEMMA TypeNext == TypeOK /\ [Next]_vars => TypeOK'
<1> SUFFICES ASSUME TypeOK, [Next]_vars PROVE TypeOK'
  OBVIOUS
<1> USE DEF apiVars
<1>1. ASSUME NEW c \in Name, Publish(c) PROVE TypeOK'
  <2>1. PICK msg \in Payloads : Write(c, Fresh(store[c].gen + 1, msg))
    BY <1>1 DEF Publish
  <2>2. store[c].gen + 1 \in Nat
    BY DEF TypeOK, ConfigMap
  <2>3. Fresh(store[c].gen + 1, msg) \in ConfigMap
    BY <2>2, FreshType
  <2>4. /\ store' \in [Name -> ConfigMap] /\ cache' \in [Name -> ConfigMap]
        /\ watch' \in [Name -> Seq(ConfigMap)]
    BY <2>1, <2>3, WriteType
  <2>5. failedRuns' \in [Name -> 0 .. MaxNumberOfRetries + 1]
    BY <1>1, ConfigAssumption DEF Publish, TypeOK
  <2> QED
    BY <1>1, <2>4, <2>5 DEF Publish, TypeOK
<1>2. ASSUME NEW c \in Name, Deliver(c) PROVE TypeOK'
  <2>1. Head(watch[c]) \in ConfigMap /\ Tail(watch[c]) \in Seq(ConfigMap)
    BY <1>2 DEF Deliver, Observe, TypeOK
  <2>2. /\ cache' \in [Name -> ConfigMap] /\ watch' \in [Name -> Seq(ConfigMap)]
        /\ store' = store
    BY <1>2, <2>1 DEF Deliver, Observe, TypeOK
  <2> QED
    BY <1>2, <2>2 DEF Deliver, TypeOK
<1>3. ASSUME NEW c \in Name, Resync(c) PROVE TypeOK'
  BY <1>3 DEF Resync, TypeOK
<1>4. ASSUME NEW c \in Name, Reconcile(c) PROVE TypeOK'
  <2>1. [at |-> 1, obj |-> cache[c]] \in [at : 0 .. LastStep, obj : ConfigMap]
    BY LastStepNat DEF TypeOK, LastStep
  <2>2. job' \in [Name -> [at : 0 .. LastStep, obj : ConfigMap]]
    BY <1>4, <2>1 DEF Reconcile, TypeOK
  <2> QED
    BY <1>4, <2>2 DEF Reconcile, TypeOK
<1>5. ASSUME NEW c \in Name, Reject(c) \/ PanicInPostProcess(c) PROVE TypeOK'
  <2>1. /\ job' = [job EXCEPT ![c] = NoJob] /\ queue' = queue \cup {c}
        /\ UNCHANGED <<store, watch, cache, clearItems, burnItems, nsCached, now,
                       delivered, failedRuns, faults>>
    BY <1>5 DEF Reject, PanicInPostProcess, RequeueOnError
  <2>2. NoJob \in [at : 0 .. LastStep, obj : ConfigMap]
    BY AbsentType, LastStepNat DEF NoJob
  <2> QED
    BY <2>1, <2>2 DEF TypeOK
<1>6. ASSUME NEW c \in Name, RunPostProcessor(c) PROVE TypeOK'
  <2> DEFINE j == job[c]
             p == PostProcessors[j.at]
  <2>1. j.at \in 1 .. Len(PostProcessors) /\ j.obj \in ConfigMap /\ p \in Processors
    BY <1>6, LastStepNat DEF RunPostProcessor, TypeOK
  <2>2. j.at + 1 \in 0 .. LastStep
    BY <2>1, LastStepNat DEF LastStep
  <2>3. CASE /\ job' = [job EXCEPT ![c].at = @ + 1]
             /\ UNCHANGED delivered
    <3>1. [job[c] EXCEPT !.at = j.at + 1] \in [at : 0 .. LastStep, obj : ConfigMap]
      BY <2>2 DEF TypeOK
    <3>2. job' \in [Name -> [at : 0 .. LastStep, obj : ConfigMap]]
      BY <2>3, <3>1 DEF TypeOK
    <3> QED
      BY <1>6, <2>3, <3>2 DEF RunPostProcessor, TypeOK
  <2>4. CASE \E out \in Outcomes(p, j.obj.msg) :
               /\ job' = [job EXCEPT ![c] =
                            [at |-> j.at + 1, obj |-> [j.obj EXCEPT !.status[p] = out[1]]]]
               /\ delivered' = IF out[2] = "sent" THEN delivered \cup {<<c, j.obj.gen, p>>}
                                                  ELSE delivered
    <3>1. PICK out \in Outcomes(p, j.obj.msg) :
               /\ job' = [job EXCEPT ![c] =
                            [at |-> j.at + 1, obj |-> [j.obj EXCEPT !.status[p] = out[1]]]]
               /\ delivered' = IF out[2] = "sent" THEN delivered \cup {<<c, j.obj.gen, p>>}
                                                  ELSE delivered
      BY <2>4
    <3>2. [j.obj EXCEPT !.status[p] = out[1]] \in ConfigMap
      <4>1. out[1] \in {"success", "failure"}
        BY OutcomesHonest
      <4> QED
        BY <2>1, <4>1, ChangedType
    <3>3. <<c, j.obj.gen, p>> \in Name \X Nat \X Processors
      BY <2>1 DEF ConfigMap
    <3>4. job' \in [Name -> [at : 0 .. LastStep, obj : ConfigMap]]
      BY <2>2, <3>1, <3>2 DEF TypeOK
    <3>5. delivered' \subseteq Name \X Nat \X Processors
      BY <3>1, <3>3 DEF TypeOK
    <3> QED
      BY <1>6, <3>4, <3>5 DEF RunPostProcessor, TypeOK
  <2> QED
    BY <1>6, <2>3, <2>4 DEF RunPostProcessor
<1>7. ASSUME NEW c \in Name, FinishReconcile(c) PROVE TypeOK'
  <2> DEFINE obj == job[c].obj
  <2>1. obj \in ConfigMap
    BY DEF TypeOK
  <2>2. Concluded(obj) \in ConfigMap
    BY <2>1, ConcludedType DEF TypeOK
  <2>3. /\ store' \in [Name -> ConfigMap] /\ cache' \in [Name -> ConfigMap]
        /\ watch' \in [Name -> Seq(ConfigMap)]
    BY <1>7, <2>2, WriteType DEF FinishReconcile, TypeOK
  <2>4. failedRuns' \in [Name -> 0 .. MaxNumberOfRetries + 1]
    BY <1>7, <2>1, CountRunGrows DEF FinishReconcile
  <2>5. queue' \subseteq Name /\ faults' \in Nat
    BY <1>7 DEF FinishReconcile, RequeueOnError, Fault, TypeOK
  <2>6. job' \in [Name -> [at : 0 .. LastStep, obj : ConfigMap]]
    BY <1>7, AbsentType, LastStepNat DEF FinishReconcile, NoJob, TypeOK
  <2> QED
    BY <1>7, <2>3, <2>4, <2>5, <2>6 DEF FinishReconcile, TypeOK
<1>8. ASSUME NEW c \in Name, BurnItem(c) PROVE TypeOK'
  <2>1. [store[c] EXCEPT !.exists = FALSE] \in ConfigMap
    BY ChangedType DEF TypeOK
  <2>2. /\ store' \in [Name -> ConfigMap] /\ cache' \in [Name -> ConfigMap]
        /\ watch' \in [Name -> Seq(ConfigMap)]
    BY <1>8, <2>1, WriteType DEF BurnItem, Remove, TypeOK
  <2>3. faults' \in Nat /\ burnItems' \subseteq Name
    BY <1>8 DEF BurnItem, Fault, TypeOK
  <2> QED
    BY <1>8, <2>2, <2>3 DEF BurnItem, TypeOK
<1>9. ASSUME NEW sel \in SUBSET Name, ClearDeferredTick(sel) PROVE TypeOK'
  <2>1. PICK run \in 1 .. MaxListed : clearItems' = clearItems \cup {<<c, cache[c], run>> : c \in sel}
    BY <1>9 DEF ClearDeferredTick
  <2>2. {<<c, cache[c], run>> : c \in sel} \subseteq Name \X ConfigMap \X Nat
    BY DEF TypeOK
  <2> QED
    BY <1>9, <2>1, <2>2 DEF ClearDeferredTick, TypeOK
<1>10. ASSUME NEW sel \in SUBSET Name, BurnTick(sel) PROVE TypeOK'
  BY <1>10 DEF BurnTick, Processed, TypeOK
<1>11. ASSUME NEW item \in clearItems, ClearDeferredItem(item) PROVE TypeOK'
  <2>1. item[1] \in Name /\ item[2] \in ConfigMap
    BY ItemType
  <2>2. [item[2] EXCEPT !.deferred = NoDeferral] \in ConfigMap
    BY <2>1, ChangedType
  <2>3. /\ store' \in [Name -> ConfigMap] /\ cache' \in [Name -> ConfigMap]
        /\ watch' \in [Name -> Seq(ConfigMap)]
    BY <1>11, <2>1, <2>2, WriteType DEF ClearDeferredItem, TypeOK
  <2>4. faults' \in Nat /\ clearItems' \subseteq Name \X ConfigMap \X Nat
    BY <1>11 DEF ClearDeferredItem, Fault, TypeOK
  <2> QED
    BY <1>11, <2>3, <2>4 DEF ClearDeferredItem, TypeOK
<1>12. CASE NamespaceSeen
  BY <1>12 DEF NamespaceSeen, TypeOK
<1>13. CASE Minute
  BY <1>13 DEF Minute, TypeOK
<1>14. CASE Crash
  <2>1. job' \in [Name -> [at : 0 .. LastStep, obj : ConfigMap]]
    BY <1>14, AbsentType, LastStepNat DEF Crash, NoJob
  <2> QED
    BY <1>14, <2>1 DEF Crash, Relist, Fault, TypeOK
<1>15. CASE UNCHANGED vars
  BY <1>15 DEF vars, TypeOK
<1> QED
  BY <1>1, <1>2, <1>3, <1>4, <1>5, <1>6, <1>7, <1>8, <1>9, <1>10, <1>11, <1>12,
     <1>13, <1>14, <1>15 DEF Next

(* The state of the reconciler, the crons and the API server has its types: *)
(* the loop over the post-processors (configmap_controller.go:143-170)      *)
(* never runs past the slice, and retries never leave the naturals.         *)
THEOREM TypeCorrect == Spec => []TypeOK
BY TypeInit, TypeNext, PTL DEF Spec

-----------------------------------------------------------------------------
(* Copies. *)

(* A copy stays good when nothing is written to its object. *)
LEMMA CopyGrows ==
  ASSUME NEW c \in Name, NEW obj \in ConfigMap, NEW cur \in ConfigMap,
         NEW dels, NEW dels2, dels \subseteq dels2,
         NEW runs \in Nat, NEW runs2 \in Nat, runs <= runs2,
         CopyOK(c, obj, cur, dels, runs)
  PROVE  CopyOK(c, obj, cur, dels2, runs2)
<1>1. Honest(c, obj, dels2)
  BY DEF CopyOK, Honest
<1>2. obj.gen = cur.gen => Counted(obj, runs2)
  BY ConfigAssumption DEF CopyOK, Counted, ConfigMap
<1> QED
  BY <1>1, <1>2 DEF CopyOK

(* A copy stays good, out of date, when its object is written: the writes  *)
(* of this program keep the payload, a new payload is a build's.           *)
LEMMA CopySuperseded ==
  ASSUME NEW c \in Name, NEW obj \in ConfigMap, NEW cur \in ConfigMap,
         NEW new \in ConfigMap, NEW dels,
         NEW runs \in Nat, NEW runs2 \in Nat,
         new.rv = cur.rv + 1,
         new.gen > cur.gen \/ (new.gen = cur.gen /\ runs <= runs2),
         CopyOK(c, obj, cur, dels, runs)
  PROVE  CopyOK(c, obj, new, dels, runs2)
<1>1. obj.rv < new.rv /\ obj.gen <= new.gen
  BY DEF CopyOK, ConfigMap
<1>2. obj.gen = new.gen => Counted(obj, runs2)
  BY ConfigAssumption DEF CopyOK, Counted, ConfigMap
<1> QED
  BY <1>1, <1>2 DEF CopyOK, ConfigMap

(* What is stored is a copy of itself. *)
LEMMA CopyOfItself ==
  ASSUME NEW c \in Name, NEW obj \in ConfigMap, NEW dels, NEW runs \in Nat,
         Honest(c, obj, dels), Counted(obj, runs)
  PROVE  CopyOK(c, obj, obj, dels, runs)
BY DEF CopyOK, Covers, ConfigMap

(* A write that no copy contradicts leaves every copy good: those there    *)
(* were, and the one the server keeps and announces.                       *)
LEMMA WriteKeepsGood ==
  ASSUME NEW n \in Name, NEW obj \in ConfigMap, IInv, Write(n, obj),
         delivered' = delivered,
         failedRuns' \in [Name -> 0 .. MaxNumberOfRetries + 1],
         \A c \in Name : c # n => failedRuns'[c] >= failedRuns[c],
         \/ obj.gen > store[n].gen
         \/ obj.gen = store[n].gen /\ failedRuns'[n] >= failedRuns[n],
         Honest(n, obj, delivered), Counted(obj, failedRuns'[n])
  PROVE  /\ \A c \in Name, cpy \in ConfigMap :
              Good(c, cpy) => CopyOK(c, cpy, store'[c], delivered', failedRuns'[c])
         /\ StoreGood' /\ CacheGood' /\ WatchGood'
<1> DEFINE new == Versioned(n, obj)
<1>1. /\ store \in [Name -> ConfigMap] /\ cache \in [Name -> ConfigMap]
      /\ watch \in [Name -> Seq(ConfigMap)]
      /\ failedRuns \in [Name -> 0 .. MaxNumberOfRetries + 1]
  BY DEF IInv, TypeOK
<1>2. \A c \in Name : failedRuns[c] \in Nat /\ failedRuns'[c] \in Nat
  BY <1>1, ConfigAssumption
<1>3. store[n].rv + 1 \in Nat
  BY <1>1 DEF ConfigMap
<1>4. new \in ConfigMap /\ new.rv = store[n].rv + 1 /\ new.gen = obj.gen
  BY <1>3, ChangedType DEF Versioned, ConfigMap
<1>5. /\ store' = [store EXCEPT ![n] = new]
      /\ watch' = [watch EXCEPT ![n] = Append(@, new)]
      /\ cache' = cache
  BY DEF Write
<1> HIDE DEF new
<1>6. ASSUME NEW c \in Name, NEW cpy \in ConfigMap, Good(c, cpy)
      PROVE  CopyOK(c, cpy, store'[c], delivered', failedRuns'[c])
  <2>1. CASE c = n
    <3>1. new.gen > store[n].gen
            \/ (new.gen = store[n].gen /\ failedRuns[n] <= failedRuns'[n])
      BY <1>2, <1>4
    <3>2. CopyOK(n, cpy, store[n], delivered, failedRuns[n])
      BY <1>6, <2>1 DEF Good
    <3>3. CopyOK(n, cpy, new, delivered, failedRuns'[n])
      BY <1>1, <1>2, <1>4, <3>1, <3>2, CopySuperseded
    <3> QED
      BY <1>1, <1>5, <2>1, <3>3
  <2>2. CASE c # n
    BY <1>1, <1>2, <1>5, <1>6, <2>2, CopyGrows DEF Good
  <2> QED
    BY <2>1, <2>2
<1>7. CopyOK(n, new, store'[n], delivered', failedRuns'[n])
  <2>1. Honest(n, new, delivered) /\ Counted(new, failedRuns'[n])
    BY DEF new, Versioned, ConfigMap, Honest, Counted
  <2> QED
    BY <1>1, <1>2, <1>4, <1>5, <2>1, CopyOfItself
<1>8. StoreGood'
  <2> SUFFICES ASSUME NEW c \in Name
               PROVE  CopyOK(c, store'[c], store'[c], delivered', failedRuns'[c])
    BY DEF StoreGood, Good
  <2>1. CASE c = n
    BY <1>1, <1>5, <1>7, <2>1
  <2>2. CASE c # n
    BY <1>1, <1>5, <1>6, <2>2 DEF IInv, StoreGood
  <2> QED
    BY <2>1, <2>2
<1>9. CacheGood'
  BY <1>1, <1>5, <1>6 DEF IInv, CacheGood, Good
<1>10. WatchGood'
  <2> SUFFICES ASSUME NEW c \in Name, NEW i \in 1 .. Len(watch'[c])
               PROVE  CopyOK(c, watch'[c][i], store'[c], delivered', failedRuns'[c])
    BY DEF WatchGood, Good
  <2>1. CASE c = n /\ i = Len(watch[n]) + 1
    BY <1>1, <1>4, <1>5, <1>7, <2>1
  <2>2. CASE ~(c = n /\ i = Len(watch[n]) + 1)
    <3>1. i \in 1 .. Len(watch[c]) /\ watch'[c][i] = watch[c][i]
      BY <1>1, <1>4, <1>5, <2>2
    <3>2. watch[c][i] \in ConfigMap /\ Good(c, watch[c][i])
      BY <1>1, <3>1 DEF IInv, WatchGood
    <3> QED
      BY <1>6, <3>1, <3>2
  <2> QED
    BY <2>1, <2>2
<1> QED
  BY <1>6, <1>8, <1>9, <1>10

(* The same when nothing is written. *)
LEMMA NoWriteKeepsGood ==
  ASSUME IInv, store' = store, delivered \subseteq delivered',
         failedRuns' \in [Name -> 0 .. MaxNumberOfRetries + 1],
         \A c \in Name : failedRuns'[c] >= failedRuns[c]
  PROVE  /\ \A c \in Name, cpy \in ConfigMap :
              Good(c, cpy) => CopyOK(c, cpy, store'[c], delivered', failedRuns'[c])
         /\ StoreGood'
         /\ cache' = cache => CacheGood'
         /\ watch' = watch => WatchGood'
<1>1. /\ store \in [Name -> ConfigMap] /\ cache \in [Name -> ConfigMap]
      /\ watch \in [Name -> Seq(ConfigMap)]
      /\ failedRuns \in [Name -> 0 .. MaxNumberOfRetries + 1]
  BY DEF IInv, TypeOK
<1>2. \A c \in Name : failedRuns[c] \in Nat /\ failedRuns'[c] \in Nat
  BY <1>1, ConfigAssumption
<1>3. ASSUME NEW c \in Name, NEW cpy \in ConfigMap, Good(c, cpy)
      PROVE  CopyOK(c, cpy, store'[c], delivered', failedRuns'[c])
  BY <1>1, <1>2, <1>3, CopyGrows DEF Good
<1>4. StoreGood'
  BY <1>1, <1>3 DEF IInv, StoreGood, Good
<1>5. cache' = cache => CacheGood'
  BY <1>1, <1>3 DEF IInv, CacheGood, Good
<1>6. watch' = watch => WatchGood'
  <2> SUFFICES ASSUME watch' = watch, NEW c \in Name, NEW i \in 1 .. Len(watch[c])
               PROVE  CopyOK(c, watch[c][i], store'[c], delivered', failedRuns'[c])
    BY DEF WatchGood, Good
  <2>1. watch[c][i] \in ConfigMap /\ Good(c, watch[c][i])
    BY <1>1 DEF IInv, WatchGood
  <2> QED
    BY <1>3, <2>1
<1> QED
  BY <1>3, <1>4, <1>5, <1>6

(* Reconciles and cron items in hand stay good as long as copies do and    *)
(* nothing is added to them.                                               *)
LEMMA HandsKeepGood ==
  ASSUME IInv,
         \A c \in Name, cpy \in ConfigMap :
            Good(c, cpy) => CopyOK(c, cpy, store'[c], delivered', failedRuns'[c])
  PROVE  /\ (\A c \in Name : job'[c] = job[c] \/ job'[c].at = 0) => JobGood'
         /\ clearItems' \subseteq clearItems => ClearGood'
<1>1. ASSUME \A c \in Name : job'[c] = job[c] \/ job'[c].at = 0
      PROVE  JobGood'
  <2> SUFFICES ASSUME NEW c \in Name, job'[c].at # 0
               PROVE  /\ CopyOK(c, job'[c].obj, store'[c], delivered', failedRuns'[c])
                      /\ Visited(job'[c])
    BY DEF JobGood, Good, Visited
  <2>1. job'[c] = job[c]
    BY <1>1
  <2>2. job[c].obj \in ConfigMap /\ Good(c, job[c].obj) /\ Visited(job[c])
    BY <2>1 DEF IInv, TypeOK, JobGood
  <2> QED
    BY <2>1, <2>2
<1>2. ASSUME clearItems' \subseteq clearItems
      PROVE  ClearGood'
  BY <1>2, ItemType DEF IInv, ClearGood, Good
<1> QED
  BY <1>1, <1>2

(* What a finished reconcile writes claims only what has happened: it is   *)
(* marked processed only when no processor is left, and labelled with      *)
(* max-retry only by a failing run.                                        *)
LEMMA ConcludedGood ==
  ASSUME NEW c \in Name, NEW obj \in ConfigMap, NEW dels,
         NEW runs \in Nat, NEW runs2 \in Nat, now \in Nat,
         Honest(c, obj, dels), Counted(obj, runs), runs <= runs2,
         \A p \in Processors : obj.status[p] # "unset",
         Failing(obj) => runs2 = runs + 1 \/ runs2 > MaxNumberOfRetries
  PROVE  /\ Honest(c, Concluded(obj), dels)
         /\ Counted(Concluded(obj), runs2)
         /\ Covers(Concluded(obj), obj)
<1>1. obj.retries \in Nat /\ obj.maxed \in BOOLEAN /\ MaxNumberOfRetries \in Nat
  BY ConfigAssumption DEF ConfigMap
<1>2. CASE Failing(obj)
  <2> DEFINE new == Concluded(obj)
  <2>1. /\ new.status = obj.status /\ new.gen = obj.gen /\ new.msg = obj.msg
        /\ new.processed = obj.processed
        /\ new.retries = obj.retries + 1
    BY <1>2 DEF Concluded, ConfigMap
  <2>2. obj.retries + 1 > MaxNumberOfRetries => new.maxed = TRUE
    BY <1>2 DEF Concluded, ConfigMap
  <2>3. ~(obj.retries + 1 > MaxNumberOfRetries) => new.maxed = obj.maxed
    BY <1>2 DEF Concluded, ConfigMap
  <2> HIDE DEF new
  <2>4. Honest(c, new, dels)
    BY <2>1 DEF Honest
  <2>5. Counted(new, runs2)
    BY <1>1, <1>2, <2>1, <2>2, <2>3 DEF Counted
  <2>6. Covers(new, obj)
    BY <1>1, <2>1, <2>2, <2>3 DEF Covers
  <2> QED
    BY <2>4, <2>5, <2>6 DEF new
<1>3. CASE ~Failing(obj)
  <2> DEFINE new == Concluded(obj)
  <2>1. /\ new.status = obj.status /\ new.gen = obj.gen /\ new.msg = obj.msg
        /\ new.retries = obj.retries /\ new.maxed = obj.maxed /\ new.processed = TRUE
    BY <1>3 DEF Concluded, ConfigMap
  <2>2. \A p \in Processors : obj.status[p] = "success"
    BY <1>3 DEF Failing, ConfigMap
  <2> HIDE DEF new
  <2>3. Honest(c, new, dels)
    BY <2>1, <2>2 DEF Honest
  <2>4. Counted(new, runs2)
    BY <1>1, <2>1 DEF Counted
  <2>5. Covers(new, obj)
    BY <1>1, <2>1 DEF Covers
  <2> QED
    BY <2>3, <2>4, <2>5 DEF new
<1> QED
  BY <1>2, <1>3

-----------------------------------------------------------------------------
(* The invariant is inductive. *)

LEMMA InvInit == Init => IInv
<1> SUFFICES ASSUME Init PROVE IInv
  OBVIOUS
<1>1. TypeOK
  BY TypeInit
<1>2. /\ Absent.status = [p \in Processors |-> "unset"]
      /\ Absent.processed = FALSE /\ Absent.maxed = FALSE /\ Absent.retries = 0
  BY DEF Absent, Fresh
<1>3. \A c \in Name : CopyOK(c, Absent, Absent, {}, 0)
  <2> SUFFICES ASSUME NEW c \in Name PROVE CopyOK(c, Absent, Absent, {}, 0)
    OBVIOUS
  <2>1. Honest(c, Absent, {}) /\ Counted(Absent, 0)
    BY <1>2, ConfigAssumption DEF Honest, Counted
  <2> QED
    BY <2>1, AbsentType, CopyOfItself
<1>4. StoreGood /\ CacheGood
  BY <1>3 DEF Init, APIInit, StoreGood, CacheGood, Good
<1>5. WatchGood /\ JobGood /\ ClearGood
  BY DEF Init, APIInit, WatchGood, JobGood, ClearGood, NoJob
<1> QED
  BY <1>1, <1>4, <1>5 DEF IInv

(* Steps that only move names, clocks and lists about. *)
LEMMA InvIdle ==
  ASSUME IInv, TypeOK', UNCHANGED <<store, watch, cache, delivered, failedRuns>>,
         \A c \in Name : job'[c] = job[c] \/ job'[c].at = 0,
         clearItems' \subseteq clearItems
  PROVE  IInv'
<1>1. \A c \in Name : failedRuns'[c] >= failedRuns[c]
  BY ConfigAssumption DEF IInv, TypeOK
<1>2. /\ \A c \in Name, cpy \in ConfigMap :
            Good(c, cpy) => CopyOK(c, cpy, store'[c], delivered', failedRuns'[c])
      /\ StoreGood' /\ CacheGood' /\ WatchGood'
  BY <1>1, NoWriteKeepsGood DEF TypeOK
<1> QED
  BY <1>2, HandsKeepGood DEF IInv

LEMMA InvPublish ==
  ASSUME IInv, TypeOK', NEW n \in Name, Publish(n)
  PROVE  IInv'
<1>1. PICK msg \in Payloads : Write(n, Fresh(store[n].gen + 1, msg))
  BY DEF Publish
<1> DEFINE obj == Fresh(store[n].gen + 1, msg)
<1>2. store[n].gen \in Nat
  BY DEF IInv, TypeOK, ConfigMap
<1>3. obj \in ConfigMap
  BY <1>2, FreshType
<1>4. /\ obj.gen = store[n].gen + 1 /\ obj.processed = FALSE /\ obj.maxed = FALSE
      /\ obj.retries = 0 /\ obj.status = [p \in Processors |-> "unset"]
  BY DEF Fresh
<1>5. /\ failedRuns' = [failedRuns EXCEPT ![n] = 0]
      /\ failedRuns' \in [Name -> 0 .. MaxNumberOfRetries + 1]
      /\ failedRuns \in [Name -> 0 .. MaxNumberOfRetries + 1]
  BY DEF Publish, IInv, TypeOK
<1> HIDE DEF obj
<1>6. Honest(n, obj, delivered) /\ Counted(obj, failedRuns'[n])
  BY <1>4, <1>5, ConfigAssumption DEF Honest, Counted
<1>7. Write(n, obj)
  BY <1>1 DEF obj
<1>8. \A c \in Name : c # n => failedRuns'[c] >= failedRuns[c]
  BY <1>5, ConfigAssumption
<1>9. obj.gen > store[n].gen
  BY <1>2, <1>4
<1>10. delivered' = delivered /\ job' = job /\ clearItems' = clearItems
  BY DEF Publish
<1>11. /\ \A c \in Name, cpy \in ConfigMap :
             Good(c, cpy) => CopyOK(c, cpy, store'[c], delivered', failedRuns'[c])
       /\ StoreGood' /\ CacheGood' /\ WatchGood'
  BY <1>3, <1>5, <1>6, <1>7, <1>8, <1>9, <1>10, WriteKeepsGood
<1> QED
  BY <1>10, <1>11, HandsKeepGood DEF IInv

LEMMA InvDeliver ==
  ASSUME IInv, TypeOK', NEW n \in Name, Deliver(n)
  PROVE  IInv'
<1>1. /\ store' = store /\ delivered' = delivered /\ failedRuns' = failedRuns
      /\ job' = job /\ clearItems' = clearItems
      /\ cache' = [cache EXCEPT ![n] = Head(watch[n])]
      /\ watch' = [watch EXCEPT ![n] = Tail(@)]
      /\ watch[n] # <<>>
  BY DEF Deliver, Observe
<1>2. /\ cache \in [Name -> ConfigMap] /\ watch \in [Name -> Seq(ConfigMap)]
      /\ watch[n] \in Seq(ConfigMap)
  BY DEF IInv, TypeOK
<1>3. \A c \in Name : failedRuns'[c] >= failedRuns[c]
  BY <1>1, ConfigAssumption DEF IInv, TypeOK
<1>4. /\ \A c \in Name, cpy \in ConfigMap :
            Good(c, cpy) => CopyOK(c, cpy, store'[c], delivered', failedRuns'[c])
      /\ StoreGood'
  BY <1>1, <1>3, NoWriteKeepsGood DEF TypeOK
<1>5. CacheGood'
  <2> SUFFICES ASSUME NEW c \in Name
               PROVE  CopyOK(c, cache'[c], store'[c], delivered', failedRuns'[c])
    BY DEF CacheGood, Good
  <2>1. CASE c = n
    <3>1. 1 \in 1 .. Len(watch[n]) /\ Head(watch[n]) = watch[n][1]
      BY <1>1, <1>2
    <3>2. watch[n][1] \in ConfigMap /\ Good(n, watch[n][1])
      BY <1>2, <3>1 DEF IInv, WatchGood
    <3> QED
      BY <1>1, <1>2, <1>4, <2>1, <3>1, <3>2
  <2>2. CASE c # n
    <3>1. cache'[c] = cache[c] /\ cache[c] \in ConfigMap /\ Good(c, cache[c])
      BY <1>1, <1>2, <2>2 DEF IInv, CacheGood
    <3> QED
      BY <1>4, <3>1
  <2> QED
    BY <2>1, <2>2
<1>6. WatchGood'
  <2> SUFFICES ASSUME NEW c \in Name, NEW i \in 1 .. Len(watch'[c])
               PROVE  CopyOK(c, watch'[c][i], store'[c], delivered', failedRuns'[c])
    BY DEF WatchGood, Good
  <2>1. PICK k \in 1 .. Len(watch[c]) : watch'[c][i] = watch[c][k]
    <3>1. CASE c = n
      <4>1. /\ watch'[n] = Tail(watch[n])
            /\ i + 1 \in 1 .. Len(watch[n])
            /\ Tail(watch[n])[i] = watch[n][i + 1]
        BY <1>1, <1>2, <3>1
      <4> QED
        BY <3>1, <4>1
    <3>2. CASE c # n
      BY <1>1, <1>2, <3>2
    <3> QED
      BY <3>1, <3>2
  <2>2. watch[c][k] \in ConfigMap /\ Good(c, watch[c][k])
    BY <1>2, <2>1 DEF IInv, WatchGood
  <2> QED
    BY <1>4, <2>1, <2>2
<1> QED
  BY <1>1, <1>4, <1>5, <1>6, HandsKeepGood DEF IInv

LEMMA InvReconcile ==
  ASSUME IInv, TypeOK', NEW n \in Name, Reconcile(n)
  PROVE  IInv'
<1>1. /\ UNCHANGED <<store, watch, cache, delivered, failedRuns, clearItems>>
      /\ job' = job \/ job' = [job EXCEPT ![n] = [at |-> 1, obj |-> cache[n]]]
  BY DEF Reconcile
<1>2. \A c \in Name : failedRuns'[c] >= failedRuns[c]
  BY <1>1, ConfigAssumption DEF IInv, TypeOK
<1>3. /\ \A c \in Name, cpy \in ConfigMap :
            Good(c, cpy) => CopyOK(c, cpy, store'[c], delivered', failedRuns'[c])
      /\ StoreGood' /\ CacheGood' /\ WatchGood'
  BY <1>1, <1>2, NoWriteKeepsGood DEF TypeOK
<1>4. ClearGood'
  BY <1>1, <1>3, HandsKeepGood
<1>5. JobGood'
  <2> SUFFICES ASSUME NEW c \in Name, job'[c].at # 0
               PROVE  /\ CopyOK(c, job'[c].obj, store'[c], delivered', failedRuns'[c])
                      /\ Visited(job'[c])
    BY DEF JobGood, Good, Visited
  <2>1. CASE job'[c] = job[c]
    BY <1>3, <2>1 DEF IInv, TypeOK, JobGood
  <2>2. CASE job'[c] # job[c]
    <3>1. job'[c] = [at |-> 1, obj |-> cache[c]]
      BY <1>1, <2>2 DEF IInv, TypeOK
    <3>2. cache[c] \in ConfigMap /\ Good(c, cache[c])
      BY DEF IInv, TypeOK, CacheGood
    <3>3. Visited(job'[c])
      BY <3>1 DEF Visited
    <3> QED
      BY <1>3, <3>1, <3>2, <3>3
  <2> QED
    BY <2>1, <2>2
<1> QED
  BY <1>3, <1>4, <1>5 DEF IInv

LEMMA InvRunPostProcessor ==
  ASSUME IInv, TypeOK', NEW n \in Name, RunPostProcessor(n)
  PROVE  IInv'
<1> DEFINE j == job[n]
           p == PostProcessors[j.at]
<1>1. /\ UNCHANGED <<store, watch, cache, failedRuns, clearItems>>
      /\ j.at \in 1 .. Len(PostProcessors)
      /\ p \in Processors
  BY LastStepNat DEF RunPostProcessor
<1>2. j.obj \in ConfigMap /\ Good(n, j.obj) /\ Visited(j)
  BY <1>1 DEF IInv, TypeOK, JobGood
<1>3. delivered \subseteq delivered'
  BY DEF RunPostProcessor
<1>4. \A c \in Name : failedRuns'[c] >= failedRuns[c]
  BY <1>1, ConfigAssumption DEF IInv, TypeOK
<1>5. /\ \A c \in Name, cpy \in ConfigMap :
            Good(c, cpy) => CopyOK(c, cpy, store'[c], delivered', failedRuns'[c])
      /\ StoreGood' /\ CacheGood' /\ WatchGood'
  BY <1>1, <1>3, <1>4, NoWriteKeepsGood DEF TypeOK
<1>6. ClearGood'
  BY <1>1, <1>5, HandsKeepGood
<1>7. /\ CopyOK(n, job'[n].obj, store'[n], delivered', failedRuns'[n])
      /\ Visited(job'[n])
  <2>1. CASE /\ j.obj.status[p] = "success"
             /\ job' = [job EXCEPT ![n].at = @ + 1]
    <3>1. job'[n].obj = j.obj /\ job'[n].at = j.at + 1
      BY <2>1 DEF IInv, TypeOK
    <3>2. Visited(job'[n])
      BY <1>1, <1>2, <2>1, <3>1 DEF Visited
    <3> QED
      BY <1>2, <1>5, <3>1, <3>2
  <2>2. CASE /\ j.obj.status[p] # "success"
             /\ \E out \in Outcomes(p, j.obj.msg) :
                  /\ job' = [job EXCEPT ![n] =
                               [at |-> j.at + 1, obj |-> [j.obj EXCEPT !.status[p] = out[1]]]]
                  /\ delivered' = IF out[2] = "sent"
                                  THEN delivered \cup {<<n, j.obj.gen, p>>} ELSE delivered
    <3>1. PICK out \in Outcomes(p, j.obj.msg) :
                  /\ job' = [job EXCEPT ![n] =
                               [at |-> j.at + 1, obj |-> [j.obj EXCEPT !.status[p] = out[1]]]]
                  /\ delivered' = IF out[2] = "sent"
                                  THEN delivered \cup {<<n, j.obj.gen, p>>} ELSE delivered
      BY <2>2
    <3> DEFINE new == [j.obj EXCEPT !.status[p] = out[1]]
    <3>2. job'[n].at = j.at + 1 /\ job'[n].obj = new
      BY <3>1 DEF IInv, TypeOK
    <3>3. /\ new.status = [j.obj.status EXCEPT ![p] = out[1]]
          /\ new.rv = j.obj.rv /\ new.gen = j.obj.gen /\ new.msg = j.obj.msg
          /\ new.retries = j.obj.retries /\ new.maxed = j.obj.maxed
          /\ new.processed = j.obj.processed
      BY <1>2 DEF ConfigMap
    <3>4. j.obj.status \in [Processors -> {"unset", "success", "failure"}]
      BY <1>2 DEF ConfigMap
    <3>5. /\ out[1] \in {"success", "failure"}
          /\ out[1] = "success" /\ Pushes(p, j.obj.msg) => out[2] = "sent"
      BY OutcomesHonest
    <3>6. CopyOK(n, j.obj, store'[n], delivered', failedRuns'[n])
      BY <1>2, <1>5
    <3> HIDE DEF new
    <3>7. j.obj.processed = FALSE \/ ~j.obj.processed
      BY <1>1, <1>2, <2>2 DEF Good, CopyOK, Honest
    <3>8. Honest(n, new, delivered')
      <4>1. ASSUME NEW q \in Processors, new.status[q] = "success", Pushes(q, new.msg)
            PROVE  <<n, new.gen, q>> \in delivered'
        <5>1. CASE q = p
          BY <1>1, <3>1, <3>3, <3>4, <3>5, <4>1, <5>1
        <5>2. CASE q # p
          BY <3>3, <3>4, <3>6, <4>1, <5>2 DEF CopyOK, Honest
        <5> QED
          BY <5>1, <5>2
      <4> QED
        BY <3>3, <3>7, <4>1 DEF Honest
    <3>9. new.rv = store'[n].rv => Covers(new, store'[n])
      <4> SUFFICES ASSUME j.obj.rv = store'[n].rv, Covers(j.obj, store'[n])
                   PROVE  Covers(new, store'[n])
        BY <3>3, <3>6 DEF CopyOK
      <4>1. \A q \in Processors : store'[n].status[q] = "success" => new.status[q] = "success"
        BY <2>2, <3>3, <3>4 DEF Covers
      <4> QED
        BY <3>3, <4>1 DEF Covers
    <3>10. CopyOK(n, new, store'[n], delivered', failedRuns'[n])
      BY <3>3, <3>6, <3>8, <3>9 DEF CopyOK, Counted
    <3>11. Visited(job'[n])
      <4> SUFFICES ASSUME NEW i \in 1 .. (job'[n].at - 1)
                   PROVE  new.status[PostProcessors[i]] # "unset"
        BY <3>2 DEF Visited
      <4>1. PostProcessors[i] \in Processors
        BY <1>1, <3>2, LastStepNat
      <4>2. CASE i = j.at
        BY <1>1, <3>3, <3>4, <3>5, <4>2
      <4>3. CASE i # j.at
        <5>1. i \in 1 .. (j.at - 1)
          BY <1>1, <3>2, <4>3
        <5>2. j.obj.status[PostProcessors[i]] # "unset"
          BY <1>2, <5>1 DEF Visited
        <5> QED
          BY <3>3, <3>4, <3>5, <4>1, <5>2
      <4> QED
        BY <4>2, <4>3
    <3> QED
      BY <3>2, <3>10, <3>11
  <2> QED
    BY <2>1, <2>2 DEF RunPostProcessor
<1>8. JobGood'
  <2> SUFFICES ASSUME NEW c \in Name, job'[c].at # 0
               PROVE  /\ CopyOK(c, job'[c].obj, store'[c], delivered', failedRuns'[c])
                      /\ Visited(job'[c])
    BY DEF JobGood, Good, Visited
  <2>1. CASE c = n
    BY <1>7, <2>1
  <2>2. CASE c # n
    <3>1. job'[c] = job[c]
      BY <2>2 DEF RunPostProcessor, IInv, TypeOK
    <3> QED
      BY <1>5, <3>1 DEF IInv, TypeOK, JobGood
  <2> QED
    BY <2>1, <2>2
<1> QED
  BY <1>5, <1>6, <1>8 DEF IInv

(* At the end of the loop every processor has an outcome. *)
LEMMA AllVisited ==
  ASSUME NEW n \in Name, job[n].at = LastStep, Visited(job[n])
  PROVE  \A p \in Processors : job[n].obj.status[p] # "unset"
BY LastStepNat, ConfigAssumption DEF Visited, Processors, LastStep

(* The server takes a write only of a copy of what is stored. *)
LEMMA TakenIsCurrent ==
  ASSUME NEW n \in Name, NEW obj \in ConfigMap, UpdateTaken(n, obj), Good(n, obj)
  PROVE  /\ Covers(obj, store[n]) /\ obj.gen = store[n].gen
         /\ Honest(n, obj, delivered) /\ Counted(obj, failedRuns[n])
BY DEF UpdateTaken, Accepts, Good, CopyOK, Covers

LEMMA InvFinishReconcile ==
  ASSUME IInv, TypeOK', NEW n \in Name, FinishReconcile(n)
  PROVE  IInv'
<1> DEFINE obj == job[n].obj
<1>1. /\ job' = [job EXCEPT ![n] = NoJob]
      /\ CountRun(n, obj)
      /\ UNCHANGED <<delivered, clearItems>>
      /\ job[n].at = LastStep
  BY DEF FinishReconcile
<1>2. /\ obj \in ConfigMap /\ Good(n, obj) /\ Visited(job[n])
      /\ \A c \in Name : job'[c] = job[c] \/ job'[c].at = 0
  BY <1>1, LastStepNat DEF IInv, TypeOK, JobGood, NoJob
<1>3. /\ failedRuns' \in [Name -> 0 .. MaxNumberOfRetries + 1]
      /\ \A c \in Name : failedRuns[c] <= failedRuns'[c]
      /\ Failing(obj) /\ obj.gen = store[n].gen =>
            \/ failedRuns'[n] = failedRuns[n] + 1
            \/ failedRuns'[n] > MaxNumberOfRetries
  BY <1>1, <1>2, CountRunGrows DEF IInv
<1>4. \A c \in Name : failedRuns[c] \in Nat /\ failedRuns'[c] \in Nat
  BY <1>3, ConfigAssumption DEF IInv, TypeOK
<1>5. CASE UpdateTaken(n, obj) /\ Write(n, Concluded(obj))
  <2>1. /\ obj.gen = store[n].gen
        /\ Honest(n, obj, delivered) /\ Counted(obj, failedRuns[n])
    BY <1>2, <1>5, TakenIsCurrent
  <2>2. \A p \in Processors : obj.status[p] # "unset"
    BY <1>1, <1>2, AllVisited
  <2>3. /\ Honest(n, Concluded(obj), delivered)
        /\ Counted(Concluded(obj), failedRuns'[n])
        /\ Concluded(obj).gen = store[n].gen
    BY <1>2, <1>3, <1>4, <2>1, <2>2, ConcludedGood DEF IInv, TypeOK, Covers
  <2>4. Concluded(obj) \in ConfigMap
    BY <1>2, ConcludedType DEF IInv, TypeOK
  <2>5. /\ \A c \in Name, cpy \in ConfigMap :
              Good(c, cpy) => CopyOK(c, cpy, store'[c], delivered', failedRuns'[c])
        /\ StoreGood' /\ CacheGood' /\ WatchGood'
    BY <1>1, <1>3, <1>4, <1>5, <2>3, <2>4, WriteKeepsGood
  <2> QED
    BY <1>1, <1>2, <2>5, HandsKeepGood DEF IInv
<1>6. CASE UNCHANGED apiVars
  <2>1. \A c \in Name : failedRuns'[c] >= failedRuns[c]
    BY <1>3, <1>4
  <2>2. /\ \A c \in Name, cpy \in ConfigMap :
              Good(c, cpy) => CopyOK(c, cpy, store'[c], delivered', failedRuns'[c])
        /\ StoreGood' /\ CacheGood' /\ WatchGood'
    BY <1>1, <1>3, <1>6, <2>1, NoWriteKeepsGood DEF apiVars
  <2> QED
    BY <1>1, <1>2, <2>2, HandsKeepGood DEF IInv
<1> QED
  BY <1>5, <1>6 DEF FinishReconcile

LEMMA InvClearDeferredTick ==
  ASSUME IInv, TypeOK', NEW sel \in SUBSET Name, ClearDeferredTick(sel)
  PROVE  IInv'
<1>1. /\ UNCHANGED <<store, watch, cache, job, delivered, failedRuns>>
      /\ \E run \in 1 .. MaxListed : clearItems' = clearItems \cup {<<c, cache[c], run>> : c \in sel}
  BY DEF ClearDeferredTick
<1>2. \A c \in Name : failedRuns'[c] >= failedRuns[c]
  BY <1>1, ConfigAssumption DEF IInv, TypeOK
<1>3. /\ \A c \in Name, cpy \in ConfigMap :
            Good(c, cpy) => CopyOK(c, cpy, store'[c], delivered', failedRuns'[c])
      /\ StoreGood' /\ CacheGood' /\ WatchGood'
  BY <1>1, <1>2, NoWriteKeepsGood DEF TypeOK
<1>4. JobGood'
  BY <1>1, <1>3, HandsKeepGood
<1>5. ClearGood'
  <2> SUFFICES ASSUME NEW item \in clearItems'
               PROVE  CopyOK(item[1], item[2], store'[item[1]], delivered', failedRuns'[item[1]])
    BY DEF ClearGood, Good
  <2>1. item[1] \in Name /\ item[2] \in ConfigMap /\ Good(item[1], item[2])
    <3>1. CASE item \in clearItems
      BY <3>1, ItemType DEF IInv, ClearGood
    <3>2. CASE item \notin clearItems
      <4>1. PICK c \in sel, run \in 1 .. MaxListed : item = <<c, cache[c], run>>
        BY <1>1, <3>2
      <4> QED
        BY <4>1 DEF IInv, TypeOK, CacheGood
    <3> QED
      BY <3>1, <3>2
  <2> QED
    BY <1>3, <2>1
<1> QED
  BY <1>3, <1>4, <1>5 DEF IInv

LEMMA InvClearDeferredItem ==
  ASSUME IInv, TypeOK', NEW item \in clearItems, ClearDeferredItem(item)
  PROVE  IInv'
<1> DEFINE n == item[1]
           obj == item[2]
           new == [obj EXCEPT !.deferred = NoDeferral]
<1>1. /\ UNCHANGED <<job, delivered, failedRuns>>
      /\ clearItems' \subseteq clearItems
  BY DEF ClearDeferredItem
<1>2. n \in Name /\ obj \in ConfigMap /\ Good(n, obj)
  BY ItemType DEF IInv, ClearGood
<1>3. CASE UpdateTaken(n, obj) /\ Write(n, new)
  <2>1. /\ obj.gen = store[n].gen
        /\ Honest(n, obj, delivered) /\ Counted(obj, failedRuns[n])
    BY <1>2, <1>3, TakenIsCurrent
  <2>2. new \in ConfigMap
    BY <1>2, ChangedType
  <2>3. /\ new.gen = obj.gen /\ new.status = obj.status /\ new.msg = obj.msg
        /\ new.processed = obj.processed /\ new.maxed = obj.maxed
        /\ new.retries = obj.retries
    BY <1>2 DEF ConfigMap
  <2> HIDE DEF new
  <2>4. Honest(n, new, delivered) /\ Counted(new, failedRuns'[n])
    BY <1>1, <2>1, <2>3 DEF Honest, Counted
  <2>5. /\ failedRuns' \in [Name -> 0 .. MaxNumberOfRetries + 1]
        /\ \A c \in Name : failedRuns'[c] >= failedRuns[c]
    BY <1>1, ConfigAssumption DEF IInv, TypeOK
  <2>6. /\ \A c \in Name, cpy \in ConfigMap :
              Good(c, cpy) => CopyOK(c, cpy, store'[c], delivered', failedRuns'[c])
        /\ StoreGood' /\ CacheGood' /\ WatchGood'
    BY <1>1, <1>2, <1>3, <2>1, <2>2, <2>3, <2>4, <2>5, WriteKeepsGood
  <2> QED
    BY <1>1, <2>6, HandsKeepGood DEF IInv
<1>4. CASE UNCHANGED apiVars
  BY <1>1, <1>4, InvIdle DEF apiVars
<1> QED
  BY <1>3, <1>4 DEF ClearDeferredItem, apiVars

LEMMA InvBurnItem ==
  ASSUME IInv, TypeOK', NEW n \in Name, BurnItem(n)
  PROVE  IInv'
<1> DEFINE new == [store[n] EXCEPT !.exists = FALSE]
<1>1. UNCHANGED <<job, clearItems, delivered, failedRuns>>
  BY DEF BurnItem
<1>2. store[n] \in ConfigMap /\ Good(n, store[n])
  BY DEF IInv, TypeOK, StoreGood
<1>3. CASE Write(n, new)
  <2>1. new \in ConfigMap
    BY <1>2, ChangedType
  <2>2. /\ new.gen = store[n].gen /\ new.status = store[n].status
        /\ new.msg = store[n].msg /\ new.processed = store[n].processed
        /\ new.maxed = store[n].maxed /\ new.retries = store[n].retries
    BY <1>2 DEF ConfigMap
  <2> HIDE DEF new
  <2>3. Honest(n, new, delivered) /\ Counted(new, failedRuns'[n])
    BY <1>1, <1>2, <2>2 DEF Good, CopyOK, Honest, Counted
  <2>4. /\ failedRuns' \in [Name -> 0 .. MaxNumberOfRetries + 1]
        /\ \A c \in Name : failedRuns'[c] >= failedRuns[c]
    BY <1>1, ConfigAssumption DEF IInv, TypeOK
  <2>5. /\ \A c \in Name, cpy \in ConfigMap :
              Good(c, cpy) => CopyOK(c, cpy, store'[c], delivered', failedRuns'[c])
        /\ StoreGood' /\ CacheGood' /\ WatchGood'
    BY <1>1, <1>3, <2>1, <2>2, <2>3, <2>4, WriteKeepsGood
  <2> QED
    BY <1>1, <2>5, HandsKeepGood DEF IInv
<1>4. CASE UNCHANGED apiVars
  BY <1>1, <1>4, InvIdle DEF apiVars
<1> QED
  BY <1>3, <1>4 DEF BurnItem, Remove

LEMMA InvCrash ==
  ASSUME IInv, TypeOK', Crash
  PROVE  IInv'
<1>1. /\ UNCHANGED <<store, delivered, failedRuns>>
      /\ cache' = store /\ watch' = [c \in Name |-> <<>>]
      /\ clearItems' = {} /\ \A c \in Name : job'[c].at = 0
  BY DEF Crash, Relist, NoJob
<1>2. \A c \in Name : failedRuns'[c] >= failedRuns[c]
  BY <1>1, ConfigAssumption DEF IInv, TypeOK
<1>3. /\ \A c \in Name, cpy \in ConfigMap :
            Good(c, cpy) => CopyOK(c, cpy, store'[c], delivered', failedRuns'[c])
      /\ StoreGood'
  BY <1>1, <1>2, NoWriteKeepsGood DEF TypeOK
<1>4. CacheGood' /\ WatchGood'
  BY <1>1, <1>3 DEF StoreGood, CacheGood, WatchGood, Good
<1> QED
  BY <1>1, <1>3, <1>4, HandsKeepGood DEF IInv

LEMMA InvNext == IInv /\ [Next]_vars => IInv'
<1> SUFFICES ASSUME IInv, [Next]_vars PROVE IInv'
  OBVIOUS
<1> TypeOK'
  BY TypeNext DEF IInv
<1>1. ASSUME NEW c \in Name, Publish(c) PROVE IInv'
  BY <1>1, InvPublish
<1>2. ASSUME NEW c \in Name, Deliver(c) PROVE IInv'
  BY <1>2, InvDeliver
<1>3. ASSUME NEW c \in Name, Resync(c) PROVE IInv'
  BY <1>3, InvIdle DEF Resync
<1>4. ASSUME NEW c \in Name, Reconcile(c) PROVE IInv'
  BY <1>4, InvReconcile
<1>5. ASSUME NEW c \in Name, Reject(c) \/ PanicInPostProcess(c) PROVE IInv'
  <2>1. \A n \in Name : job'[n] = job[n] \/ job'[n].at = 0
    BY <1>5 DEF Reject, PanicInPostProcess, NoJob, IInv, TypeOK
  <2> QED
    BY <1>5, <2>1, InvIdle DEF Reject, PanicInPostProcess
<1>6. ASSUME NEW c \in Name, RunPostProcessor(c) PROVE IInv'
  BY <1>6, InvRunPostProcessor
<1>7. ASSUME NEW c \in Name, FinishReconcile(c) PROVE IInv'
  BY <1>7, InvFinishReconcile
<1>8. ASSUME NEW c \in Name, BurnItem(c) PROVE IInv'
  BY <1>8, InvBurnItem
<1>9. ASSUME NEW sel \in SUBSET Name, ClearDeferredTick(sel) PROVE IInv'
  BY <1>9, InvClearDeferredTick
<1>10. ASSUME NEW sel \in SUBSET Name, BurnTick(sel) PROVE IInv'
  BY <1>10, InvIdle DEF BurnTick
<1>11. ASSUME NEW item \in clearItems, ClearDeferredItem(item) PROVE IInv'
  BY <1>11, InvClearDeferredItem
<1>12. CASE NamespaceSeen
  BY <1>12, InvIdle DEF NamespaceSeen
<1>13. CASE Minute
  BY <1>13, InvIdle DEF Minute
<1>14. CASE Crash
  BY <1>14, InvCrash
<1>15. CASE UNCHANGED vars
  BY <1>15, InvIdle DEF vars
<1> QED
  BY <1>1, <1>2, <1>3, <1>4, <1>5, <1>6, <1>7, <1>8, <1>9, <1>10, <1>11, <1>12,
     <1>13, <1>14, <1>15 DEF Next

(* The invariant holds throughout. *)
THEOREM Invariance == Spec => []IInv
BY InvInit, InvNext, PTL DEF Spec

(* A ConfigMap marked lagoon.sh/insightsProcessed has been handed, with the *)
(* payload it holds, to every post-processor that wants it                  *)
(* (configmap_controller.go:143-188): no stale copy, crash or failed call   *)
(* puts the mark on a payload that was not delivered.                       *)
THEOREM ProcessedIsDelivered == Spec => []ProcessedMeansDelivered
<1>1. IInv => ProcessedMeansDelivered
  BY DEF IInv, StoreGood, Good, CopyOK, Honest, ProcessedMeansDelivered
<1> QED
  BY <1>1, Invariance, PTL

(* The max-retry label is put on a payload only after more failing runs on  *)
(* it than the configured number of retries (configmap_controller.go:178).  *)
THEOREM AbandonedIsExhausted == Spec => []AbandonedOnlyAfterRetries
<1>1. IInv => AbandonedOnlyAfterRetries
  <2> SUFFICES ASSUME IInv, NEW c \in Name, store[c].maxed
               PROVE  failedRuns[c] > MaxNumberOfRetries
    BY DEF AbandonedOnlyAfterRetries
  <2>1. CopyOK(c, store[c], store[c], delivered, failedRuns[c])
    BY DEF IInv, StoreGood, Good
  <2> QED
    BY <2>1 DEF CopyOK, Counted
<1> QED
  BY <1>1, Invariance, PTL

-----------------------------------------------------------------------------
(* What a step may do to a stored object. *)

(* Only a build changes a payload, and then to a later one; any other write *)
(* keeps what is recorded of it.                                            *)
LEMMA StepCovers ==
  ASSUME IInv, [Next]_vars, NEW n \in Name
  PROVE  store'[n].gen > store[n].gen \/ Covers(store'[n], store[n])
<1> DEFINE Kept == store'[n].gen > store[n].gen \/ Covers(store'[n], store[n])
<1>1. store \in [Name -> ConfigMap] /\ store[n] \in ConfigMap
  BY DEF IInv, TypeOK
<1>2. ASSUME store' = store PROVE Kept
  BY <1>1, <1>2 DEF Covers, ConfigMap
<1>3. ASSUME NEW c \in Name, NEW obj \in ConfigMap, Write(c, obj),
             obj.gen > store[c].gen \/ Covers(obj, store[c])
      PROVE  Kept
  <2>1. CASE c = n
    <3>1. store'[n] = [obj EXCEPT !.rv = store[n].rv + 1]
      BY <1>1, <1>3, <2>1 DEF Write, Versioned
    <3>2. /\ store'[n].gen = obj.gen /\ store'[n].status = obj.status
          /\ store'[n].processed = obj.processed /\ store'[n].maxed = obj.maxed
          /\ store'[n].retries = obj.retries
      BY <3>1 DEF ConfigMap
    <3> QED
      BY <1>3, <2>1, <3>2 DEF Covers
  <2>2. CASE c # n
    BY <1>1, <1>3, <2>2 DEF Write, Covers, ConfigMap
  <2> QED
    BY <2>1, <2>2
<1> HIDE DEF Kept
<1>4. ASSUME NEW c \in Name, Publish(c) PROVE Kept
  <2>1. PICK msg \in Payloads : Write(c, Fresh(store[c].gen + 1, msg))
    BY <1>4 DEF Publish
  <2>2. store[c].gen + 1 \in Nat /\ store[c].gen + 1 > store[c].gen
    BY <1>1 DEF ConfigMap
  <2>3. Fresh(store[c].gen + 1, msg) \in ConfigMap
    BY <2>2, FreshType
  <2>4. Fresh(store[c].gen + 1, msg).gen = store[c].gen + 1
    BY DEF Fresh
  <2> QED
    BY <1>3, <2>1, <2>2, <2>3, <2>4
<1>5. ASSUME NEW c \in Name, FinishReconcile(c) PROVE Kept
  <2> DEFINE obj == job[c].obj
  <2>1. obj \in ConfigMap /\ Good(c, obj) /\ Visited(job[c]) /\ job[c].at = LastStep
    BY <1>5, LastStepNat DEF FinishReconcile, IInv, TypeOK, JobGood
  <2>2. CASE UpdateTaken(c, obj) /\ Write(c, Concluded(obj))
    <3>1. /\ Covers(obj, store[c]) /\ Honest(c, obj, delivered)
          /\ Counted(obj, failedRuns[c])
      BY <2>1, <2>2, TakenIsCurrent
    <3>2. Concluded(obj) \in ConfigMap
      BY <2>1, ConcludedType DEF IInv, TypeOK
    <3>3. Covers(Concluded(obj), obj)
      <4>1. \A p \in Processors : obj.status[p] # "unset"
        BY <2>1, AllVisited
      <4>2. failedRuns[c] \in Nat /\ failedRuns[c] + 1 \in Nat /\ now \in Nat
        BY ConfigAssumption DEF IInv, TypeOK
      <4> QED
        BY <2>1, <3>1, <4>1, <4>2, ConcludedGood
    <3>4. Covers(Concluded(obj), store[c])
      BY <1>1, <2>1, <3>1, <3>2, <3>3 DEF Covers, ConfigMap
    <3> QED
      BY <1>3, <2>2, <3>2, <3>4
  <2>3. CASE UNCHANGED apiVars
    BY <1>2, <2>3 DEF apiVars
  <2> QED
    BY <1>5, <2>2, <2>3 DEF FinishReconcile
<1>6. ASSUME NEW item \in clearItems, ClearDeferredItem(item) PROVE Kept
  <2> DEFINE c == item[1]
             obj == item[2]
             new == [obj EXCEPT !.deferred = NoDeferral]
  <2>1. c \in Name /\ obj \in ConfigMap /\ Good(c, obj) /\ new \in ConfigMap
    BY ItemType, ChangedType DEF IInv, ClearGood
  <2>2. CASE UpdateTaken(c, obj) /\ Write(c, new)
    <3>1. Covers(obj, store[c])
      BY <2>1, <2>2, TakenIsCurrent
    <3>2. /\ new.gen = obj.gen /\ new.status = obj.status
          /\ new.processed = obj.processed /\ new.maxed = obj.maxed
          /\ new.retries = obj.retries
      BY <2>1 DEF ConfigMap
    <3> HIDE DEF new
    <3>3. Covers(new, store[c])
      BY <3>1, <3>2 DEF Covers
    <3> QED
      BY <1>3, <2>1, <2>2, <3>3
  <2>3. CASE UNCHANGED apiVars
    BY <1>2, <2>3 DEF apiVars
  <2> QED
    BY <1>6, <2>2, <2>3 DEF ClearDeferredItem, apiVars
<1>7. ASSUME NEW c \in Name, BurnItem(c) PROVE Kept
  <2> DEFINE new == [store[c] EXCEPT !.exists = FALSE]
  <2>1. CASE Write(c, new)
    <3>1. new \in ConfigMap /\ store[c] \in ConfigMap
      BY <1>1, ChangedType
    <3>2. /\ new.gen = store[c].gen /\ new.status = store[c].status
          /\ new.processed = store[c].processed /\ new.maxed = store[c].maxed
          /\ new.retries = store[c].retries /\ store[c].retries \in Nat
      BY <3>1 DEF ConfigMap
    <3> HIDE DEF new
    <3>3. Covers(new, store[c])
      BY <3>2 DEF Covers
    <3> QED
      BY <1>3, <2>1, <3>1, <3>3
  <2>2. CASE UNCHANGED apiVars
    BY <1>2, <2>2 DEF apiVars
  <2> QED
    BY <1>7, <2>1, <2>2 DEF BurnItem, Remove
<1>8. ASSUME NEW c \in Name,
             \/ Deliver(c) \/ Resync(c) \/ Reconcile(c) \/ Reject(c)
             \/ RunPostProcessor(c) \/ PanicInPostProcess(c)
      PROVE  Kept
  BY <1>2, <1>8
  DEF Deliver, Observe, Resync, Reconcile, Reject, RunPostProcessor, PanicInPostProcess
<1>9. ASSUME NEW sel \in SUBSET Name, ClearDeferredTick(sel) \/ BurnTick(sel)
      PROVE  Kept
  BY <1>2, <1>9 DEF ClearDeferredTick, BurnTick
<1>10. CASE NamespaceSeen \/ Minute \/ Crash \/ UNCHANGED vars
  <2>1. store' = store
    BY <1>10 DEF NamespaceSeen, Minute, Crash, Relist, vars
  <2> QED
    BY <1>2, <2>1 DEF Kept
<1> QED
  BY <1>4, <1>5, <1>6, <1>7, <1>8, <1>9, <1>10 DEF Next, Kept

(* BatchUpdateCM and the deferred-clear cron never put an earlier payload   *)
(* back over a build's (cmlib.go:62, main.go:625).                          *)
THEOREM PayloadsOnlyAdvance == Spec => NoPayloadRegression
<1>1. IInv /\ [Next]_vars =>
        [\A c \in Name : store'[c].gen >= store[c].gen]_vars
  <2> SUFFICES ASSUME IInv, [Next]_vars, NEW c \in Name
               PROVE  store'[c].gen >= store[c].gen
    OBVIOUS
  <2>1. store[c].gen \in Nat /\ store'[c].gen \in Nat
    BY TypeNext DEF IInv, TypeOK, ConfigMap
  <2> QED
    BY <2>1, StepCovers DEF Covers
<1> QED
  BY <1>1, Invariance, PTL DEF Spec, NoPayloadRegression

(* As long as a payload stays, what its annotations and labels record of it *)
(* stays: success, processed, retries, max-retry (configmap_controller.go:  *)
(* 155-188).                                                                *)
THEOREM OutcomesKept == Spec => OutcomesAreKept
<1>1. IInv /\ [Next]_vars =>
        [\A c \in Name : store'[c].gen = store[c].gen =>
           /\ \A p \in Processors : store[c].status[p] = "success" =>
                                     store'[c].status[p] = "success"
           /\ store[c].processed => store'[c].processed
           /\ store[c].maxed => store'[c].maxed
           /\ store'[c].retries >= store[c].retries]_vars
  <2> SUFFICES ASSUME IInv, [Next]_vars, NEW c \in Name,
                      store'[c].gen = store[c].gen
               PROVE  Covers(store'[c], store[c])
    BY DEF Covers
  <2>1. store[c].gen \in Nat
    BY DEF IInv, TypeOK, ConfigMap
  <2> QED
    BY <2>1, StepCovers
<1> QED
  BY <1>1, Invariance, PTL DEF Spec, OutcomesAreKept

=============================================================================
