---------------------- MODULE ConfigMapDelivery_proofs ----------------------
(***************************************************************************)
(* The reconciler and the crons implement InsightsDelivery: always without *)
(* burn-after-reading, and with it as long as builds leave alone what its  *)
(* cron takes for processed.                                               *)
(*                                                                         *)
(* Most steps stutter.  A write of a copy the server takes changes neither *)
(* the payload nor whether it is there, since that copy is alike to what   *)
(* is stored (DInv); a payload is only marked as processed when what the   *)
(* annotations claim has been handed over (IInv).  The burn cron alone     *)
(* writes on the strength of what it once read: the invariant MarksHold    *)
(* says that what is taken for processed still is.                         *)
(***************************************************************************)
EXTENDS ConfigMapEvents_proofs

(* A reconcile in progress works on an object that was there. *)
JobsThere == \A c \in Name : job[c].at # 0 => job[c].obj.exists

RInv == IInv /\ DInv /\ JobsThere

LEMMA ThereInit == Init => JobsThere
BY DEF Init, JobsThere, NoJob

LEMMA ThereNext ==
  ASSUME RInv, [Next]_vars
  PROVE  JobsThere'
<1>1. job \in [Name -> [at : 0 .. LastStep, obj : ConfigMap]]
  BY DEF RInv, IInv, TypeOK
<1>2. ASSUME \A c \in Name : job'[c] = job[c] \/ job'[c].at = 0 PROVE JobsThere'
  BY <1>2 DEF RInv, JobsThere
<1>3. NoJob.at = 0
  BY DEF NoJob
<1>4. ASSUME NEW n \in Name, Reconcile(n) PROVE JobsThere'
  BY <1>1, <1>4 DEF Reconcile, RInv, JobsThere
<1>5. ASSUME NEW n \in Name, RunPostProcessor(n) PROVE JobsThere'
  <2>1. job[n].at # 0 /\ job[n].obj \in ConfigMap
    BY <1>1, <1>5 DEF RunPostProcessor
  <2>2. /\ \A c \in Name \ {n} : job'[c] = job[c]
        /\ job'[n].obj.exists = job[n].obj.exists
    <3>1. CASE job' = [job EXCEPT ![n].at = @ + 1]
      BY <1>1, <3>1
    <3>2. CASE \E p, out :
                 job' = [job EXCEPT ![n] =
                           [at |-> job[n].at + 1, obj |-> [job[n].obj EXCEPT !.status[p] = out]]]
      BY <1>1, <2>1, <3>2 DEF ConfigMap
    <3> QED
      BY <1>5, <3>1, <3>2 DEF RunPostProcessor
  <2> QED
    BY <2>1, <2>2 DEF RInv, JobsThere
<1>6. ASSUME NEW n \in Name,
             Reject(n) \/ PanicInPostProcess(n) \/ FinishReconcile(n)
      PROVE  JobsThere'
  BY <1>1, <1>2, <1>3, <1>6 DEF Reject, PanicInPostProcess, FinishReconcile
<1>7. ASSUME NEW n \in Name, Publish(n) \/ Deliver(n) \/ Resync(n) \/ BurnItem(n)
      PROVE  JobsThere'
  BY <1>2, <1>7 DEF Publish, Deliver, Resync, BurnItem
<1>8. ASSUME NEW sel \in SUBSET Name, ClearDeferredTick(sel) \/ BurnTick(sel)
      PROVE  JobsThere'
  BY <1>2, <1>8 DEF ClearDeferredTick, BurnTick
<1>9. ASSUME NEW item \in clearItems, ClearDeferredItem(item)
      PROVE  JobsThere'
  BY <1>2, <1>9 DEF ClearDeferredItem
<1>10. CASE NamespaceSeen \/ Minute \/ UNCHANGED vars
  BY <1>2, <1>10 DEF NamespaceSeen, Minute, vars
<1>11. CASE Crash
  BY <1>2, <1>3, <1>11 DEF Crash
<1> QED
  BY <1>4, <1>5, <1>6, <1>7, <1>8, <1>9, <1>10, <1>11 DEF Next

LEMMA RefinedInit == Init => RInv
BY InvInit, DeferralInit, ThereInit DEF RInv

LEMMA RefinedNext == RInv /\ [Next]_vars => RInv'
BY InvNext, DeferralNext, ThereNext DEF RInv

-----------------------------------------------------------------------------
(* What the burn cron goes by.  A name it has listed is processed, and so  *)
(* is one of which a copy on its way to the cron says so.                  *)
BurnsHold == \A c \in Name : c \in burnItems => store[c].processed /\ store[c].gen > 0

CopiesHold ==
  \A c \in Name :
    /\ cache[c].exists /\ cache[c].processed => store[c].processed
    /\ \A i \in DOMAIN watch[c] :
         watch[c][i].exists /\ watch[c][i].processed => store[c].processed

MarksHold == BurnsHold /\ CopiesHold

LEMMA MarksInit == Init => MarksHold
<1> SUFFICES ASSUME Init PROVE MarksHold
  OBVIOUS
<1>1. burnItems = {} /\ \A c \in Name : cache[c] = Absent /\ watch[c] = <<>>
  BY DEF Init, APIInit
<1>2. Absent.exists = FALSE
  BY DEF Absent, Fresh
<1>3. DOMAIN <<>> = {}
  OBVIOUS
<1> QED
  BY <1>1, <1>2, <1>3 DEF MarksHold, BurnsHold, CopiesHold

(* A step gives the cron nothing to go by but what is stored, or what it   *)
(* had before.                                                             *)
LEMMA WriteMarks ==
  ASSUME TypeOK, NEW n \in Name, NEW obj \in ConfigMap, Write(n, obj), NEW c \in Name
  PROVE  /\ cache'[c] = cache[c]
         /\ \A i \in DOMAIN watch'[c] :
              watch'[c][i] = store'[c] \/ (i \in DOMAIN watch[c] /\ watch'[c][i] = watch[c][i])
<1>1. PICK new : new = Versioned(n, obj)
  OBVIOUS
<1>2. /\ store' = [store EXCEPT ![n] = new] /\ cache' = cache
      /\ watch' = [watch EXCEPT ![n] = Append(watch[n], new)]
      /\ store \in [Name -> ConfigMap] /\ watch \in [Name -> Seq(ConfigMap)]
  BY <1>1 DEF Write, TypeOK
<1>3. CASE c = n
  <2>1. PICK s \in Seq(ConfigMap) : s = watch[n]
    BY <1>2
  <2>2. watch'[c] = Append(s, new) /\ store'[c] = new
    BY <1>2, <1>3, <2>1
  <2>3. ASSUME NEW i \in DOMAIN Append(s, new)
        PROVE  Append(s, new)[i] = new \/ (i \in DOMAIN s /\ Append(s, new)[i] = s[i])
    BY <2>1
  <2> QED
    BY <1>2, <1>3, <2>1, <2>2, <2>3
<1>4. CASE c # n
  BY <1>2, <1>4
<1> QED
  BY <1>3, <1>4

LEMMA WrittenKeepsCopies ==
  ASSUME RInv, CopiesHold, [Next]_vars, BuildsWait,
         NEW n \in Name, NEW obj \in ConfigMap, Write(n, obj)
  PROVE  CopiesHold'
<1> SUFFICES ASSUME NEW c \in Name
             PROVE  /\ cache'[c].exists /\ cache'[c].processed => store'[c].processed
                    /\ \A i \in DOMAIN watch'[c] :
                         watch'[c][i].exists /\ watch'[c][i].processed => store'[c].processed
  BY DEF CopiesHold
<1>1. TypeOK
  BY DEF RInv, IInv
<1>2. /\ cache'[c] = cache[c]
      /\ \A i \in DOMAIN watch'[c] :
           watch'[c][i] = store'[c] \/ (i \in DOMAIN watch[c] /\ watch'[c][i] = watch[c][i])
  BY <1>1, WriteMarks
<1>3. CASE store'[c].gen # store[c].gen
  BY <1>2, <1>3 DEF BuildsWait, TakenForProcessed
<1>4. CASE store'[c].gen = store[c].gen
  <2>1. store[c].gen \in Nat
    BY <1>1 DEF TypeOK, ConfigMap
  <2>2. store[c].processed => store'[c].processed
    BY <1>4, <2>1, StepCovers DEF RInv, Covers
  <2> QED
    BY <1>2, <2>2 DEF CopiesHold
<1> QED
  BY <1>3, <1>4

(* An event moves a copy from its way into the cache. *)
LEMMA DeliverKeepsCopies ==
  ASSUME RInv, CopiesHold, NEW n \in Name, Deliver(n)
  PROVE  CopiesHold'
<1>1. /\ store' = store /\ cache \in [Name -> ConfigMap] /\ watch \in [Name -> Seq(ConfigMap)]
      /\ cache' = [cache EXCEPT ![n] = Head(watch[n])]
      /\ watch' = [watch EXCEPT ![n] = Tail(@)]
      /\ watch[n] # <<>>
  BY DEF Deliver, Observe, RInv, IInv, TypeOK
<1>2. PICK s \in Seq(ConfigMap) : s = watch[n] /\ s # <<>>
  BY <1>1
<1>3. PICK t \in Seq(ConfigMap) :
        /\ t = Tail(s) /\ Len(t) = Len(s) - 1
        /\ \A i \in 1 .. Len(t) : t[i] = s[i + 1]
  <2>1. /\ Tail(s) \in Seq(ConfigMap) /\ Len(Tail(s)) = Len(s) - 1
        /\ \A i \in 1 .. Len(Tail(s)) : Tail(s)[i] = s[i + 1]
    BY <1>2, HeadTailProperties
  <2> QED
    BY <2>1, Zenon
<1>4. Len(s) \in Nat \ {0} /\ Head(s) = s[1] /\ DOMAIN s = 1 .. Len(s) /\ DOMAIN t = 1 .. Len(t)
  BY <1>2, <1>3, EmptySeq
<1>5. /\ 1 \in DOMAIN s
      /\ \A i \in DOMAIN t : i + 1 \in DOMAIN s /\ t[i] = s[i + 1]
  BY <1>3, <1>4
<1>6. \A i \in DOMAIN s : s[i].exists /\ s[i].processed => store[n].processed
  BY <1>2 DEF CopiesHold
<1>7. /\ cache'[n] = s[1] /\ watch'[n] = t
      /\ \A c \in Name \ {n} : cache'[c] = cache[c] /\ watch'[c] = watch[c]
  BY <1>1, <1>2, <1>3, <1>4
<1> SUFFICES ASSUME NEW c \in Name
             PROVE  /\ cache'[c].exists /\ cache'[c].processed => store[c].processed
                    /\ \A i \in DOMAIN watch'[c] :
                         watch'[c][i].exists /\ watch'[c][i].processed => store[c].processed
  BY <1>1 DEF CopiesHold
<1>8. CASE c = n
  BY <1>5, <1>6, <1>7, <1>8
<1>9. CASE c # n
  BY <1>7, <1>9 DEF CopiesHold
<1> QED
  BY <1>8, <1>9

LEMMA CopiesNext ==
  ASSUME RInv, CopiesHold, [Next]_vars, BuildsWait
  PROVE  CopiesHold'
<1>1. ASSUME UNCHANGED apiVars PROVE CopiesHold'
  BY <1>1 DEF apiVars, CopiesHold
<1>2. ASSUME NEW n \in Name, Publish(n) PROVE CopiesHold'
  <2>1. PICK msg \in Payloads : Write(n, Fresh(store[n].gen + 1, msg))
    BY <1>2 DEF Publish
  <2>2. store[n].gen + 1 \in Nat
    BY DEF RInv, IInv, TypeOK, ConfigMap
  <2> QED
    BY <2>1, <2>2, FreshType, WrittenKeepsCopies
<1>3. ASSUME NEW n \in Name, Deliver(n) PROVE CopiesHold'
  BY <1>3, DeliverKeepsCopies
<1>4. ASSUME NEW n \in Name, FinishReconcile(n) PROVE CopiesHold'
  <2>1. Concluded(job[n].obj) \in ConfigMap
    BY ConcludedType DEF RInv, IInv, TypeOK
  <2> QED
    BY <1>1, <1>4, <2>1, WrittenKeepsCopies DEF FinishReconcile
<1>5. ASSUME NEW n \in Name, BurnItem(n) PROVE CopiesHold'
  <2>1. [store[n] EXCEPT !.exists = FALSE] \in ConfigMap
    BY ChangedType DEF RInv, IInv, TypeOK
  <2> QED
    BY <1>1, <1>5, <2>1, WrittenKeepsCopies DEF BurnItem, Remove
<1>6. ASSUME NEW item \in clearItems, ClearDeferredItem(item) PROVE CopiesHold'
  <2>1. item[1] \in Name /\ item[2] \in ConfigMap
    BY ItemType DEF RInv, IInv
  <2>2. [item[2] EXCEPT !.deferred = NoDeferral] \in ConfigMap
    BY <2>1, ChangedType
  <2> QED
    BY <1>1, <1>6, <2>1, <2>2, WrittenKeepsCopies DEF ClearDeferredItem, apiVars
<1>7. ASSUME NEW n \in Name,
             \/ Resync(n) \/ Reconcile(n) \/ Reject(n)
             \/ RunPostProcessor(n) \/ PanicInPostProcess(n)
      PROVE  UNCHANGED apiVars
  BY <1>7 DEF Resync, Reconcile, Reject, RunPostProcessor, PanicInPostProcess, apiVars
<1>8. ASSUME NEW sel \in SUBSET Name, ClearDeferredTick(sel) \/ BurnTick(sel)
      PROVE  UNCHANGED apiVars
  BY <1>8 DEF ClearDeferredTick, BurnTick, apiVars
<1>9. ASSUME NamespaceSeen \/ Minute \/ UNCHANGED vars PROVE UNCHANGED apiVars
  BY <1>9 DEF NamespaceSeen, Minute, vars, apiVars
<1>10. CASE Crash
  <2>1. store' = store /\ cache' = store /\ watch' = [c \in Name |-> <<>>]
    BY <1>10 DEF Crash, Relist
  <2>2. DOMAIN <<>> = {}
    OBVIOUS
  <2> QED
    BY <2>1, <2>2 DEF CopiesHold
<1> QED
  BY <1>1, <1>2, <1>3, <1>4, <1>5, <1>6, <1>7, <1>8, <1>9, <1>10 DEF Next

LEMMA BurnsNext ==
  ASSUME RInv, MarksHold, [Next]_vars, BuildsWait
  PROVE  BurnsHold'
<1>1. ASSUME NEW c \in burnItems, c \in Name
      PROVE  store'[c].processed /\ store'[c].gen > 0
  <2>1. store[c].gen \in Nat /\ store[c].processed /\ store[c].gen > 0
    BY <1>1 DEF RInv, IInv, TypeOK, ConfigMap, MarksHold, BurnsHold
  <2>2. store'[c].gen = store[c].gen
    BY <1>1 DEF BuildsWait, TakenForProcessed
  <2>3. Covers(store'[c], store[c])
    BY <1>1, <2>1, <2>2, StepCovers DEF RInv
  <2> QED
    BY <2>1, <2>2, <2>3 DEF Covers
<1>2. ASSUME burnItems' \subseteq burnItems PROVE BurnsHold'
  BY <1>1, <1>2 DEF BurnsHold
<1>3. ASSUME NEW sel \in SUBSET Name, BurnTick(sel) PROVE BurnsHold'
  <2>1. /\ store' = store
        /\ burnItems' = burnItems \cup {c \in sel : cache[c].processed}
        /\ \A c \in sel : cache[c].exists
    BY <1>3 DEF BurnTick, Processed, Listed
  <2> SUFFICES ASSUME NEW c \in sel, cache[c].processed
               PROVE  store[c].processed /\ store[c].gen > 0
    BY <1>1, <2>1 DEF BurnsHold
  <2>2. store[c].processed
    BY <2>1 DEF MarksHold, CopiesHold
  <2>3. cache[c] \in ConfigMap /\ store[c] \in ConfigMap
    BY DEF RInv, IInv, TypeOK
  <2>4. cache[c].gen > 0
    BY <2>1, <2>3 DEF RInv, DInv, InHand, Copy, Full
  <2>5. cache[c].gen <= store[c].gen
    BY DEF RInv, IInv, CacheGood, Good, CopyOK
  <2>6. cache[c].gen \in Nat /\ store[c].gen \in Nat
    BY <2>3 DEF ConfigMap
  <2> QED
    BY <2>2, <2>4, <2>5, <2>6
<1>4. ASSUME NEW n \in Name,
             \/ Publish(n) \/ Deliver(n) \/ Resync(n) \/ Reconcile(n) \/ Reject(n)
             \/ RunPostProcessor(n) \/ PanicInPostProcess(n) \/ FinishReconcile(n)
             \/ BurnItem(n)
      PROVE  burnItems' \subseteq burnItems
  BY <1>4 DEF Publish, Deliver, Resync, Reconcile, Reject, RunPostProcessor,
              PanicInPostProcess, FinishReconcile, BurnItem
<1>5. ASSUME NEW sel \in SUBSET Name, ClearDeferredTick(sel) PROVE burnItems' \subseteq burnItems
  BY <1>5 DEF ClearDeferredTick
<1>6. ASSUME NEW item \in clearItems, ClearDeferredItem(item) PROVE burnItems' \subseteq burnItems
  BY <1>6 DEF ClearDeferredItem
<1>7. ASSUME NamespaceSeen \/ Minute \/ Crash \/ UNCHANGED vars PROVE burnItems' \subseteq burnItems
  BY <1>7 DEF NamespaceSeen, Minute, Crash, vars
<1> QED
  BY <1>2, <1>3, <1>4, <1>5, <1>6, <1>7 DEF Next

LEMMA MarksNext ==
  ASSUME RInv, MarksHold, [Next]_vars, BuildsWait
  PROVE  MarksHold'
BY CopiesNext, BurnsNext DEF MarksHold

-----------------------------------------------------------------------------
(* The promise's view of the store. *)
Present  == [c \in Name |-> store[c].exists]
Payload  == [c \in Name |-> store[c].gen]
Required == [c \in Name |-> {p \in Processors : Pushes(p, store[c].msg)}]
Outcome  == [c \in Name |-> OutcomeOf(store[c])]

(* What a write makes of it. *)
LEMMA WriteViewed ==
  ASSUME NEW n \in Name, NEW obj \in ConfigMap, store \in [Name -> ConfigMap], Write(n, obj)
  PROVE  /\ Present' = [Present EXCEPT ![n] = obj.exists]
         /\ Payload' = [Payload EXCEPT ![n] = obj.gen]
         /\ Required' = [Required EXCEPT ![n] = {p \in Processors : Pushes(p, obj.msg)}]
         /\ Outcome' = [Outcome EXCEPT ![n] = OutcomeOf(obj)]
<1> DEFINE new == Versioned(n, obj)
<1>1. /\ new.exists = obj.exists /\ new.gen = obj.gen /\ new.msg = obj.msg
      /\ new.processed = obj.processed /\ new.maxed = obj.maxed
  BY DEF Versioned, ConfigMap
<1>2. store' = [store EXCEPT ![n] = new]
  BY DEF Write
<1> HIDE DEF new
<1>3. store'[n] = new /\ \A c \in Name \ {n} : store'[c] = store[c]
  BY <1>2
<1>4. OutcomeOf(new) = OutcomeOf(obj)
  BY <1>1 DEF OutcomeOf
<1> QED
  BY <1>1, <1>3, <1>4 DEF Present, Payload, Required, Outcome, OutcomeOf

(* A write of a copy the server takes, with what it may change, leaves all *)
(* but the outcome as it is.                                               *)
LEMMA TakenViewed ==
  ASSUME RInv, NEW n \in Name, NEW obj \in ConfigMap, NEW new \in ConfigMap,
         InHand(n, obj), UpdateTaken(n, obj), Write(n, new),
         new.exists = obj.exists, new.gen = obj.gen, new.msg = obj.msg
  PROVE  /\ Alike(obj, store[n]) /\ store[n].exists
         /\ UNCHANGED <<Present, Payload, Required>>
         /\ Outcome' = [Outcome EXCEPT ![n] = OutcomeOf(new)]
<1>1. store \in [Name -> ConfigMap]
  BY DEF RInv, IInv, TypeOK
<1>2. Alike(obj, store[n]) /\ store[n].exists
  BY DEF RInv, DInv, Copy, UpdateTaken, Accepts
<1>3. /\ Present' = [Present EXCEPT ![n] = store[n].exists]
      /\ Payload' = [Payload EXCEPT ![n] = store[n].gen]
      /\ Required' = [Required EXCEPT ![n] = {p \in Processors : Pushes(p, store[n].msg)}]
      /\ Outcome' = [Outcome EXCEPT ![n] = OutcomeOf(new)]
  <2>1. /\ new.exists = store[n].exists /\ new.gen = store[n].gen /\ new.msg = store[n].msg
    BY <1>2 DEF Alike
  <2>2. /\ Present' = [Present EXCEPT ![n] = new.exists]
        /\ Payload' = [Payload EXCEPT ![n] = new.gen]
        /\ Required' = [Required EXCEPT ![n] = {p \in Processors : Pushes(p, new.msg)}]
        /\ Outcome' = [Outcome EXCEPT ![n] = OutcomeOf(new)]
    BY <1>1, WriteViewed
  <2> QED
    BY <2>1, <2>2
<1>4. UNCHANGED <<Present, Payload, Required>>
  BY <1>3 DEF Present, Payload, Required
<1> QED
  BY <1>2, <1>3, <1>4

LEMMA NothingViewed ==
  ASSUME UNCHANGED store
  PROVE  UNCHANGED <<Present, Payload, Required, Outcome>>
BY DEF Present, Payload, Required, Outcome, OutcomeOf

-----------------------------------------------------------------------------
LEMMA PromiseInit == Init => Delivery!Init
<1> SUFFICES ASSUME Init PROVE Delivery!Init
  OBVIOUS
<1>1. \A c \in Name : store[c] = Absent
  BY DEF Init, APIInit
<1>2. /\ Absent.exists = FALSE /\ Absent.gen = 0 /\ Absent.processed = FALSE
      /\ Absent.maxed = FALSE
  BY DEF Absent, Fresh
<1>3. \A c \in Name : OutcomeOf(store[c]) = "pending"
  BY <1>1, <1>2 DEF OutcomeOf
<1> QED
  BY <1>1, <1>2, <1>3 DEF Delivery!Init, Init

(* A step that leaves the view and the deliveries alone stutters.          *)
LEMMA Stutters ==
  ASSUME UNCHANGED <<Present, Payload, Required, Outcome, delivered>>
  PROVE  UNCHANGED Delivery!vars
BY DEF Delivery!vars, Present, Payload, Required, Outcome

LEMMA PublishPromised ==
  ASSUME RInv, NEW n \in Name, Publish(n)
  PROVE  Delivery!Publish(n)
<1>1. PICK msg \in Payloads : Write(n, Fresh(store[n].gen + 1, msg))
  BY DEF Publish
<1> DEFINE obj == Fresh(store[n].gen + 1, msg)
<1>2. store \in [Name -> ConfigMap] /\ store[n] \in ConfigMap
  BY DEF RInv, IInv, TypeOK
<1>3. store[n].gen + 1 \in Nat
  BY <1>2 DEF ConfigMap
<1>4. obj \in ConfigMap
  BY <1>3, FreshType
<1>5. /\ obj.exists = TRUE /\ obj.gen = store[n].gen + 1
      /\ obj.processed = FALSE /\ obj.maxed = FALSE
  BY DEF Fresh
<1>6. Write(n, obj)
  BY <1>1
<1> HIDE DEF obj
<1>7. OutcomeOf(obj) = "pending"
  BY <1>5 DEF OutcomeOf
<1>8. /\ Present' = [Present EXCEPT ![n] = TRUE]
      /\ Payload' = [Payload EXCEPT ![n] = store[n].gen + 1]
      /\ Required' = [Required EXCEPT ![n] = {p \in Processors : Pushes(p, obj.msg)}]
      /\ Outcome' = [Outcome EXCEPT ![n] = "pending"]
  BY <1>2, <1>4, <1>5, <1>6, <1>7, WriteViewed
<1>9. Payload' = [Payload EXCEPT ![n] = @ + 1]
  BY <1>8 DEF Payload
<1>10. \E req \in SUBSET Processors : Required' = [Required EXCEPT ![n] = req]
  BY <1>8
<1>11. UNCHANGED delivered
  BY DEF Publish
<1> QED
  BY <1>8, <1>9, <1>10, <1>11
  DEF Delivery!Publish, Present, Payload, Required, Outcome

LEMMA RunPromised ==
  ASSUME RInv, NEW n \in Name, RunPostProcessor(n)
  PROVE  Delivery!HandOver(n) \/ UNCHANGED Delivery!vars
<1> DEFINE j == job[n]
           p == PostProcessors[j.at]
<1>1. /\ j.at \in 1 .. Len(PostProcessors) /\ p \in Processors /\ j.at # 0
      /\ UNCHANGED store
  BY LastStepNat DEF RunPostProcessor
<1>2. UNCHANGED <<Present, Payload, Required, Outcome>>
  BY <1>1, NothingViewed
<1>3. CASE UNCHANGED delivered
  BY <1>2, <1>3, Stutters
<1>4. CASE delivered' = delivered \cup {<<n, j.obj.gen, p>>}
  <2>1. j.obj \in ConfigMap /\ store[n] \in ConfigMap
    BY <1>1 DEF RInv, IInv, TypeOK
  <2>2. j.obj.gen > 0
    <3>1. InHand(n, j.obj) /\ j.obj.exists
      BY <1>1 DEF InHand, RInv, JobsThere
    <3> QED
      BY <2>1, <3>1 DEF RInv, DInv, Copy, Full
  <2>3. j.obj.gen <= store[n].gen
    BY <1>1 DEF RInv, IInv, JobGood, Good, CopyOK
  <2>4. j.obj.gen \in 1 .. Payload[n]
    BY <2>1, <2>2, <2>3 DEF Payload, ConfigMap
  <2> HIDE DEF j, p
  <2>5. \E g \in 1 .. Payload[n], q \in Processors : delivered' = delivered \cup {<<n, g, q>>}
    BY <1>1, <1>4, <2>4
  <2> QED
    BY <1>2, <2>5 DEF Delivery!HandOver, Present, Payload, Required, Outcome
<1> QED
  BY <1>3, <1>4 DEF RunPostProcessor

LEMMA FinishPromised ==
  ASSUME RInv, NEW n \in Name, FinishReconcile(n)
  PROVE  Delivery!Complete(n) \/ Delivery!Abandon(n) \/ UNCHANGED Delivery!vars
<1> DEFINE obj == job[n].obj
<1>1. /\ job[n].at = LastStep /\ job[n].at # 0 /\ UNCHANGED delivered
      /\ now \in Nat /\ obj \in ConfigMap /\ store \in [Name -> ConfigMap]
  BY LastStepNat DEF FinishReconcile, RInv, IInv, TypeOK
<1>2. CASE UNCHANGED apiVars
  BY <1>1, <1>2, NothingViewed, Stutters DEF apiVars
<1>3. CASE UpdateTaken(n, obj) /\ Write(n, Concluded(obj))
  <2> DEFINE new == Concluded(obj)
  <2>1. new \in ConfigMap
    BY <1>1, ConcludedType
  <2>2. /\ InHand(n, obj) /\ Good(n, obj) /\ Visited(job[n])
    BY <1>1 DEF InHand, RInv, IInv, JobGood
  <2>3. /\ new.exists = obj.exists /\ new.gen = obj.gen /\ new.msg = obj.msg
        /\ Failing(obj) => new.processed = obj.processed /\ (obj.maxed => new.maxed)
        /\ ~Failing(obj) => new.processed
    BY <1>1 DEF Concluded, ConfigMap
  <2>4. Honest(n, obj, delivered)
    BY <2>2 DEF Good, CopyOK
  <2>5. \A p \in Processors : obj.status[p] \in {"success", "failure"}
    BY <1>1, <2>2, AllVisited DEF ConfigMap
  <2>6. Write(n, new)
    BY <1>3
  <2> HIDE DEF new
  <2>7. /\ Alike(obj, store[n]) /\ store[n].exists
        /\ UNCHANGED <<Present, Payload, Required>>
        /\ Outcome' = [Outcome EXCEPT ![n] = OutcomeOf(new)]
    BY <1>1, <1>3, <2>1, <2>2, <2>3, <2>6, TakenViewed
  <2>8. CASE ~Failing(obj)
    <3>1. OutcomeOf(new) = "done"
      BY <2>3, <2>8 DEF OutcomeOf
    <3>2. \A p \in Processors : obj.status[p] = "success"
      BY <2>5, <2>8 DEF Failing
    <3>3. \A p \in Required[n] : <<n, Payload[n], p>> \in delivered
      BY <2>4, <2>7, <3>2 DEF Required, Payload, Honest, Alike
    <3>4. Present[n] /\ Outcome' = [Outcome EXCEPT ![n] = "done"]
      BY <2>7, <3>1 DEF Present
    <3> QED
      BY <1>1, <2>7, <3>3, <3>4 DEF Delivery!Complete, Present, Payload, Required, Outcome
  <2>9. CASE Failing(obj)
    <3>1. obj.processed = FALSE
      BY <1>1, <2>4, <2>9 DEF Honest, Failing, ConfigMap
    <3>2. new.processed = FALSE /\ store[n].processed = FALSE /\ store[n].maxed = obj.maxed
      BY <2>3, <2>7, <2>9, <3>1 DEF Alike
    <3>3. CASE new.maxed = store[n].maxed
      <4>1. OutcomeOf(new) = OutcomeOf(store[n])
        BY <3>2, <3>3 DEF OutcomeOf
      <4>2. UNCHANGED Outcome
        BY <2>7, <4>1 DEF Outcome
      <4> QED
        BY <1>1, <2>7, <4>2, Stutters
    <3>4. CASE new.maxed # store[n].maxed
      <4>1. new.maxed = TRUE /\ store[n].maxed = FALSE
        BY <1>1, <2>1, <2>3, <2>9, <3>2, <3>4 DEF ConfigMap
      <4>2. OutcomeOf(new) = "abandoned" /\ OutcomeOf(store[n]) = "pending"
        BY <3>2, <4>1 DEF OutcomeOf
      <4>3. Present[n] /\ Outcome[n] = "pending" /\ Outcome' = [Outcome EXCEPT ![n] = "abandoned"]
        BY <2>7, <4>2 DEF Present, Outcome
      <4> QED
        BY <1>1, <2>7, <4>3 DEF Delivery!Abandon, Present, Payload, Required, Outcome
    <3> QED
      BY <3>3, <3>4
  <2> QED
    BY <2>8, <2>9
<1> QED
  BY <1>2, <1>3 DEF FinishReconcile

LEMMA ClearPromised ==
  ASSUME RInv, NEW item \in clearItems, ClearDeferredItem(item)
  PROVE  UNCHANGED Delivery!vars
<1>1. /\ item[1] \in Name /\ item[2] \in ConfigMap /\ UNCHANGED delivered
      /\ InHand(item[1], item[2]) /\ store \in [Name -> ConfigMap]
  BY ItemType DEF RInv, IInv, TypeOK, ClearDeferredItem, InHand
<1>2. CASE UNCHANGED apiVars
  BY <1>1, <1>2, NothingViewed, Stutters DEF apiVars
<1>3. CASE /\ UpdateTaken(item[1], item[2])
           /\ Write(item[1], [item[2] EXCEPT !.deferred = NoDeferral])
  <2>1. PICK n \in Name, obj \in ConfigMap : n = item[1] /\ obj = item[2]
    BY <1>1
  <2> DEFINE new == [obj EXCEPT !.deferred = NoDeferral]
  <2>2. /\ new \in ConfigMap /\ new.exists = obj.exists /\ new.gen = obj.gen
        /\ new.msg = obj.msg /\ new.processed = obj.processed /\ new.maxed = obj.maxed
    BY ChangedType DEF ConfigMap
  <2>3. Write(n, new) /\ InHand(n, obj) /\ UpdateTaken(n, obj)
    BY <1>1, <1>3, <2>1
  <2> HIDE DEF new
  <2>4. /\ Alike(obj, store[n]) /\ UNCHANGED <<Present, Payload, Required>>
        /\ Outcome' = [Outcome EXCEPT ![n] = OutcomeOf(new)]
    BY <2>2, <2>3, TakenViewed
  <2>5. OutcomeOf(new) = OutcomeOf(store[n])
    BY <2>2, <2>4 DEF OutcomeOf, Alike
  <2>6. UNCHANGED Outcome
    BY <2>4, <2>5 DEF Outcome
  <2> QED
    BY <1>1, <2>4, <2>6, Stutters
<1> QED
  BY <1>2, <1>3 DEF ClearDeferredItem

LEMMA BurnPromised ==
  ASSUME RInv, BurnsHold, NEW n \in Name, BurnItem(n)
  PROVE  Delivery!Discard(n) \/ UNCHANGED Delivery!vars
<1>1. UNCHANGED delivered /\ store \in [Name -> ConfigMap] /\ store[n].processed
  BY DEF BurnItem, RInv, IInv, TypeOK, BurnsHold
<1>2. CASE UNCHANGED apiVars
  BY <1>1, <1>2, NothingViewed, Stutters DEF apiVars
<1>3. CASE store[n].exists /\ Write(n, [store[n] EXCEPT !.exists = FALSE])
  <2>1. PICK new \in ConfigMap : new = [store[n] EXCEPT !.exists = FALSE]
    BY <1>1, ChangedType
  <2>2. /\ new.exists = FALSE /\ new.gen = store[n].gen /\ new.msg = store[n].msg
        /\ new.processed = store[n].processed /\ new.maxed = store[n].maxed
    BY <1>1, <2>1 DEF ConfigMap
  <2>3. OutcomeOf(new) = OutcomeOf(store[n]) /\ OutcomeOf(store[n]) = "done"
    BY <1>1, <2>2 DEF OutcomeOf
  <2>4. /\ Present' = [Present EXCEPT ![n] = FALSE]
        /\ Payload' = [Payload EXCEPT ![n] = store[n].gen]
        /\ Required' = [Required EXCEPT ![n] = {p \in Processors : Pushes(p, store[n].msg)}]
        /\ Outcome' = [Outcome EXCEPT ![n] = OutcomeOf(store[n])]
    <3>1. /\ Present' = [Present EXCEPT ![n] = new.exists]
          /\ Payload' = [Payload EXCEPT ![n] = new.gen]
          /\ Required' = [Required EXCEPT ![n] = {p \in Processors : Pushes(p, new.msg)}]
          /\ Outcome' = [Outcome EXCEPT ![n] = OutcomeOf(new)]
      BY <1>1, <1>3, <2>1, WriteViewed
    <3> QED
      BY <2>2, <2>3, <3>1
  <2>5. UNCHANGED <<Payload, Required, Outcome>>
    BY <2>4 DEF Payload, Required, Outcome
  <2>6. Present[n] /\ Outcome[n] = "done"
    BY <1>3, <2>3 DEF Present, Outcome
  <2> QED
    BY <1>1, <2>4, <2>5, <2>6 DEF Delivery!Discard, Present, Payload, Required, Outcome
<1> QED
  BY <1>2, <1>3 DEF BurnItem, Remove

(* Every step keeps the promise, and only a build changes a payload. *)
LEMMA PromiseNext ==
  ASSUME RInv, BurnsHold, [Next]_vars
  PROVE  /\ [Delivery!Next]_(Delivery!vars)
         /\ \A c \in Name : store'[c].gen # store[c].gen => Publish(c)
<1> USE DEF Delivery!vars
<1> DEFINE Kept == UNCHANGED Payload
<1>1. ASSUME NEW n \in Name, Publish(n)
      PROVE  Delivery!Next /\ \A c \in Name : store'[c].gen # store[c].gen => Publish(c)
  <2>1. Delivery!Next
    BY <1>1, PublishPromised DEF Delivery!Next
  <2>2. \A c \in Name \ {n} : store'[c] = store[c]
    BY <1>1 DEF Publish, Write, RInv, IInv, TypeOK
  <2> QED
    BY <1>1, <2>1, <2>2
<1>2. ASSUME NEW n \in Name, RunPostProcessor(n) PROVE [Delivery!Next]_(Delivery!vars) /\ Kept
  <2>1. [Delivery!Next]_(Delivery!vars)
    BY <1>2, RunPromised DEF Delivery!Next
  <2> QED
    BY <1>2, <2>1 DEF RunPostProcessor, Payload
<1>3. ASSUME NEW n \in Name, FinishReconcile(n) PROVE [Delivery!Next]_(Delivery!vars) /\ Kept
  <2>1. Delivery!Complete(n) \/ Delivery!Abandon(n) \/ UNCHANGED Delivery!vars
    BY <1>3, FinishPromised
  <2> QED
    BY <2>1 DEF Delivery!Next, Delivery!Complete, Delivery!Abandon, Payload
<1>4. ASSUME NEW n \in Name, BurnItem(n) PROVE [Delivery!Next]_(Delivery!vars) /\ Kept
  <2>1. Delivery!Discard(n) \/ UNCHANGED Delivery!vars
    BY <1>4, BurnPromised
  <2> QED
    BY <2>1 DEF Delivery!Next, Delivery!Discard, Payload
<1>5. ASSUME NEW item \in clearItems, ClearDeferredItem(item)
      PROVE  [Delivery!Next]_(Delivery!vars) /\ Kept
  <2>1. UNCHANGED Delivery!vars
    BY <1>5, ClearPromised
  <2> QED
    BY <2>1 DEF Payload
<1>6. ASSUME UNCHANGED <<store, delivered>> PROVE [Delivery!Next]_(Delivery!vars) /\ Kept
  BY <1>6, NothingViewed, Stutters
<1>7. ASSUME NEW n \in Name,
             \/ Deliver(n) \/ Resync(n) \/ Reconcile(n) \/ Reject(n) \/ PanicInPostProcess(n)
      PROVE  UNCHANGED <<store, delivered>>
  BY <1>7 DEF Deliver, Observe, Resync, Reconcile, Reject, PanicInPostProcess
<1>8. ASSUME NEW sel \in SUBSET Name, ClearDeferredTick(sel) \/ BurnTick(sel)
      PROVE  UNCHANGED <<store, delivered>>
  BY <1>8 DEF ClearDeferredTick, BurnTick
<1>9. ASSUME NamespaceSeen \/ Minute \/ Crash \/ UNCHANGED vars
      PROVE  UNCHANGED <<store, delivered>>
  BY <1>9 DEF NamespaceSeen, Minute, Crash, Relist, vars
<1>10. ASSUME Kept PROVE \A c \in Name : store'[c].gen = store[c].gen
  BY <1>10 DEF Payload
<1> HIDE DEF Kept
<1> QED
  BY <1>1, <1>2, <1>3, <1>4, <1>5, <1>6, <1>7, <1>8, <1>9, <1>10 DEF Next

-----------------------------------------------------------------------------
(* Without burn-after-reading nothing is ever listed. *)
LEMMA NothingListed ==
  ASSUME ~BurnAfterReading, burnItems = {}, [Next]_vars
  PROVE  burnItems' = {}
<1>1. ASSUME NEW n \in Name,
             \/ Publish(n) \/ Deliver(n) \/ Resync(n) \/ Reconcile(n) \/ Reject(n)
             \/ RunPostProcessor(n) \/ PanicInPostProcess(n) \/ FinishReconcile(n)
             \/ BurnItem(n)
      PROVE  burnItems' = {}
  BY <1>1 DEF Publish, Deliver, Resync, Reconcile, Reject, RunPostProcessor,
              PanicInPostProcess, FinishReconcile, BurnItem
<1>2. ASSUME NEW sel \in SUBSET Name, ClearDeferredTick(sel) \/ BurnTick(sel)
      PROVE  burnItems' = {}
  BY <1>2 DEF ClearDeferredTick, BurnTick
<1>3. ASSUME NEW item \in clearItems, ClearDeferredItem(item) PROVE burnItems' = {}
  BY <1>3 DEF ClearDeferredItem
<1>4. CASE NamespaceSeen \/ Minute \/ Crash \/ UNCHANGED vars
  BY <1>4 DEF NamespaceSeen, Minute, Crash, vars
<1> QED
  BY <1>1, <1>2, <1>3, <1>4 DEF Next

(* Without burn-after-reading, the controller does what InsightsDelivery   *)
(* promises: BatchUpdateCM marks a payload as processed only when every    *)
(* processor that wants that payload has been handed it, abandons only a   *)
(* pending one, and no late write brings an earlier payload back.          *)
THEOREM KeepsThePromise ==
  ASSUME ~BurnAfterReading
  PROVE  Spec => ImplementsDelivery
<1>1. Init => RInv /\ burnItems = {}
  BY RefinedInit DEF Init
<1>2. RInv /\ burnItems = {} /\ [Next]_vars => (RInv /\ burnItems = {})'
  BY RefinedNext, NothingListed
<1>3. RInv /\ burnItems = {} /\ [Next]_vars => [Delivery!Next]_(Delivery!vars)
  BY PromiseNext DEF BurnsHold
<1> QED
  BY <1>1, <1>2, <1>3, PromiseInit, PTL DEF Spec, ImplementsDelivery, Delivery!Spec

-----------------------------------------------------------------------------
(* With burn-after-reading, and builds that wait. *)
WInv == RInv /\ MarksHold

LEMMA WaitingInit == Init => WInv
BY RefinedInit, MarksInit DEF WInv

LEMMA WaitingNext == WInv /\ [Next /\ BuildsWait]_vars => WInv'
<1> SUFFICES ASSUME WInv, [Next /\ BuildsWait]_vars PROVE WInv'
  OBVIOUS
<1>1. [Next]_vars
  OBVIOUS
<1>2. BuildsWait
  BY DEF BuildsWait, vars
<1> QED
  BY <1>1, <1>2, RefinedNext, MarksNext DEF WInv

(* The burn cron, too, keeps the promise as long as no build replaces what *)
(* it takes for processed: what it deletes by name (main.go:576) is then   *)
(* what it listed, and still done.                                         *)
THEOREM BurningKeepsThePromise == WaitingSpec => ImplementsDelivery
<1>1. WInv /\ [Next /\ BuildsWait]_vars => [Delivery!Next]_(Delivery!vars)
  BY PromiseNext DEF WInv, MarksHold
<1> QED
  BY <1>1, WaitingInit, WaitingNext, PromiseInit, PTL
  DEF WaitingSpec, ImplementsDelivery, Delivery!Spec

(* What the promise says of a ConfigMap that goes. *)
LEMMA GoneWasDone ==
  ASSUME [Delivery!Next]_(Delivery!vars), NEW c \in Name, store[c].exists, ~store'[c].exists
  PROVE  store[c].processed
<1>1. Present[c] /\ ~Present'[c]
  BY DEF Present
<1>2. ASSUME NEW n \in Name, Delivery!Discard(n) PROVE store[c].processed
  <2>1. Outcome[n] = "done" /\ Present' = [Present EXCEPT ![n] = FALSE]
    BY <1>2 DEF Delivery!Discard, Present, Outcome
  <2>2. c = n
    BY <1>1, <2>1 DEF Present
  <2> QED
    BY <2>1, <2>2 DEF Outcome, OutcomeOf
<1>3. ASSUME NEW n \in Name, Delivery!Publish(n) PROVE FALSE
  BY <1>1, <1>3 DEF Delivery!Publish, Present
<1>4. ASSUME NEW n \in Name, Delivery!HandOver(n) \/ Delivery!Complete(n) \/ Delivery!Abandon(n)
      PROVE  FALSE
  BY <1>1, <1>4 DEF Delivery!HandOver, Delivery!Complete, Delivery!Abandon, Present
<1>5. ASSUME UNCHANGED Delivery!vars PROVE FALSE
  BY <1>1, <1>5 DEF Delivery!vars, Present
<1> QED
  BY <1>2, <1>3, <1>4, <1>5 DEF Delivery!Next

(* Under the same condition startBurnAfterReadingCron only ever removes    *)
(* ConfigMaps that are processed when they go, not just when listed.       *)
THEOREM BurnedIsProcessed == WaitingSpec => BurnOnlyProcessed
<1>1. WInv /\ [Next /\ BuildsWait]_vars =>
        [\A c \in Name : store[c].exists /\ ~store'[c].exists => store[c].processed]_vars
  BY PromiseNext, GoneWasDone DEF WInv, MarksHold
<1> QED
  BY <1>1, WaitingInit, WaitingNext, PTL DEF WaitingSpec, BurnOnlyProcessed

-----------------------------------------------------------------------------
(* A build that publishes but once always waits long enough. *)
LEMMA OnceWaits ==
  ASSUME MaxPublish <= 1, WInv, [Next]_vars
  PROVE  BuildsWait
<1> SUFFICES ASSUME NEW c \in Name, store'[c].gen # store[c].gen, TakenForProcessed(c)
             PROVE  FALSE
  BY DEF BuildsWait
<1>1. TypeOK
  BY DEF WInv, RInv, IInv
<1>2. Publish(c)
  BY PromiseNext DEF WInv, MarksHold
<1>3. store[c].gen = 0
  <2>1. store[c].gen \in Nat /\ store[c].gen < MaxPublish
    BY <1>1, <1>2 DEF Publish, TypeOK, ConfigMap
  <2>2. MaxPublish \in Nat
    BY ConfigAssumption
  <2> QED
    BY <2>1, <2>2
<1>4. ASSUME NEW obj \in ConfigMap, InHand(c, obj), Good(c, obj), obj.exists PROVE FALSE
  BY <1>3, <1>4 DEF WInv, RInv, DInv, Copy, Full, Good, CopyOK, ConfigMap
<1>5. CASE c \in burnItems
  BY <1>3, <1>5 DEF WInv, MarksHold, BurnsHold
<1>6. CASE cache[c].exists
  <2>1. cache[c] \in ConfigMap /\ InHand(c, cache[c]) /\ Good(c, cache[c])
    BY <1>1 DEF TypeOK, InHand, WInv, RInv, IInv, CacheGood
  <2> QED
    BY <1>4, <1>6, <2>1
<1>7. CASE \E i \in DOMAIN watch[c] : watch[c][i].exists
  <2>1. watch[c] \in Seq(ConfigMap)
    BY <1>1 DEF TypeOK
  <2>2. PICK i \in 1 .. Len(watch[c]) : watch[c][i].exists
    BY <1>7, <2>1
  <2>3. watch[c][i] \in ConfigMap /\ InHand(c, watch[c][i]) /\ Good(c, watch[c][i])
    BY <2>1, <2>2 DEF InHand, WInv, RInv, IInv, WatchGood
  <2> QED
    BY <1>4, <2>2, <2>3
<1> QED
  BY <1>5, <1>6, <1>7 DEF TakenForProcessed

(* A ConfigMap that is published only once is processed before it burns,   *)
(* whatever the reconciler, the crons and the faults do.                   *)
THEOREM OnceIsProcessed ==
  ASSUME MaxPublish <= 1
  PROVE  Spec => WaitingSpec
<1>1. WInv /\ [Next]_vars => [Next /\ BuildsWait]_vars
  BY OnceWaits
<1>2. WInv /\ [Next]_vars => WInv'
  BY <1>1, WaitingNext
<1> QED
  BY <1>1, <1>2, WaitingInit, PTL DEF Spec, WaitingSpec
=============================================================================
