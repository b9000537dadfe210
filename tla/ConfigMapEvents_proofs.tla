------------------------ MODULE ConfigMapEvents_proofs ------------------------
(***************************************************************************)
(* No ConfigMap that still wants processing is ever forgotten, and no      *)
(* deferral is cut short: two theorems of ConfigMapController that are     *)
(* about events and versions rather than about what has been delivered.    *)
(***************************************************************************)
EXTENDS ConfigMapController_proofs, SequenceTheorems

-----------------------------------------------------------------------------
(* The last event that is on its way to the cache is of the object stored; *)
(* with none on its way the cache is up to date.                           *)
WatchEnds ==
  \A c \in Name :
    IF watch[c] = <<>> THEN cache[c] = store[c] ELSE watch[c][Len(watch[c])] = store[c]

(* The name is in somebody's hands. *)
Remembered(c) == c \in queue \/ c \in Busy \/ watch[c] # <<>>

EInv == TypeOK /\ nsCached /\ WatchEnds /\ NoLostWakeup

(* A write is announced. *)
LEMMA WriteAnnounced ==
  ASSUME TypeOK, WatchEnds, NEW n \in Name, NEW obj \in ConfigMap, Write(n, obj)
  PROVE  /\ WatchEnds' /\ watch'[n] # <<>>
         /\ \A c \in Name \ {n} : watch'[c] = watch[c] /\ store'[c] = store[c]
<1> DEFINE new == Versioned(n, obj)
<1>1. /\ watch \in [Name -> Seq(ConfigMap)] /\ store \in [Name -> ConfigMap] /\ watch[n] \in Seq(ConfigMap)
  BY DEF TypeOK
<1>2. new \in ConfigMap
  <2>1. store[n].rv + 1 \in Nat
    BY <1>1 DEF ConfigMap
  <2> QED
    BY <2>1, ChangedType DEF Versioned
<1>3. /\ store' = [store EXCEPT ![n] = new] /\ cache' = cache
      /\ watch' = [watch EXCEPT ![n] = Append(@, new)]
  BY DEF Write
<1> HIDE DEF new
<1>4. /\ watch'[n] = Append(watch[n], new) /\ store'[n] = new
      /\ \A c \in Name \ {n} : watch'[c] = watch[c] /\ store'[c] = store[c]
  BY <1>1, <1>3
<1>5. /\ Append(watch[n], new) # <<>>
      /\ Append(watch[n], new)[Len(Append(watch[n], new))] = new
  BY <1>1, <1>2
<1> QED
  BY <1>3, <1>4, <1>5 DEF WatchEnds

(* Steps that write nothing and take nothing out of anybody's hands. *)
LEMMA NothingDropped ==
  ASSUME EInv, TypeOK', nsCached', UNCHANGED <<store, watch, cache>>,
         \A c \in Name : Remembered(c) => Remembered(c)'
  PROVE  EInv'
BY DEF EInv, WatchEnds, NoLostWakeup, Remembered, Wanted, insightLabelsOnlyPredicate,
       insightMaxRetryPredicate

(* Steps that write the object of n and take only n out of other hands.    *)
LEMMA WriteRemembers ==
  ASSUME EInv, TypeOK', nsCached', NEW n \in Name, NEW obj \in ConfigMap, Write(n, obj),
         \A c \in Name \ {n} : (c \in queue => c \in queue') /\ (c \in Busy => c \in Busy')
  PROVE  EInv'
<1>1. /\ WatchEnds' /\ watch'[n] # <<>>
      /\ \A c \in Name \ {n} : watch'[c] = watch[c] /\ store'[c] = store[c]
  BY WriteAnnounced DEF EInv
<1>2. ASSUME NEW c \in Name, Wanted(store'[c]) PROVE c \in queue' \/ c \in Busy' \/ watch'[c] # <<>>
  <2>1. CASE c = n
    BY <1>1, <2>1
  <2>2. CASE c # n
    BY <1>1, <1>2, <2>2 DEF EInv, NoLostWakeup
  <2> QED
    BY <2>1, <2>2
<1>3. NoLostWakeup'
  BY <1>2 DEF NoLostWakeup, Wanted, insightLabelsOnlyPredicate, insightMaxRetryPredicate
<1> QED
  BY <1>1, <1>3 DEF EInv

LEMMA EventsInit == ~NamespaceLag /\ Init => EInv
<1> SUFFICES ASSUME ~NamespaceLag, Init PROVE EInv
  OBVIOUS
<1>1. TypeOK
  BY TypeInit
<1>2. nsCached
  BY DEF Init
<1>3. WatchEnds
  BY DEF Init, APIInit, WatchEnds
<1>4. NoLostWakeup
  <2>1. \A c \in Name : store[c].exists = FALSE
    BY DEF Init, APIInit, Absent, Fresh
  <2> QED
    BY <2>1 DEF NoLostWakeup, Wanted
<1> QED
  BY <1>1, <1>2, <1>3, <1>4 DEF EInv

LEMMA LastOfTail ==
  ASSUME NEW S, NEW s \in Seq(S), s # <<>>
  PROVE  /\ Tail(s) = <<>> => Head(s) = s[Len(s)]
         /\ Tail(s) # <<>> => Tail(s)[Len(Tail(s))] = s[Len(s)]
<1> DEFINE t == Tail(s)
<1>1. /\ t \in Seq(S) /\ Len(t) = Len(s) - 1
      /\ \A i \in 1 .. Len(t) : t[i] = s[i + 1]
  BY HeadTailProperties
<1>2. Len(s) \in Nat /\ Head(s) = s[1]
  OBVIOUS
<1> HIDE DEF t
<1>3. CASE t = <<>>
  <2>1. Len(t) = 0
    <3>1. Len(<< >>) = 0
      BY EmptySeq
    <3> QED
      BY <1>3, <3>1, Zenon
  <2>2. Len(s) = 1
    BY <1>1, <1>2, <2>1
  <2> QED
    BY <1>2, <1>3, <2>2 DEF t
<1>4. CASE t # <<>>
  <2>1. Len(t) \in Nat \ {0}
    BY <1>1, <1>4, EmptySeq
  <2>2. t[Len(t)] = s[Len(s)]
    BY <1>1, <1>2, <2>1
  <2> QED
    BY <1>4, <2>2 DEF t
<1> QED
  BY <1>3, <1>4

LEMMA EventsDeliver ==
  ASSUME EInv, TypeOK', NEW n \in Name, Deliver(n)
  PROVE  EInv'
<1>1. /\ store' = store /\ nsCached' /\ job' = job
      /\ cache' = [cache EXCEPT ![n] = Head(watch[n])]
      /\ watch' = [watch EXCEPT ![n] = Tail(@)]
      /\ watch[n] # <<>> /\ watch[n] \in Seq(ConfigMap)
      /\ queue' = IF Wanted(cache'[n]) THEN queue \cup {n} ELSE queue
      /\ cache \in [Name -> ConfigMap] /\ watch \in [Name -> Seq(ConfigMap)]
  BY DEF Deliver, Observe, EInv, TypeOK
<1>2. /\ watch'[n] = Tail(watch[n]) /\ cache'[n] = Head(watch[n])
      /\ \A c \in Name \ {n} : watch'[c] = watch[c] /\ cache'[c] = cache[c]
  BY <1>1
<1>3. watch[n][Len(watch[n])] = store[n]
  BY <1>1 DEF EInv, WatchEnds
<1>4. /\ Tail(watch[n]) = <<>> => Head(watch[n]) = watch[n][Len(watch[n])]
      /\ Tail(watch[n]) # <<>> =>
           Tail(watch[n])[Len(Tail(watch[n]))] = watch[n][Len(watch[n])]
  BY <1>1, LastOfTail
<1>5. WatchEnds'
  <2> SUFFICES ASSUME NEW c \in Name
               PROVE  IF watch'[c] = <<>> THEN cache'[c] = store'[c]
                                         ELSE watch'[c][Len(watch'[c])] = store'[c]
    BY DEF WatchEnds
  <2>1. CASE c = n
    BY <1>1, <1>2, <1>3, <1>4, <2>1
  <2>2. CASE c # n
    BY <1>1, <1>2, <2>2 DEF EInv, WatchEnds
  <2> QED
    BY <2>1, <2>2
<1>6. ASSUME NEW c \in Name, Wanted(store[c]) PROVE c \in queue' \/ c \in Busy' \/ watch'[c] # <<>>
  <2>1. CASE c = n /\ watch'[n] = <<>>
    BY <1>1, <1>2, <1>3, <1>4, <1>6, <2>1
  <2>2. CASE c # n
    BY <1>1, <1>2, <1>6, <2>2 DEF EInv, NoLostWakeup, Busy
  <2> QED
    BY <2>1, <2>2
<1>7. NoLostWakeup'
  BY <1>1, <1>6 DEF NoLostWakeup, Wanted, insightLabelsOnlyPredicate, insightMaxRetryPredicate
<1> QED
  BY <1>1, <1>5, <1>7 DEF EInv

(* A name is only dropped when the cache has no object of it.              *)
LEMMA EventsReconcile ==
  ASSUME EInv, TypeOK', NEW n \in Name, Reconcile(n)
  PROVE  EInv'
<1>1. /\ UNCHANGED <<store, watch, cache>> /\ nsCached' /\ nsCached
      /\ queue' = queue \ {n} /\ n \notin Busy
      /\ IF cache[n].exists THEN job' = [job EXCEPT ![n] = [at |-> 1, obj |-> cache[n]]] ELSE job' = job
      /\ job \in [Name -> [at : 0 .. LastStep, obj : ConfigMap]]
  BY DEF Reconcile, EInv, TypeOK
<1>2. WatchEnds'
  BY <1>1 DEF EInv, WatchEnds
<1>3. ASSUME NEW c \in Name, Wanted(store[c]) PROVE c \in queue' \/ c \in Busy' \/ watch'[c] # <<>>
  <2>1. CASE c = n /\ cache[n].exists
    BY <1>1, <2>1 DEF Busy
  <2>2. CASE c = n /\ ~cache[n].exists
    <3>1. cache[n] # store[n]
      BY <1>3, <2>2 DEF Wanted
    <3> QED
      BY <1>1, <2>2, <3>1 DEF EInv, WatchEnds
  <2>3. CASE c # n
    BY <1>1, <1>3, <2>3 DEF EInv, NoLostWakeup, Busy
  <2> QED
    BY <2>1, <2>2, <2>3
<1>4. NoLostWakeup'
  BY <1>1, <1>3 DEF NoLostWakeup, Wanted, insightLabelsOnlyPredicate, insightMaxRetryPredicate
<1> QED
  BY <1>1, <1>2, <1>4 DEF EInv

LEMMA EventsFinishReconcile ==
  ASSUME EInv, TypeOK', NEW n \in Name, FinishReconcile(n)
  PROVE  EInv'
<1> DEFINE obj == job[n].obj
<1>1. job' = [job EXCEPT ![n] = NoJob] /\ nsCached'
  BY DEF FinishReconcile, EInv
<1>2. \A c \in Name \ {n} : (c \in queue => c \in queue') /\ (c \in Busy => c \in Busy')
  BY <1>1 DEF FinishReconcile, RequeueOnError, Busy, EInv, TypeOK
<1>3. CASE Write(n, Concluded(obj))
  <2>1. Concluded(obj) \in ConfigMap
    BY ConcludedType DEF EInv, TypeOK
  <2> QED
    BY <1>1, <1>2, <1>3, <2>1, WriteRemembers
<1>4. CASE RequeueOnError(n) /\ UNCHANGED apiVars
  <2>1. \A c \in Name : Remembered(c) => Remembered(c)'
    BY <1>2, <1>4 DEF Remembered, RequeueOnError, apiVars
  <2> QED
    BY <1>1, <1>4, <2>1, NothingDropped DEF apiVars
<1> QED
  BY <1>3, <1>4 DEF FinishReconcile

LEMMA EventsNext == EInv /\ [Next]_vars => EInv'
<1> SUFFICES ASSUME EInv, [Next]_vars PROVE EInv'
  OBVIOUS
<1> TypeOK'
  BY TypeNext DEF EInv
<1>1. ASSUME NEW c \in Name, Publish(c) PROVE EInv'
  <2>1. PICK msg \in Payloads : Write(c, Fresh(store[c].gen + 1, msg))
    BY <1>1 DEF Publish
  <2>2. Fresh(store[c].gen + 1, msg) \in ConfigMap
    <3>1. store[c] \in ConfigMap
      BY DEF EInv, TypeOK
    <3>2. store[c].gen + 1 \in Nat
      BY <3>1 DEF ConfigMap
    <3> QED
      BY <3>2, FreshType
  <2>3. nsCached' /\ queue' = queue /\ Busy' = Busy
    BY <1>1 DEF Publish, EInv, Busy
  <2> QED
    BY <2>1, <2>2, <2>3, WriteRemembers
<1>2. ASSUME NEW c \in Name, Deliver(c) PROVE EInv'
  BY <1>2, EventsDeliver
<1>3. ASSUME NEW c \in Name, Resync(c) PROVE EInv'
  <2>1. nsCached' /\ \A n \in Name : Remembered(n) => Remembered(n)'
    BY <1>3 DEF Resync, Remembered, Busy, EInv
  <2> QED
    BY <1>3, <2>1, NothingDropped DEF Resync
<1>4. ASSUME NEW c \in Name, Reconcile(c) PROVE EInv'
  BY <1>4, EventsReconcile
<1>5. ASSUME NEW c \in Name, Reject(c) \/ PanicInPostProcess(c) PROVE EInv'
  <2>1. /\ job' = [job EXCEPT ![c] = NoJob] /\ queue' = queue \cup {c}
        /\ UNCHANGED <<store, watch, cache, nsCached>>
    BY <1>5 DEF Reject, PanicInPostProcess, RequeueOnError
  <2>2. \A n \in Name : Remembered(n) => Remembered(n)'
    BY <2>1 DEF Remembered, Busy, EInv, TypeOK
  <2> QED
    BY <2>1, <2>2, NothingDropped DEF EInv
<1>6. ASSUME NEW c \in Name, RunPostProcessor(c) PROVE EInv'
  <2>1. UNCHANGED <<store, watch, cache, queue, nsCached>>
    BY <1>6 DEF RunPostProcessor
  <2>2. \A n \in Name : job[n].at # 0 => job'[n].at # 0
    <3>1. job \in [Name -> [at : 0 .. LastStep, obj : ConfigMap]] /\ LastStep \in Nat
      BY LastStepNat DEF EInv, TypeOK
    <3>2. job[c].at + 1 # 0 /\ job[c].at \in Nat
      BY <3>1
    <3>3. job'[c].at = job[c].at + 1 /\ \A n \in Name \ {c} : job'[n] = job[n]
      <4>1. CASE job' = [job EXCEPT ![c].at = @ + 1]
        BY <3>1, <4>1
      <4>2. CASE \E obj : job' = [job EXCEPT ![c] = [at |-> job[c].at + 1, obj |-> obj]]
        BY <3>1, <4>2
      <4> QED
        BY <1>6, <4>1, <4>2 DEF RunPostProcessor
    <3> QED
      BY <3>2, <3>3
  <2>3. \A n \in Name : Remembered(n) => Remembered(n)'
    BY <2>1, <2>2 DEF Remembered, Busy
  <2> QED
    BY <2>1, <2>3, NothingDropped DEF EInv
<1>7. ASSUME NEW c \in Name, FinishReconcile(c) PROVE EInv'
  BY <1>7, EventsFinishReconcile
<1>8. ASSUME NEW c \in Name, BurnItem(c) PROVE EInv'
  <2>1. nsCached' /\ queue' = queue /\ Busy' = Busy
    BY <1>8 DEF BurnItem, EInv, Busy
  <2>2. CASE Write(c, [store[c] EXCEPT !.exists = FALSE])
    <3>1. [store[c] EXCEPT !.exists = FALSE] \in ConfigMap
      BY ChangedType DEF EInv, TypeOK
    <3> QED
      BY <2>1, <2>2, <3>1, WriteRemembers
  <2>3. CASE UNCHANGED apiVars
    BY <2>1, <2>3, NothingDropped DEF Remembered, apiVars
  <2> QED
    BY <1>8, <2>2, <2>3 DEF BurnItem, Remove
<1>9. ASSUME NEW sel \in SUBSET Name, ClearDeferredTick(sel) PROVE EInv'
  <2>1. UNCHANGED <<store, watch, cache, queue, job, nsCached>>
    BY <1>9 DEF ClearDeferredTick
  <2> QED
    BY <2>1, NothingDropped DEF Remembered, Busy, EInv
<1>10. ASSUME NEW sel \in SUBSET Name, BurnTick(sel) PROVE EInv'
  <2>1. UNCHANGED <<store, watch, cache, queue, job, nsCached>>
    BY <1>10 DEF BurnTick
  <2> QED
    BY <2>1, NothingDropped DEF Remembered, Busy, EInv
<1>11. ASSUME NEW item \in clearItems, ClearDeferredItem(item) PROVE EInv'
  <2>1. nsCached' /\ queue' = queue /\ Busy' = Busy
    BY <1>11 DEF ClearDeferredItem, EInv, Busy
  <2>2. item[1] \in Name /\ item[2] \in ConfigMap
    BY ItemType DEF EInv
  <2>3. CASE Write(item[1], [item[2] EXCEPT !.deferred = NoDeferral])
    <3>1. [item[2] EXCEPT !.deferred = NoDeferral] \in ConfigMap
      BY <2>2, ChangedType
    <3> QED
      BY <2>1, <2>2, <2>3, <3>1, WriteRemembers
  <2>4. CASE UNCHANGED apiVars
    BY <2>1, <2>4, NothingDropped DEF Remembered, apiVars
  <2> QED
    BY <1>11, <2>3, <2>4 DEF ClearDeferredItem
<1>12. CASE NamespaceSeen \/ Minute
  <2>1. UNCHANGED <<store, watch, cache, queue, job>> /\ nsCached'
    BY <1>12 DEF NamespaceSeen, Minute, EInv
  <2> QED
    BY <2>1, NothingDropped DEF Remembered, Busy
<1>13. CASE Crash
  <2>1. /\ store' = store /\ cache' = store /\ watch' = [c \in Name |-> <<>>]
        /\ queue' = {c \in Name : Wanted(store[c])} /\ nsCached'
    BY <1>13 DEF Crash, Relist, EInv
  <2>2. WatchEnds'
    BY <2>1 DEF WatchEnds
  <2>3. NoLostWakeup'
    BY <2>1 DEF NoLostWakeup, Wanted, insightLabelsOnlyPredicate, insightMaxRetryPredicate
  <2> QED
    BY <2>1, <2>2, <2>3 DEF EInv
<1>14. CASE UNCHANGED vars
  <2>1. UNCHANGED <<store, watch, cache, queue, job, nsCached>>
    BY <1>14 DEF vars
  <2> QED
    BY <2>1, NothingDropped DEF Remembered, Busy, EInv
<1> QED
  BY <1>1, <1>2, <1>3, <1>4, <1>5, <1>6, <1>7, <1>8, <1>9, <1>10, <1>11, <1>12,
     <1>13, <1>14 DEF Next

(* As long as the Namespaces are in the cache before the ConfigMaps (see   *)
(* the README for what happens when they are not), a ConfigMap that the    *)
(* event filters would let through is queued, being reconciled, or about   *)
(* to be seen by the cache: whatever fails, conflicts, panics or restarts. *)
THEOREM NothingForgotten ==
  ASSUME ~NamespaceLag
  PROVE  Spec => []NoLostWakeup
<1>1. Init => EInv
  BY EventsInit
<1>2. EInv => NoLostWakeup
  BY DEF EInv
<1> QED
  BY <1>1, <1>2, EventsNext, PTL DEF Spec

-----------------------------------------------------------------------------
(* Versions.  Every copy of the version that is stored, wherever it is,    *)
(* says what is stored, but for the outcomes a reconcile has added to its  *)
(* own; and there is no ConfigMap without a payload.                       *)

InHand(c, obj) ==
  \/ obj = store[c] \/ obj = cache[c]
  \/ \E i \in 1 .. Len(watch[c]) : obj = watch[c][i]
  \/ job[c].at # 0 /\ obj = job[c].obj
  \/ \E item \in clearItems : item[1] = c /\ item[2] = obj

Alike(obj, other) ==
  /\ obj.exists = other.exists /\ obj.gen = other.gen /\ obj.msg = other.msg
  /\ obj.retries = other.retries /\ obj.deferred = other.deferred
  /\ obj.maxed = other.maxed /\ obj.processed = other.processed

Full(obj) == obj.exists => obj.gen > 0

Copy(obj, cur) ==
  /\ Full(obj)
  /\ obj.rv <= cur.rv
  /\ obj.rv = cur.rv => Alike(obj, cur)

DInv ==
  /\ TypeOK
  /\ now > 0
  /\ \A c \in Name, obj \in ConfigMap : InHand(c, obj) => Copy(obj, store[c])

(* A step adds no copies but of what was in hand, or of what it writes.    *)
Copied(c, obj) ==
  \/ obj = store'[c]
  \/ \E old \in ConfigMap : InHand(c, old) /\ old.rv = obj.rv /\ Alike(old, obj)

LEMMA CopiesKeep ==
  ASSUME DInv, TypeOK', now' \in {now, now + 1},
         \A c \in Name : store'[c] = store[c] \/ (store'[c].rv = store[c].rv + 1 /\ Full(store'[c])),
         \A c \in Name, obj \in ConfigMap : InHand(c, obj)' => Copied(c, obj)
  PROVE  DInv'
<1>1. now' > 0
  BY DEF DInv, TypeOK
<1>2. ASSUME NEW c \in Name, NEW obj \in ConfigMap, InHand(c, obj)'
      PROVE  Copy(obj, store'[c])
  <2>1. store[c] \in ConfigMap /\ store'[c] \in ConfigMap
    BY DEF DInv, TypeOK
  <2>2. CASE obj = store'[c]
    <3>1. Full(store[c])
      BY <2>1 DEF DInv, InHand, Copy
    <3> QED
      BY <2>1, <2>2, <3>1 DEF Copy, Alike, ConfigMap
  <2>3. CASE \E old \in ConfigMap : InHand(c, old) /\ old.rv = obj.rv /\ Alike(old, obj)
    <3>1. PICK old \in ConfigMap : InHand(c, old) /\ old.rv = obj.rv /\ Alike(old, obj)
      BY <2>3
    <3>2. Copy(old, store[c])
      BY <3>1 DEF DInv
    <3> QED
      BY <2>1, <3>1, <3>2 DEF Copy, Alike, Full, ConfigMap
  <2> QED
    BY <1>2, <2>2, <2>3 DEF Copied
<1> QED
  <2>1. \A c \in Name, obj \in ConfigMap : InHand(c, obj)' => Copy(obj, store[c])'
    BY <1>2 DEF Copy, Alike, Full
  <2> QED
    BY <1>1, <2>1 DEF DInv

(* Steps that write nothing and take no new copy. *)
LEMMA NoneCopied ==
  ASSUME DInv, TypeOK', now' \in {now, now + 1}, UNCHANGED <<store, watch, cache>>,
         \A c \in Name : job'[c] = job[c] \/ job'[c].at = 0,
         clearItems' \subseteq clearItems
  PROVE  DInv'
<1>1. ASSUME NEW c \in Name, NEW obj \in ConfigMap, InHand(c, obj)' PROVE Copied(c, obj)
  <2>1. InHand(c, obj)
    BY <1>1 DEF InHand
  <2> QED
    BY <2>1 DEF Copied, Alike
<1> QED
  BY <1>1, CopiesKeep

(* Steps that write one object and take no new copy of another.            *)
LEMMA WriteCopied ==
  ASSUME DInv, TypeOK', now' = now, NEW n \in Name, NEW new \in ConfigMap, Write(n, new), Full(new),
         \A c \in Name : job'[c] = job[c] \/ job'[c].at = 0,
         clearItems' \subseteq clearItems
  PROVE  DInv'
<1> DEFINE stored == Versioned(n, new)
<1>1. /\ store \in [Name -> ConfigMap] /\ watch \in [Name -> Seq(ConfigMap)] /\ watch[n] \in Seq(ConfigMap)
  BY DEF DInv, TypeOK
<1>2. stored \in ConfigMap /\ stored.rv = store[n].rv + 1 /\ Full(stored)
  <2>1. store[n].rv + 1 \in Nat
    BY <1>1 DEF ConfigMap
  <2> QED
    BY <2>1, ChangedType DEF Versioned, Full, ConfigMap
<1>3. /\ store' = [store EXCEPT ![n] = stored] /\ cache' = cache
      /\ watch' = [watch EXCEPT ![n] = Append(@, stored)]
  BY DEF Write
<1> HIDE DEF stored
<1>4. \A c \in Name : store'[c] = store[c] \/ (store'[c].rv = store[c].rv + 1 /\ Full(store'[c]))
  BY <1>1, <1>2, <1>3
<1>5. ASSUME NEW c \in Name, NEW obj \in ConfigMap, InHand(c, obj)' PROVE Copied(c, obj)
  <2>1. ASSUME NEW i \in 1 .. Len(watch'[c]), obj = watch'[c][i]
        PROVE  obj = store'[c] \/ InHand(c, obj)
    <3>1. CASE c = n /\ i = Len(watch[n]) + 1
      BY <1>1, <1>2, <1>3, <2>1, <3>1
    <3>2. CASE ~(c = n /\ i = Len(watch[n]) + 1)
      <4>1. i \in 1 .. Len(watch[c]) /\ watch'[c][i] = watch[c][i]
        BY <1>1, <1>2, <1>3, <3>2
      <4> QED
        BY <2>1, <4>1 DEF InHand
    <3> QED
      BY <3>1, <3>2
  <2>2. obj = store'[c] \/ InHand(c, obj)
    BY <1>3, <1>5, <2>1 DEF InHand
  <2> QED
    BY <2>2 DEF Copied, Alike
<1> QED
  BY <1>4, <1>5, CopiesKeep

LEMMA DeferralInit == Init => DInv
<1> SUFFICES ASSUME Init PROVE DInv
  OBVIOUS
<1>1. TypeOK
  BY TypeInit
<1>2. \A c \in Name, obj \in ConfigMap : InHand(c, obj) => obj = store[c]
  BY DEF Init, APIInit, InHand, NoJob
<1>3. \A c \in Name : store[c] \in ConfigMap /\ store[c].exists = FALSE
  BY <1>1 DEF TypeOK, Init, APIInit, Absent, Fresh
<1>4. \A c \in Name, obj \in ConfigMap : InHand(c, obj) => Copy(obj, store[c])
  BY <1>2, <1>3 DEF Copy, Alike, Full, ConfigMap
<1> QED
  BY <1>1, <1>4 DEF DInv, Init

LEMMA DeferralDeliver ==
  ASSUME DInv, TypeOK', NEW n \in Name, Deliver(n)
  PROVE  DInv'
<1>1. /\ UNCHANGED <<store, job, clearItems, now>>
      /\ cache' = [cache EXCEPT ![n] = Head(watch[n])]
      /\ watch' = [watch EXCEPT ![n] = Tail(@)]
      /\ watch[n] # <<>> /\ watch[n] \in Seq(ConfigMap)
      /\ cache \in [Name -> ConfigMap] /\ watch \in [Name -> Seq(ConfigMap)]
  BY DEF Deliver, Observe, DInv, TypeOK
<1>2. /\ Tail(watch[n]) \in Seq(ConfigMap) /\ Head(watch[n]) = watch[n][1]
      /\ 1 \in 1 .. Len(watch[n])
      /\ \A i \in 1 .. Len(Tail(watch[n])) :
           i + 1 \in 1 .. Len(watch[n]) /\ Tail(watch[n])[i] = watch[n][i + 1]
  <2>1. PICK s \in Seq(ConfigMap) : s = watch[n] /\ s # <<>>
    BY <1>1
  <2> DEFINE t == Tail(s)
  <2>2. t \in Seq(ConfigMap) /\ Len(t) = Len(s) - 1 /\ \A i \in 1 .. Len(t) : t[i] = s[i + 1]
    BY <2>1, HeadTailProperties
  <2>3. Len(s) \in Nat \ {0} /\ Head(s) = s[1]
    BY <2>1, EmptySeq
  <2> HIDE DEF t
  <2>4. 1 \in 1 .. Len(s) /\ \A i \in 1 .. Len(t) : i + 1 \in 1 .. Len(s) /\ t[i] = s[i + 1]
    BY <2>2, <2>3
  <2> QED
    BY <2>1, <2>2, <2>3, <2>4 DEF t
<1>3. ASSUME NEW c \in Name, NEW obj \in ConfigMap, InHand(c, obj)' PROVE Copied(c, obj)
  <2>1. CASE obj = cache'[c]
    BY <1>1, <1>2, <2>1 DEF InHand, Copied, Alike
  <2>2. ASSUME NEW i \in 1 .. Len(watch'[c]), obj = watch'[c][i] PROVE InHand(c, obj)
    <3>1. CASE c = n
      <4>1. watch'[c] = Tail(watch[n])
        BY <1>1, <3>1
      <4> QED
        BY <1>2, <2>2, <3>1, <4>1 DEF InHand
    <3>2. CASE c # n
      BY <1>1, <2>2, <3>2 DEF InHand
    <3> QED
      BY <3>1, <3>2
  <2>3. obj = cache'[c] \/ InHand(c, obj)
    BY <1>1, <1>3, <2>2 DEF InHand
  <2> QED
    BY <2>1, <2>3 DEF Copied, Alike
<1> QED
  BY <1>1, <1>3, CopiesKeep

(* What is in hand is not without a payload; nor is what is written of it. *)
LEMMA HandFull ==
  ASSUME DInv, NEW c \in Name, NEW obj \in ConfigMap, InHand(c, obj)
  PROVE  Full(obj) /\ Full([obj EXCEPT !.deferred = NoDeferral]) /\ Full(Concluded(obj))
<1>1. Full(obj)
  BY DEF DInv, Copy
<1>2. Concluded(obj).exists = obj.exists /\ Concluded(obj).gen = obj.gen
  BY DEF Concluded, ConfigMap
<1> QED
  BY <1>1, <1>2 DEF Full, ConfigMap

LEMMA DeferralNext == DInv /\ [Next]_vars => DInv'
<1> SUFFICES ASSUME DInv, [Next]_vars PROVE DInv'
  OBVIOUS
<1> TypeOK'
  BY TypeNext DEF DInv
<1> USE DEF apiVars
<1>1. ASSUME NEW c \in Name, Publish(c) PROVE DInv'
  <2>1. PICK msg \in Payloads : Write(c, Fresh(store[c].gen + 1, msg))
    BY <1>1 DEF Publish
  <2>2. Fresh(store[c].gen + 1, msg) \in ConfigMap
    <3>1. store[c] \in ConfigMap
      BY DEF DInv, TypeOK
    <3>2. store[c].gen + 1 \in Nat
      BY <3>1 DEF ConfigMap
    <3> QED
      BY <3>2, FreshType
  <2>3. Full(Fresh(store[c].gen + 1, msg))
    <3>1. store[c] \in ConfigMap
      BY DEF DInv, TypeOK
    <3>2. store[c].gen + 1 > 0
      BY <3>1 DEF ConfigMap
    <3> QED
      BY <3>2 DEF Full, Fresh
  <2> QED
    BY <1>1, <2>1, <2>2, <2>3, WriteCopied DEF Publish
<1>2. ASSUME NEW c \in Name, Deliver(c) PROVE DInv'
  BY <1>2, DeferralDeliver
<1>3. ASSUME NEW c \in Name, Resync(c) PROVE DInv'
  BY <1>3, NoneCopied DEF Resync
<1>4. ASSUME NEW n \in Name, Reconcile(n) PROVE DInv'
  <2>1. /\ UNCHANGED <<store, watch, cache, clearItems, now>>
        /\ job' = job \/ job' = [job EXCEPT ![n] = [at |-> 1, obj |-> cache[n]]]
        /\ job \in [Name -> [at : 0 .. LastStep, obj : ConfigMap]]
    BY <1>4 DEF Reconcile, DInv, TypeOK
  <2>2. ASSUME NEW c \in Name, NEW obj \in ConfigMap, InHand(c, obj)' PROVE Copied(c, obj)
    <3>1. job'[c] = job[c] \/ job'[c].obj = cache[c]
      BY <2>1
    <3>2. InHand(c, obj)
      BY <2>1, <2>2, <3>1 DEF InHand
    <3> QED
      BY <3>2 DEF Copied, Alike
  <2> QED
    BY <2>1, <2>2, CopiesKeep
<1>5. ASSUME NEW c \in Name, Reject(c) \/ PanicInPostProcess(c) PROVE DInv'
  <2>1. \A n \in Name : job'[n] = job[n] \/ job'[n].at = 0
    BY <1>5 DEF Reject, PanicInPostProcess, NoJob, DInv, TypeOK
  <2> QED
    BY <1>5, <2>1, NoneCopied DEF Reject, PanicInPostProcess
<1>6. ASSUME NEW n \in Name, RunPostProcessor(n) PROVE DInv'
  <2>1. /\ UNCHANGED <<store, watch, cache, clearItems, now>>
        /\ job \in [Name -> [at : 0 .. LastStep, obj : ConfigMap]]
        /\ job[n].at # 0 /\ job[n].obj \in ConfigMap
    BY <1>6 DEF RunPostProcessor, DInv, TypeOK
  <2>2. /\ \A c \in Name \ {n} : job'[c] = job[c]
        /\ job'[n].obj.rv = job[n].obj.rv /\ Alike(job[n].obj, job'[n].obj)
    <3>1. CASE job' = [job EXCEPT ![n].at = @ + 1]
      BY <2>1, <3>1 DEF Alike
    <3>2. CASE \E p, out :
                 job' = [job EXCEPT ![n] =
                           [at |-> job[n].at + 1, obj |-> [job[n].obj EXCEPT !.status[p] = out]]]
      BY <2>1, <3>2 DEF Alike, ConfigMap
    <3> QED
      BY <1>6, <3>1, <3>2 DEF RunPostProcessor
  <2>3. ASSUME NEW c \in Name, NEW obj \in ConfigMap, InHand(c, obj)' PROVE Copied(c, obj)
    <3>1. InHand(c, obj) \/ (c = n /\ obj = job'[n].obj)
      BY <2>1, <2>2, <2>3 DEF InHand
    <3>2. InHand(n, job[n].obj)
      BY <2>1 DEF InHand
    <3>3. CASE InHand(c, obj)
      BY <3>3 DEF Copied, Alike
    <3>4. CASE c = n /\ obj = job'[n].obj
      <4>1. job[n].obj.rv = obj.rv /\ Alike(job[n].obj, obj)
        BY <2>2, <3>4
      <4> QED
        BY <2>1, <3>2, <3>4, <4>1 DEF Copied
    <3> QED
      BY <3>1, <3>3, <3>4
  <2> QED
    BY <2>1, <2>3, CopiesKeep
<1>7. ASSUME NEW n \in Name, FinishReconcile(n) PROVE DInv'
  <2>1. /\ \A c \in Name : job'[c] = job[c] \/ job'[c].at = 0
        /\ UNCHANGED <<clearItems, now>>
    BY <1>7 DEF FinishReconcile, NoJob, DInv, TypeOK
  <2>2. Concluded(job[n].obj) \in ConfigMap
    BY ConcludedType DEF DInv, TypeOK
  <2>3. CASE Write(n, Concluded(job[n].obj))
    <3>1. job[n].obj \in ConfigMap /\ InHand(n, job[n].obj)
      BY <1>7, LastStepNat DEF FinishReconcile, InHand, DInv, TypeOK
    <3>2. Full(Concluded(job[n].obj))
      BY <3>1, HandFull
    <3> QED
      BY <2>1, <2>2, <2>3, <3>2, WriteCopied
  <2>4. CASE UNCHANGED apiVars
    BY <2>1, <2>4, NoneCopied
  <2> QED
    BY <1>7, <2>3, <2>4 DEF FinishReconcile
<1>8. ASSUME NEW n \in Name, BurnItem(n) PROVE DInv'
  <2>1. [store[n] EXCEPT !.exists = FALSE] \in ConfigMap /\ Full([store[n] EXCEPT !.exists = FALSE])
    <3>1. store[n] \in ConfigMap
      BY DEF DInv, TypeOK
    <3>2. [store[n] EXCEPT !.exists = FALSE].exists = FALSE
      BY <3>1 DEF ConfigMap
    <3> QED
      BY <3>1, <3>2, ChangedType DEF Full
  <2>2. CASE Write(n, [store[n] EXCEPT !.exists = FALSE])
    BY <1>8, <2>1, <2>2, WriteCopied DEF BurnItem
  <2>3. CASE UNCHANGED apiVars
    BY <1>8, <2>3, NoneCopied DEF BurnItem
  <2> QED
    BY <1>8, <2>2, <2>3 DEF BurnItem, Remove
<1>9. ASSUME NEW sel \in SUBSET Name, ClearDeferredTick(sel) PROVE DInv'
  <2>1. /\ UNCHANGED <<store, watch, cache, job, now>>
        /\ \E run \in 1 .. MaxListed : clearItems' = clearItems \cup {<<c, cache[c], run>> : c \in sel}
    BY <1>9 DEF ClearDeferredTick
  <2>2. ASSUME NEW c \in Name, NEW obj \in ConfigMap, InHand(c, obj)' PROVE Copied(c, obj)
    <3>1. \A item \in clearItems' : item \in clearItems \/ item[2] = cache[item[1]]
      BY <2>1
    <3>2. InHand(c, obj)
      BY <2>1, <2>2, <3>1 DEF InHand
    <3> QED
      BY <3>2 DEF Copied, Alike
  <2> QED
    BY <2>1, <2>2, CopiesKeep
<1>10. ASSUME NEW sel \in SUBSET Name, BurnTick(sel) PROVE DInv'
  BY <1>10, NoneCopied DEF BurnTick
<1>11. ASSUME NEW item \in clearItems, ClearDeferredItem(item) PROVE DInv'
  <2>1. item[1] \in Name /\ item[2] \in ConfigMap
    BY ItemType DEF DInv
  <2>2. /\ [item[2] EXCEPT !.deferred = NoDeferral] \in ConfigMap
        /\ Full([item[2] EXCEPT !.deferred = NoDeferral])
    <3>1. InHand(item[1], item[2])
      BY DEF InHand
    <3> QED
      BY <2>1, <3>1, ChangedType, HandFull
  <2>3. UNCHANGED <<job, now>> /\ clearItems' \subseteq clearItems
    BY <1>11 DEF ClearDeferredItem
  <2>4. CASE Write(item[1], [item[2] EXCEPT !.deferred = NoDeferral])
    BY <2>1, <2>2, <2>3, <2>4, WriteCopied
  <2>5. CASE UNCHANGED apiVars
    BY <2>3, <2>5, NoneCopied
  <2> QED
    BY <1>11, <2>4, <2>5 DEF ClearDeferredItem
<1>12. CASE NamespaceSeen \/ Minute
  BY <1>12, NoneCopied DEF NamespaceSeen, Minute
<1>13. CASE Crash
  <2>1. /\ UNCHANGED <<store, now>> /\ cache' = store /\ watch' = [c \in Name |-> <<>>]
        /\ clearItems' = {} /\ \A c \in Name : job'[c].at = 0
    BY <1>13 DEF Crash, Relist, NoJob
  <2>2. ASSUME NEW c \in Name, NEW obj \in ConfigMap, InHand(c, obj)' PROVE Copied(c, obj)
    BY <2>1, <2>2 DEF InHand, Copied
  <2> QED
    BY <2>1, <2>2, CopiesKeep
<1>14. CASE UNCHANGED vars
  BY <1>14, NoneCopied DEF vars
<1> QED
  BY <1>1, <1>2, <1>3, <1>4, <1>5, <1>6, <1>7, <1>8, <1>9, <1>10, <1>11, <1>12,
     <1>13, <1>14 DEF Next

LEMMA TakenDeferral ==
  ASSUME DInv, NEW n \in Name, NEW obj \in ConfigMap, InHand(n, obj), UpdateTaken(n, obj)
  PROVE  obj.deferred = store[n].deferred
BY DEF DInv, Copy, Alike, UpdateTaken, Accepts

(* What a step may do to a deferral while the time still fits in 32 bits.  *)
LEMMA StepHonours ==
  ASSUME DInv, now <= MaxInt32, [Next]_vars, NEW n \in Name,
         store[n].exists, store[n].deferred # NoDeferral,
         store'[n].gen = store[n].gen, store'[n].deferred = NoDeferral
  PROVE  now > store[n].deferred
<1>1. store \in [Name -> ConfigMap] /\ store[n] \in ConfigMap /\ now \in Nat /\ now > 0
  BY DEF DInv, TypeOK
<1>2. store'[n] # store[n]
  OBVIOUS
<1>3. ASSUME NEW c \in Name, NEW obj \in ConfigMap, Write(c, obj)
      PROVE  c = n /\ store'[n].gen = obj.gen /\ store'[n].deferred = obj.deferred
  <2>1. store' = [store EXCEPT ![c] = [obj EXCEPT !.rv = store[c].rv + 1]]
    BY <1>3 DEF Write, Versioned
  <2>2. c = n
    BY <1>1, <1>2, <2>1
  <2> QED
    BY <1>1, <2>1, <2>2 DEF ConfigMap
<1>4. ASSUME NEW c \in Name, Publish(c) PROVE FALSE
  <2>1. PICK msg \in Payloads : Write(c, Fresh(store[c].gen + 1, msg))
    BY <1>4 DEF Publish
  <2>2. store[c].gen \in Nat /\ store[c].gen + 1 \in Nat
    BY <1>1 DEF ConfigMap
  <2>3. Fresh(store[c].gen + 1, msg) \in ConfigMap /\ Fresh(store[c].gen + 1, msg).gen = store[c].gen + 1
    BY <2>2, FreshType DEF Fresh
  <2> QED
    BY <1>3, <2>1, <2>2, <2>3
<1>5. ASSUME NEW c \in Name, FinishReconcile(c) PROVE FALSE
  <2> DEFINE obj == job[c].obj
  <2>1. obj \in ConfigMap /\ Concluded(obj) \in ConfigMap
    BY ConcludedType DEF DInv, TypeOK
  <2>2. UpdateTaken(c, obj) /\ Write(c, Concluded(obj))
    BY <1>2, <1>5 DEF FinishReconcile, apiVars
  <2>3. InHand(c, obj)
    <3>1. job[c].at # 0
      BY <1>5, LastStepNat DEF FinishReconcile
    <3> QED
      BY <3>1 DEF InHand
  <2>4. c = n /\ obj.deferred # 0
    BY <1>3, <2>1, <2>2, <2>3, TakenDeferral DEF NoDeferral
  <2>5. Concluded(obj).deferred # 0
    <3>1. CASE Failing(obj)
      <4>1. Concluded(obj).deferred = now + MinutesBetweenRetries
        BY <2>1, <3>1 DEF Concluded, minutesFromNow, ConfigMap
      <4> QED
        BY <1>1, <4>1, ConfigAssumption
    <3>2. CASE ~Failing(obj)
      BY <2>1, <2>4, <3>2 DEF Concluded, ConfigMap
    <3> QED
      BY <3>1, <3>2
  <2> QED
    BY <1>3, <2>1, <2>2, <2>5 DEF NoDeferral
<1>6. ASSUME NEW c \in Name, BurnItem(c) PROVE FALSE
  <2>1. Write(c, [store[c] EXCEPT !.exists = FALSE])
    BY <1>2, <1>6 DEF BurnItem, Remove, apiVars
  <2>2. [store[c] EXCEPT !.exists = FALSE] \in ConfigMap
    BY <1>1, ChangedType
  <2>3. [store[c] EXCEPT !.exists = FALSE].deferred = store[c].deferred
    BY <1>1 DEF ConfigMap
  <2> QED
    BY <1>3, <2>1, <2>2, <2>3
<1>7. ASSUME NEW item \in clearItems, ClearDeferredItem(item) PROVE now > store[n].deferred
  <2>1. item[1] \in Name /\ item[2] \in ConfigMap
    BY ItemType DEF DInv
  <2>2. /\ Due(item[2]) /\ UpdateTaken(item[1], item[2])
        /\ Write(item[1], [item[2] EXCEPT !.deferred = NoDeferral])
    BY <1>2, <1>7 DEF ClearDeferredItem, apiVars
  <2>3. [item[2] EXCEPT !.deferred = NoDeferral] \in ConfigMap
    BY <2>1, ChangedType
  <2>4. item[1] = n
    BY <1>3, <2>1, <2>2, <2>3
  <2>5. InHand(n, item[2])
    BY <2>4 DEF InHand
  <2>6. item[2].deferred = store[n].deferred
    BY <2>1, <2>2, <2>4, <2>5, TakenDeferral
  <2>7. store[n].deferred \in Nat /\ MaxInt32 \in Nat
    BY <1>1, ConfigAssumption DEF ConfigMap
  <2> QED
    BY <1>1, <2>2, <2>6, <2>7 DEF Due, ParseTimestamp
<1>8. ASSUME NEW c \in Name,
             \/ Deliver(c) \/ Resync(c) \/ Reconcile(c) \/ Reject(c)
             \/ RunPostProcessor(c) \/ PanicInPostProcess(c)
      PROVE  FALSE
  BY <1>2, <1>8 DEF Deliver, Observe, Resync, Reconcile, Reject, RunPostProcessor, PanicInPostProcess
<1>9. ASSUME NEW sel \in SUBSET Name, ClearDeferredTick(sel) \/ BurnTick(sel) PROVE FALSE
  BY <1>2, <1>9 DEF ClearDeferredTick, BurnTick
<1>10. CASE NamespaceSeen \/ Minute \/ Crash \/ UNCHANGED vars
  BY <1>2, <1>10 DEF NamespaceSeen, Minute, Crash, Relist, vars
<1> QED
  BY <1>4, <1>5, <1>6, <1>7, <1>8, <1>9, <1>10 DEF Next

(* The deferral of a payload is only lifted after its time, by whichever   *)
(* copy, overlapping run of the cron or restarted process: as long as the  *)
(* clock has not passed the largest 32 bit number that main.go:616 can     *)
(* parse, from when on every deferral would be lifted at once.             *)
THEOREM DeferralsKept == Spec /\ [](now <= MaxInt32) => DeferralHonoured
<1>1. ASSUME DInv, now <= MaxInt32, [Next]_vars
      PROVE  [\A c \in Name :
                /\ store[c].exists /\ store[c].deferred # NoDeferral
                /\ store'[c].gen = store[c].gen /\ store'[c].deferred = NoDeferral
                => now > store[c].deferred]_vars
  BY <1>1, StepHonours
<1> QED
  BY <1>1, DeferralInit, DeferralNext, PTL DEF Spec, DeferralHonoured
=============================================================================
