------------------------ MODULE ConfigMapController ------------------------
(***************************************************************************)
(* The path of an insights ConfigMap through insights-remote: the build    *)
(* publishes it, the ConfigMap reconciler runs the post-processors on it   *)
(* and records their outcome on the object, the deferred-clear cron makes  *)
(* a failed one eligible again, the burn-after-reading cron removes it.    *)
(*                                                                         *)
(* One reconcile is three kinds of step, since the post-processors take    *)
(* seconds to minutes and everything else may move meanwhile: Reconcile    *)
(* (dequeue and Get), RunPostProcessor (one per configured processor) and  *)
(* FinishReconcile (BatchUpdateCM).  The crons likewise list first and     *)
(* write item by item.                                                     *)
(***************************************************************************)
EXTENDS KubernetesAPI, FiniteSets, FiniteSetsExt

CONSTANTS
  PostProcessors,     \* the non-nil post-processors, in the order of the slice
  ProdOnly,           \* [processor -> BOOLEAN]: its effective push-prod-only
  ParentTemplate,     \* a Dependency Track parent project template is set
  Payloads,           \* the messages a build may publish
  MinutesBetweenRetries,
  MaxNumberOfRetries,
  MaxConcurrent,      \* workers of the controller
  ListLimit,          \* ListOptions.Limit of both crons
  EnableDeferred,     \* the deferred-clear cron is started
  BurnAfterReading,   \* the burn-after-reading cron is started
  NamespaceLag,       \* the Namespace may reach the cache after the ConfigMap
  MaxInt32,           \* largest value of a 32 bit ParseInt
  MaxPublish,         \* bound: publications per name
  MaxFaults,          \* bound: crashes and failing API calls
  MaxListed           \* bound: items the runs of the deferred-clear cron have
                      \* in hand, and so also such runs at a time

VARIABLES
  queue,              \* names waiting in the controller's work queue
  job,                \* [Name -> the reconcile in progress, at = 0: none]
  clearItems,         \* <<name, copy, run>> the deferred-clear cron has in hand
  burnItems,          \* names listed by the burn cron as processed
  nsCached,           \* the namespace of the ConfigMaps is in the cache
  now,                \* wall clock, in minutes
  delivered,          \* history: <<name, gen, processor>> handed over
  failedRuns,         \* history: failing runs on the current payload
  faults              \* faults so far

vars == <<store, watch, cache, queue, job, clearItems, burnItems, nsCached, now,
          delivered, failedRuns, faults>>

-----------------------------------------------------------------------------
(* The objects.                                                            *)

Labels == {"core", "default", "custom"}
Processors == {PostProcessors[i] : i \in DOMAIN PostProcessors}
LastStep == Len(PostProcessors) + 1

Message == [override      : {"none", "sbom", "inspect", "other"},
            insightsLabel : {"sbom-gz", "image-gz", "other"},
            coreEnabled   : BOOLEAN,
            endpoint      : BOOLEAN,
            prod          : BOOLEAN]

ASSUME ConfigAssumption ==
  /\ Name # {}
  /\ PostProcessors \in Seq(Labels)
  /\ \A i, j \in DOMAIN PostProcessors :
       PostProcessors[i] = PostProcessors[j] => i = j
  /\ ProdOnly \in [Processors -> BOOLEAN] /\ ParentTemplate \in BOOLEAN
  /\ Payloads # {} /\ Payloads \subseteq Message
  /\ MinutesBetweenRetries \in Nat /\ MaxNumberOfRetries \in Nat
  /\ MaxConcurrent \in Nat \ {0} /\ ListLimit \in Nat \ {0}
  /\ EnableDeferred \in BOOLEAN /\ BurnAfterReading \in BOOLEAN
  /\ NamespaceLag \in BOOLEAN
  /\ MaxInt32 \in Nat /\ MaxPublish \in Nat /\ MaxFaults \in Nat
  /\ MaxListed \in Nat

NoDeferral == 0

(* An insights ConfigMap: gen tells its payloads apart, the other fields   *)
(* are the labels and annotations this program reads and writes.           *)
ConfigMap == [exists    : BOOLEAN,
              rv        : Nat,
              gen       : Nat,
              msg       : Payloads,
              status    : [Processors -> {"unset", "success", "failure"}],
              retries   : Nat,
              deferred  : Nat,
              maxed     : BOOLEAN,
              processed : BOOLEAN]

Fresh(gen, msg) ==
  [exists |-> TRUE, rv |-> 0, gen |-> gen, msg |-> msg,
   status |-> [p \in Processors |-> "unset"], retries |-> 0,
   deferred |-> NoDeferral, maxed |-> FALSE, processed |-> FALSE]

Absent == [Fresh(0, CHOOSE m \in Payloads : TRUE) EXCEPT !.exists = FALSE]

NoJob == [at |-> 0, obj |-> Absent]

InsightsType(msg) ==
  CASE msg.override # "none"                                       -> msg.override
    [] msg.override = "none" /\ msg.insightsLabel = "sbom-gz"      -> "sbom"
    [] msg.override = "none" /\ msg.insightsLabel = "image-gz"     -> "inspect"
    [] OTHER                                                       -> "unclassified"

Recognised(obj) == InsightsType(obj.msg) \in {"sbom", "inspect"}

(* Mutant of insightLabelsOnlyPredicate: the deferred label asked for. *)
insightLabelsOnlyPredicate_Inverted(obj) == obj.deferred # NoDeferral /\ ~obj.processed

(* insightLabelsOnlyPredicate and insightMaxRetryPredicate: the events the *)
(* controller reacts to.  Every object here carries the insights label.    *)
insightLabelsOnlyPredicate(obj) == obj.deferred = NoDeferral /\ ~obj.processed
insightMaxRetryPredicate(obj) == ~obj.maxed
Wanted(obj) ==
  obj.exists /\ insightLabelsOnlyPredicate(obj) /\ insightMaxRetryPredicate(obj)

-----------------------------------------------------------------------------
(* The post-processors.                                                    *)

(* The processor looks at the message at all. *)
Selects(p, msg) ==
  CASE p = "core"    -> msg.coreEnabled
    [] p = "default" -> InsightsType(msg) = "sbom"
    [] p = "custom"  -> InsightsType(msg) = "sbom" /\ msg.endpoint

(* A successful run of the processor hands the payload over. *)
Pushes(p, msg) ==
  Selects(p, msg) /\ (p # "core" => (ProdOnly[p] => msg.prod))

(* postProcess takes the UUID of the last parent project; with no template *)
(* there is none, and the nil pointer panics.                              *)
Panics(p, msg) == p # "core" /\ Pushes(p, msg) /\ ~ParentTemplate

(* Mutant of Outcomes: the error of a delivery is logged and not returned. *)
Outcomes_ErrorSwallowed(p, msg) ==
  IF Pushes(p, msg) THEN {<<"success", "sent">>, <<"success", "held">>}
                    ELSE {<<"success", "held">>}

(* Whether PostProcess returns an error, and whether the payload reached   *)
(* the broker or Dependency Track: an error may come after the delivery.   *)
Outcomes(p, msg) ==
  CASE ~Selects(p, msg) -> {<<"success", "held">>}
    [] Selects(p, msg) /\ ~Pushes(p, msg) ->
         {<<"success", "held">>, <<"failure", "held">>}
    [] Panics(p, msg) -> {<<"failure", "held">>}
    [] OTHER ->
         {<<"success", "sent">>, <<"failure", "held">>, <<"failure", "sent">>}

-----------------------------------------------------------------------------
Init ==
  /\ APIInit(Absent)
  /\ queue = {}
  /\ job = [c \in Name |-> NoJob]
  /\ clearItems = {}
  /\ burnItems = {}
  /\ nsCached = ~NamespaceLag
  /\ now = 1
  /\ delivered = {}
  /\ failedRuns = [c \in Name |-> 0]
  /\ faults = 0

(* The build creates the ConfigMap, or replaces it with the payload of the *)
(* next build: new data, no annotation or label of an earlier run.         *)
Publish(c) ==
  /\ store[c].gen < MaxPublish
  /\ \E msg \in Payloads : Write(c, Fresh(store[c].gen + 1, msg))
  /\ failedRuns' = [failedRuns EXCEPT ![c] = 0]
  /\ UNCHANGED <<queue, job, clearItems, burnItems, nsCached, now, delivered, faults>>

(* An event reaches the cache; the predicates decide whether to enqueue. *)
Deliver(c) ==
  /\ Observe(c)
  /\ queue' = IF Wanted(cache'[c]) THEN queue \cup {c} ELSE queue
  /\ UNCHANGED <<job, clearItems, burnItems, nsCached, now, delivered, failedRuns, faults>>

(* The informer's periodic resync replays the cached object as an update. *)
Resync(c) ==
  /\ c \notin queue
  /\ Wanted(cache[c])
  /\ queue' = queue \cup {c}
  /\ UNCHANGED <<store, watch, cache, job, clearItems, burnItems, nsCached, now,
                 delivered, failedRuns, faults>>

NamespaceSeen ==
  /\ ~nsCached
  /\ nsCached' = TRUE
  /\ UNCHANGED <<store, watch, cache, queue, job, clearItems, burnItems, now,
                 delivered, failedRuns, faults>>

Busy == {c \in Name : job[c].at # 0}

(* A worker takes a name and gets the ConfigMap and its Namespace; either  *)
(* being unknown ends the reconcile without an error.                      *)
Reconcile(c) ==
  /\ c \in queue
  /\ c \notin Busy
  /\ Cardinality(Busy) < MaxConcurrent
  /\ queue' = queue \ {c}
  /\ IF cache[c].exists /\ nsCached
     THEN job' = [job EXCEPT ![c] = [at |-> 1, obj |-> cache[c]]]
     ELSE UNCHANGED job
  /\ UNCHANGED <<store, watch, cache, clearItems, burnItems, nsCached, now,
                 delivered, failedRuns, faults>>

(* Mutant of RequeueOnError: the error is swallowed. *)
RequeueOnError_Swallowed(c) == queue' = queue

(* A reconcile that returns an error has its name queued again. *)
RequeueOnError(c) == queue' = queue \cup {c}

(* An unrecognised type is an error, and nothing is written to the object. *)
Reject(c) ==
  /\ job[c].at = 1
  /\ ~Recognised(job[c].obj)
  /\ job' = [job EXCEPT ![c] = NoJob]
  /\ RequeueOnError(c)
  /\ UNCHANGED <<store, watch, cache, clearItems, burnItems, nsCached, now,
                 delivered, failedRuns, faults>>

(* The loop body: a processor that succeeded before is skipped, any other  *)
(* one runs and its result goes into the annotations to be written.        *)
RunPostProcessor(c) ==
  LET j == job[c]
      p == PostProcessors[j.at]
  IN  /\ j.at \in 1 .. Len(PostProcessors)
      /\ Recognised(j.obj)
      /\ \/ /\ j.obj.status[p] = "success"
            /\ job' = [job EXCEPT ![c].at = @ + 1]
            /\ UNCHANGED delivered
         \/ /\ j.obj.status[p] # "success"
            /\ \E out \in Outcomes(p, j.obj.msg) :
                 /\ job' = [job EXCEPT ![c] =
                              [at |-> j.at + 1, obj |-> [j.obj EXCEPT !.status[p] = out[1]]]]
                 /\ delivered' = IF out[2] = "sent" THEN delivered \cup {<<c, j.obj.gen, p>>}
                                           ELSE delivered
      /\ UNCHANGED <<store, watch, cache, queue, clearItems, burnItems, nsCached, now,
                     failedRuns, faults>>

(* A panic leaves the loop and the reconcile: controller-runtime recovers  *)
(* it as an error, and what the other processors did is not recorded.      *)
PanicInPostProcess(c) ==
  LET j == job[c]
      p == PostProcessors[j.at]
  IN  /\ j.at \in 1 .. Len(PostProcessors)
      /\ Recognised(j.obj)
      /\ j.obj.status[p] # "success"
      /\ Panics(p, j.obj.msg)
      /\ job' = [job EXCEPT ![c] = NoJob]
      /\ RequeueOnError(c)
      /\ UNCHANGED <<store, watch, cache, clearItems, burnItems, nsCached, now,
                     delivered, failedRuns, faults>>

Failing(obj) == \E p \in Processors : obj.status[p] = "failure"

minutesFromNow(mins) == now + mins

(* Mutant of Concluded: the retries are counted down. *)
Concluded_CountsDown(obj) ==
  IF Failing(obj)
  THEN [obj EXCEPT !.deferred = minutesFromNow(MinutesBetweenRetries),
                   !.retries  = obj.retries - 1,
                   !.maxed    = IF obj.retries - 1 > MaxNumberOfRetries THEN TRUE ELSE @]
  ELSE [obj EXCEPT !.processed = TRUE]

(* Mutant of Concluded: a failing processor is forgotten. *)
Concluded_ErrorForgotten(obj) == [obj EXCEPT !.processed = TRUE]

(* Mutant of Concluded: one attempt too few before giving up. *)
Concluded_GivesUpEarly(obj) ==
  IF Failing(obj)
  THEN [obj EXCEPT !.deferred = minutesFromNow(MinutesBetweenRetries),
                   !.retries  = obj.retries + 1,
                   !.maxed    = IF obj.retries + 1 >= MaxNumberOfRetries THEN TRUE ELSE @]
  ELSE [obj EXCEPT !.processed = TRUE]

(* The labels and annotations the reconcile writes at its end. *)
Concluded(obj) ==
  IF Failing(obj)
  THEN [obj EXCEPT !.deferred = minutesFromNow(MinutesBetweenRetries),
                   !.retries  = obj.retries + 1,
                   !.maxed    = IF obj.retries + 1 > MaxNumberOfRetries THEN TRUE ELSE @]
  ELSE [obj EXCEPT !.processed = TRUE]

(* History: a run with a failing processor on the payload now in the store. *)
CountRun(c, obj) ==
  failedRuns' = IF Failing(obj) /\ obj.gen = store[c].gen
                                /\ failedRuns[c] <= MaxNumberOfRetries
                THEN [failedRuns EXCEPT ![c] = @ + 1]
                ELSE failedRuns

Fault == faults < MaxFaults /\ faults' = faults + 1

(* Mutant of UpdateTaken: the write goes out without the version read. *)
UpdateTaken_Forced(c, obj) == store[c].exists

(* Reconciler and cron write back the object they read, so its resource    *)
(* version goes with it and the server refuses a copy that is out of date. *)
UpdateTaken(c, obj) == Accepts(c, obj)

(* BatchUpdateCM: one Update of the copy read at the start.  A conflict, a *)
(* deleted object or a failing call is an error and requeues the name; a   *)
(* call may also fail after the server has accepted the write.             *)
FinishReconcile(c) ==
  LET obj == job[c].obj
  IN  /\ job[c].at = LastStep
      /\ Recognised(obj)
      /\ \/ /\ UpdateTaken(c, obj)
            /\ Write(c, Concluded(obj))
            /\ \/ UNCHANGED <<queue, faults>>
               \/ Fault /\ RequeueOnError(c)
         \/ /\ \/ ~UpdateTaken(c, obj) /\ UNCHANGED faults
               \/ UpdateTaken(c, obj) /\ Fault
            /\ RequeueOnError(c)
            /\ UNCHANGED apiVars
      /\ job' = [job EXCEPT ![c] = NoJob]
      /\ CountRun(c, obj)
      /\ UNCHANGED <<clearItems, burnItems, nsCached, now, delivered>>

-----------------------------------------------------------------------------
(* The crons.  A List with a limit returns any that many of the matches.   *)

(* Mutant of Listed: one short of the limit. *)
Listed_OneShort(matches) ==
  {s \in SUBSET matches : Cardinality(s) = Min({ListLimit - 1, Cardinality(matches)})}

Listed(matches) ==
  {s \in SUBSET matches : Cardinality(s) = Min({ListLimit, Cardinality(matches)})}

DeferredInCache == {c \in Name : cache[c].exists /\ cache[c].deferred # NoDeferral}

(* A run starts whether or not earlier ones are through, also with what    *)
(* they have listed: run tells their items apart.                          *)
ClearDeferredTick(sel) ==
  /\ EnableDeferred
  /\ sel # {}
  /\ sel \in Listed(DeferredInCache)
  /\ Cardinality(clearItems) + Cardinality(sel) <= MaxListed
  /\ \E run \in 1 .. MaxListed :
       /\ \A item \in clearItems : item[3] # run
       /\ clearItems' = clearItems \cup {<<c, cache[c], run>> : c \in sel}
  /\ UNCHANGED <<store, watch, cache, queue, job, burnItems, nsCached, now, delivered,
                 failedRuns, faults>>

(* strconv.ParseInt(val, 10, 32) with the error dropped saturates. *)
ParseTimestamp(val) == IF val > MaxInt32 THEN MaxInt32 ELSE val

(* Mutants of Due: the comparison is missing, or the wrong way round. *)
Due_Always(obj) == TRUE
Due_Swapped(obj) == now < ParseTimestamp(obj.deferred)

Due(obj) == now > ParseTimestamp(obj.deferred)

(* The items of its run that come after item: err is not reset from one    *)
(* item to the next, and is tested as if it were ParseInt's.               *)
RestOfRun(item) == {other \in clearItems : other[3] = item[3]}

(* The label is taken off once its time is past.  A refused or failing     *)
(* Update is logged and ends the run: the next tick lists again.           *)
ClearDeferredItem(item) ==
  LET c == item[1]
      obj == item[2]
  IN  /\ item \in clearItems
      /\ \/ /\ ~Due(obj)
            /\ clearItems' = clearItems \ {item}
            /\ UNCHANGED <<apiVars, faults>>
         \/ /\ Due(obj) /\ UpdateTaken(c, obj)
            /\ Write(c, [obj EXCEPT !.deferred = NoDeferral])
            /\ clearItems' = clearItems \ {item}
            /\ UNCHANGED faults
         \/ /\ Due(obj)
            /\ \/ ~UpdateTaken(c, obj) /\ UNCHANGED faults
               \/ UpdateTaken(c, obj) /\ Fault
            /\ clearItems' = clearItems \ RestOfRun(item)
            /\ UNCHANGED apiVars
      /\ UNCHANGED <<queue, job, burnItems, nsCached, now, delivered, failedRuns>>

(* Mutants of Processed: the annotation is not looked at, or the wrong way. *)
Processed_Any(sel) == sel
Processed_Inverted(sel) == {c \in sel : ~cache[c].processed}

Processed(sel) == {c \in sel : cache[c].processed}

(* The list is of all insights ConfigMaps, processed or not. *)
BurnTick(sel) ==
  /\ BurnAfterReading
  /\ sel # {}
  /\ sel \in Listed({c \in Name : cache[c].exists})
  /\ burnItems' = burnItems \cup Processed(sel)
  /\ UNCHANGED <<store, watch, cache, queue, job, clearItems, nsCached, now, delivered,
                 failedRuns, faults>>

BurnItem(c) ==
  /\ c \in burnItems
  /\ burnItems' = burnItems \ {c}
  /\ \/ Remove(c) /\ UNCHANGED faults
     \/ Fault /\ UNCHANGED apiVars
  /\ UNCHANGED <<queue, job, clearItems, nsCached, now, delivered, failedRuns>>

-----------------------------------------------------------------------------
(* A minute passes.  Bound: the clock only moves while a deferral waits    *)
(* for it, which is all that the code compares it with.                    *)
Minute ==
  /\ \E c \in Name : store[c].exists /\ store[c].deferred >= now
  /\ now' = now + 1
  /\ UNCHANGED <<store, watch, cache, queue, job, clearItems, burnItems, nsCached,
                 delivered, failedRuns, faults>>

(* The process dies and restarts: queue, reconciles and cron runs are lost *)
(* and the initial list produces one create event per object.              *)
Crash ==
  /\ Fault
  /\ Relist
  /\ queue' = {c \in Name : Wanted(store[c])}
  /\ job' = [c \in Name |-> NoJob]
  /\ clearItems' = {}
  /\ burnItems' = {}
  /\ UNCHANGED <<nsCached, now, delivered, failedRuns>>

Next ==
  \/ \E c \in Name :
       \/ Publish(c) \/ Deliver(c) \/ Resync(c)
       \/ Reconcile(c) \/ Reject(c)
       \/ RunPostProcessor(c) \/ PanicInPostProcess(c) \/ FinishReconcile(c)
       \/ BurnItem(c)
  \/ \E sel \in SUBSET Name : ClearDeferredTick(sel) \/ BurnTick(sel)
  \/ \E item \in clearItems : ClearDeferredItem(item)
  \/ NamespaceSeen \/ Minute \/ Crash

Spec == Init /\ [][Next]_vars

(* Workers, watches, crons and the clock go on for ever.  A name may leave *)
(* and re-enter the queue and the lists, which are served in no particular *)
(* order: hence strong fairness there.  Builds and faults owe nothing, nor *)
(* does a cron that is not started.                                        *)
Fairness ==
  /\ \A c \in Name :
       /\ WF_vars(Deliver(c)) /\ SF_vars(Reconcile(c)) /\ WF_vars(Reject(c))
       /\ WF_vars(RunPostProcessor(c) \/ PanicInPostProcess(c))
       /\ WF_vars(FinishReconcile(c))
       /\ EnableDeferred =>
            /\ WF_vars(\E item \in clearItems : item[1] = c /\ ClearDeferredItem(item))
            /\ SF_vars(\E sel \in SUBSET Name : c \in sel /\ ClearDeferredTick(sel))
       /\ BurnAfterReading =>
            /\ WF_vars(BurnItem(c))
            /\ SF_vars(\E sel \in SUBSET Name : c \in sel /\ BurnTick(sel))
  /\ NamespaceLag => WF_vars(NamespaceSeen)
  /\ WF_vars(Minute)

FairSpec == Spec /\ Fairness

(* The same with the informer's resync (every ten hours by default). *)
ResyncSpec == FairSpec /\ \A c \in Name : WF_vars(Resync(c))

(* Builds that leave alone what the burn cron takes for processed: it has   *)
(* the name listed, or may list it from the copy in the cache or one that  *)
(* is on its way there.                                                    *)
TakenForProcessed(c) ==
  \/ c \in burnItems
  \/ cache[c].exists /\ cache[c].processed
  \/ \E i \in DOMAIN watch[c] : watch[c][i].exists /\ watch[c][i].processed

BuildsWait == \A c \in Name : store'[c].gen # store[c].gen => ~TakenForProcessed(c)

WaitingSpec == Init /\ [][Next /\ BuildsWait]_vars

-----------------------------------------------------------------------------
(* Properties.                                                             *)

TypeOK ==
  /\ store \in [Name -> ConfigMap] /\ cache \in [Name -> ConfigMap]
  /\ watch \in [Name -> Seq(ConfigMap)]
  /\ queue \subseteq Name
  /\ job \in [Name -> [at : 0 .. LastStep, obj : ConfigMap]]
  /\ clearItems \subseteq Name \X ConfigMap \X Nat
  /\ burnItems \subseteq Name
  /\ nsCached \in BOOLEAN /\ now \in Nat /\ faults \in Nat
  /\ delivered \subseteq Name \X Nat \X Processors
  /\ failedRuns \in [Name -> 0 .. MaxNumberOfRetries + 1]

(* A ConfigMap marked processed has been handed, with the payload it holds *)
(* now, to every processor that wants it: the mark of one payload is never *)
(* left on another, and no failed run is taken for a success.              *)
ProcessedMeansDelivered ==
  \A c \in Name : store[c].processed =>
    \A p \in Processors :
      Pushes(p, store[c].msg) => <<c, store[c].gen, p>> \in delivered

(* The max-retry label is only put on after more failing runs on this very *)
(* payload than the configured number of retries.                          *)
AbandonedOnlyAfterRetries ==
  \A c \in Name : store[c].maxed => failedRuns[c] > MaxNumberOfRetries

(* A write of a reconcile or a cron, all of them based on an earlier read, *)
(* never puts an earlier payload back over what a build has published.     *)
NoPayloadRegression ==
  [][\A c \in Name : store'[c].gen >= store[c].gen]_vars

(* What the annotations of a payload record is kept as long as the payload *)
(* is there: a success, the processed mark, the retry count and the        *)
(* max-retry label are never rolled back by a stale copy.                  *)
OutcomesAreKept ==
  [][\A c \in Name : store'[c].gen = store[c].gen =>
       /\ \A p \in Processors : store[c].status[p] = "success" =>
                                 store'[c].status[p] = "success"
       /\ store[c].processed => store'[c].processed
       /\ store[c].maxed => store'[c].maxed
       /\ store'[c].retries >= store[c].retries]_vars

(* A ConfigMap that still wants processing is never forgotten: its name is *)
(* queued, it is being reconciled, or an event about it is on its way.     *)
NoLostWakeup ==
  \A c \in Name : Wanted(store[c]) /\ nsCached =>
    c \in queue \/ c \in Busy \/ watch[c] # <<>>

(* The deferral of a failed payload is only lifted after its time.         *)
DeferralHonoured ==
  [][\A c \in Name :
       /\ store[c].exists /\ store[c].deferred # NoDeferral
       /\ store'[c].gen = store[c].gen /\ store'[c].deferred = NoDeferral
       => now > store[c].deferred]_vars

(* Every recognised payload is delivered or given up on in the end, whatever *)
(* fails on the way and however often the build replaces it.               *)
EventuallySettled ==
  \A c \in Name :
    store[c].exists /\ Recognised(store[c]) ~>
      ~store[c].exists \/ store[c].processed \/ store[c].maxed

(* One that no post-processor panics on settles, and its last deferral is  *)
(* lifted, even when its neighbours fail for ever: a name that is retried  *)
(* without end, for a panic or an unrecognised type, does not keep the     *)
(* worker, the queue or the limited list of the cron from the others.      *)
(* Nothing tells the names apart, so that any one of them stands for all.  *)
NeighboursSettle ==
  LET c == CHOOSE c \in Name : TRUE
  IN  /\ store[c].exists /\ Recognised(store[c])
      /\ \A p \in Processors : ~Panics(p, store[c].msg)
      ~> \/ ~store[c].exists
         \/ (store[c].processed \/ store[c].maxed) /\ store[c].deferred = NoDeferral

(* With burn-after-reading, a processed ConfigMap does not stay for ever.  *)
EventuallyBurned ==
  \A c \in Name : store[c].exists /\ store[c].processed ~>
                    ~store[c].exists \/ ~store[c].processed

(* Burn-after-reading only removes ConfigMaps that have been processed.    *)
BurnOnlyProcessed ==
  [][\A c \in Name : store[c].exists /\ ~store'[c].exists => store[c].processed]_vars

-----------------------------------------------------------------------------
(* What the labels and annotations say of the payload, and the promise.    *)

OutcomeOf(obj) ==
  CASE obj.processed                -> "done"
    [] ~obj.processed /\ obj.maxed  -> "abandoned"
    [] OTHER                        -> "pending"

Delivery == INSTANCE InsightsDelivery WITH
  Processor <- Processors,
  present   <- [c \in Name |-> store[c].exists],
  payload   <- [c \in Name |-> store[c].gen],
  required  <- [c \in Name |-> {p \in Processors : Pushes(p, store[c].msg)}],
  outcome   <- [c \in Name |-> OutcomeOf(store[c])],
  sent      <- delivered

(* The reconciler and the crons deliver what InsightsDelivery promises.    *)
ImplementsDelivery == Delivery!Spec
=============================================================================
